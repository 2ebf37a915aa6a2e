-------------------------- MODULE GrassSystemMeets --------------------------
(***************************************************************************)
(* Proofs about GrassSystem: for a user who uses one direction at a time,  *)
(* the threads that serve a request at the two ends meet on one connection *)
(* and no bytes of one file are taken for another's.  They rest on what    *)
(* GrassClientProofs and FtpServerProofs show of each process alone.       *)
(***************************************************************************)
EXTENDS GrassSystemProofs

Transfers == {"put", "get"}

Paths == Files \cup {Nil}

(* A transfer that has been typed and has no thread of the client yet; the *)
(* handler works on one unless it is idle or has left.                     *)
Coming(kind, file) == Client!Pending(kind, file)
WriterIsBusy == at["writer"] \in {"check", "join", "store", "lock", "write"}
ReaderIsBusy == at["reader"] \in {"flag", "spawn"}
HandlerIsBusy == s_handler # "idle" /\ ~s_leaving
KindOf(d) == IF d = "SEND" THEN "get" ELSE "put"

(* A direction in which neither side has anything to do; there always is   *)
(* one.                                                                    *)
Resting(c) ==
  /\ ~active[c] /\ RunningThreads(c) = {}
  /\ ~s_active[Other(c)]
  /\ \A kind \in Transfers, file \in Paths : Coming(kind, file) => DirectionOf(kind) # c
OneWay == \E c \in Dir : Resting(c)

(* What comes is the file that was typed last, and no thread is for it.    *)
FilesAreNew ==
  /\ \A t \in Threads : thread[t].want \in 0..typed \cup {Nil}
  /\ \A kind \in Transfers, file \in Paths : Coming(kind, file) =>
       file = typed /\ \A t \in Threads : thread[t].want # typed

(* The client's connection is that of the thread which made it and whose   *)
(* flag is up.                                                             *)
ClientConnection ==
  /\ port_open <=> file_transfer_socket # Nil
  /\ \A t \in Threads : file_transfer_socket = t =>
       /\ active[thread[t].dir] /\ thread_id[thread[t].dir] = t
       /\ thread[t].where \in {"open", "transfer", "finish", "ended"}
       /\ link[t] # Nil
  /\ \A t \in Threads : thread[t].where \in {"open", "transfer"} =>
       /\ file_transfer_socket \in {t, Nil}
       /\ active[thread[t].dir] => file_transfer_socket = t

(* A thread that is about to connect, or to be created, is flagged or has  *)
(* no port either, and there is no older connection.                       *)
ClientPort ==
  /\ \A t \in Threads :
       /\ thread[t].where \in {"connect", "refused"} => ~port_open
       /\ thread[t].where = "connect" => active[thread[t].dir] \/ ftp_port = Nil
  /\ at["reader"] = "spawn" =>
       ~port_open /\ (active[DirectionOf(message.kind)] \/ ftp_port = Nil)

(* A transfer of the server has a listener of its own, which the client    *)
(* does not know before the reply.                                         *)
ServerPort ==
  /\ s_handler \in {"raise", "spawn", "reply"} \/ (\E d \in Dir : s_active[d]) =>
       /\ s_ftp_socket # Nil /\ s_ftp_port = s_ftp_socket
       /\ s_fds[s_ftp_socket] = "listener"
  /\ s_handler = "spawn" => ~s_port_open
  /\ \A d \in Dir : s_thread[d] = "connect" => ~s_port_open
  /\ s_handler \in {"raise", "spawn", "reply"} =>
       \A t \in Threads : link[t] # s_ftp_socket
  /\ s_handler = "reply" =>
       s_thread[s_type] \in {"connect", "accept"} /\ s_serving[s_type] = s_request

(* Every descriptor that anybody knows has been opened.                    *)
Known == 1..opened \cup {Nil}
Numbered ==
  /\ {s_ftp_socket, s_ftp_port, s_file_transfer_socket, ftp_port, message.port}
       \subseteq Known
  /\ \A t \in Threads : link[t] \in Known
  /\ \A i \in 1..Len(inbox) : inbox[i].port \in Known

(* The port that has been announced to the client for a file and is yet to *)
(* be connected to.                                                        *)
Announced(p, file, d) ==
  \/ \E i \in 1..Len(inbox) : /\ inbox[i].kind \in Transfers
                              /\ inbox[i].port = p /\ inbox[i].file = file
                              /\ DirectionOf(inbox[i].kind) = d
  \/ /\ at["reader"] \in {"flag", "spawn"}
     /\ p = IF at["reader"] = "flag" THEN message.port ELSE ftp_port
     /\ message.file = file /\ DirectionOf(message.kind) = d
  \/ /\ p = ftp_port
     /\ \E t \in Threads : /\ thread[t].where = "connect"
                           /\ thread[t].want = file /\ thread[t].dir = d

(* A port or connection is the one that a thread of the server works with  *)
(* exactly when it is for the request that this thread serves.             *)
Socket(d) ==
  IF s_thread[d] \in {"connect", "accept"} THEN s_ftp_socket ELSE s_file_transfer_socket
IsFor(p, file, d) ==
  \A e \in Dir : s_thread[e] \in {"connect", "accept", "open", "transfer"} =>
    (p = Socket(e) <=> e = Other(d) /\ s_serving[e] = file)

PortsAreForRequests ==
  \A p \in Ports, file \in Paths, d \in Dir : Announced(p, file, d) =>
    IsFor(p, file, d) /\ \A t \in Threads : link[t] # p
LinksAreForRequests ==
  /\ \A t \in Threads : link[t] # Nil => IsFor(link[t], thread[t].want, thread[t].dir)
  /\ \A t, u \in Threads : link[t] # Nil /\ link[t] = link[u] => t = u

(* What is in a connection is the file it was made for.                    *)
WiresCarryOneFile ==
  /\ \A t \in Threads : thread[t].where = "none" =>
       link[t] = Nil /\ \A d \in Dir : wire[t][d] = <<>>
  /\ \A t \in Threads, d \in Dir : \A i \in 1..Len(wire[t][d]) :
       wire[t][d][i] = thread[t].want
  /\ ~mixed

Wires == [Threads -> [Dir -> Seq(Paths)]]
DataTypes ==
  /\ opened \in Nat
  /\ link \in [Threads -> Ports \cup {Nil}]
  /\ wire \in Wires
  /\ {hasty, mixed} \subseteq BOOLEAN
  /\ careless => hasty

Meeting == /\ OneWay /\ FilesAreNew /\ ClientConnection /\ ClientPort /\ ServerPort
           /\ Numbered /\ PortsAreForRequests /\ LinksAreForRequests
           /\ WiresCarryOneFile

SInv == DataTypes /\ (~hasty => Meeting)
-----------------------------------------------------------------------------
(* What GrassClientProofs and FtpServerProofs say of the two processes, in *)
(* the words of this module.                                               *)
Parts == Client!IInv /\ Server!IInv /\ Mapped

ThreadFacts ==
  /\ \A d \in Dir : \A t \in RunningThreads(d) :
       thread_id[d] = t /\ (active[d] \/ at["main"] \notin {"wait", "stop"})
  /\ \A d \in Dir, t \in Threads :
       thread_id[d] = t => thread[t].dir = d /\ thread[t].where # "none"
  /\ \A p \in {"writer", "main"} : at[p] = "join" => active[dir[p]]
  /\ \A t \in Threads : thread[t].where = "transfer" =>
       thread[t].file = thread[t].want \/ ~active[thread[t].dir]

ComingFacts ==
  /\ \A kind \in Transfers, file \in Paths :
       Coming(kind, file) /\ at["writer"] \notin {"check", "join"} =>
         /\ RunningThreads(DirectionOf(kind)) = {}
         /\ active[DirectionOf(kind)] => at["reader"] = "spawn"
  /\ WriterIsBusy =>
       /\ command.kind \in Transfers /\ Coming(command.kind, command.file)
       /\ dir["writer"] = DirectionOf(command.kind)
       /\ ~HandlerIsBusy /\ ~ReaderIsBusy
  /\ ReaderIsBusy => message.kind \in Transfers /\ Coming(message.kind, message.file)
  /\ HandlerIsBusy => Coming(KindOf(s_type), s_request) /\ ~ReaderIsBusy
  /\ \A i \in 1..Len(inbox) : inbox[i].kind \in Transfers =>
       /\ Coming(inbox[i].kind, inbox[i].file)
       /\ ~WriterIsBusy /\ ~HandlerIsBusy /\ ~ReaderIsBusy

ServerFacts ==
  /\ S!TypeOK
  /\ \A d \in Dir : s_thread[d] # "none" => s_active[d]
  /\ s_handler \in {"prepare", "setup", "raise"} => ~s_active[s_type]
  /\ s_handler = "spawn" => s_thread[s_type] = "none"
  /\ s_handler = "join" => s_active[s_type]
  /\ s_leaving => s_handler \in {"check", "join", "freed", "undefined"}
  /\ s_port_open => s_file_transfer_socket # Nil /\ \E d \in Dir : s_active[d]
  /\ ~s_port_open => s_file_transfer_socket = Nil
  /\ \A d \in Dir : s_thread[d] \in {"open", "transfer"} => s_port_open
  /\ \A d \in Dir : s_thread[d] = "accept" => ~s_port_open

USE DEF idVars

LEMMA PlainTypes ==
  ASSUME Mapped
  PROVE  TypeOK
<1>1. sent \in Seq(Command)
  <2>1. sent \in Seq(Asks) /\ Asks \subseteq Command
    BY DEF Mapped, Asks
  <2> QED
    BY <2>1, SeqMonotonic
<1> QED
  BY <1>1 DEF Mapped, TypeOK, Client!TypeOK, Client!Command, Command, Client!Message,
     Message, Client!Dir, Dir, Client!Threads, Threads, Client!Transfer, Transfer

LEMMA ThreadsInOrder ==
  ASSUME Client!IInv, ~careless
  PROVE  ThreadFacts
BY DEF Client!IInv, Client!Orderly, Client!ThreadsAreTheLatest, Client!IdsAreOfThreads,
   Client!JoinsAreLocked, Client!FilesAreTheirOwn, Client!RunningThreads, RunningThreads,
   Client!Threads, Threads, Client!Dir, Dir, Client!Late, ThreadFacts

LEMMA ServerInOrder ==
  ASSUME Server!IInv
  PROVE  ServerFacts
<1>1. S!TypeOK
  BY DEF Server!IInv, Server!TypeOK, S!TypeOK, Server!Dir, S!Dir, Server!ThreadSteps,
     S!ThreadSteps, Server!HandlerSteps, S!HandlerSteps, Server!Descriptors,
     S!Descriptors, Server!Message, S!Message
<1> QED
  BY <1>1, ConstantsAssumption DEF Server!IInv, Server!FlagCovers, Server!HandlerContext,
     Server!CleanupContext, Server!DataConnection, Server!Dir, Dir, ServerFacts

LEMMA HandlerHasOne ==
  ASSUME Mapped, HandlerIsBusy
  PROVE  Client!HasOne(Unanswered) /\ Client!Holds(Unanswered, KindOf(s_type), s_request)
<1> DEFINE e == [kind |-> KindOf(s_type), file |-> s_request]
<1>1. Unanswered = <<e>> \o sent /\ sent \in Seq(Asks)
  BY DEF Unanswered, HandlerIsBusy, KindOf, Mapped
<1>2. Len(Unanswered) = Len(sent) + 1 /\ Len(sent) \in Nat /\ Unanswered[1] = e
  BY <1>1
<1>3. 1 \in 1..Len(Unanswered) /\ e.kind \in {"put", "get"}
  BY <1>2 DEF KindOf
<1> QED
  BY <1>2, <1>3 DEF Client!HasOne, Client!Holds, Client!Transfers

LEMMA ComingInOrder ==
  ASSUME Client!IInv, Mapped, ~careless
  PROVE  ComingFacts
<1> USE DEF Client!WriterHasOne, WriterIsBusy, Client!ReaderHasOne, ReaderIsBusy,
            Transfers, Client!Transfers, DirectionOf, Client!DirectionOf, Coming,
            Client!Pending, Paths
<1>1. /\ Client!OneAtATime /\ Client!HandsAreFull /\ Client!RequestsArePrepared
      /\ Client!WriterMayStore /\ WriterAsks /\ TypeOK
  BY PlainTypes DEF Client!IInv, Client!Orderly, Mapped
<1>2. WriterIsBusy => /\ IsTransfer(command) /\ dir["writer"] = DirectionOf(command.kind)
                      /\ command.kind \in Transfers
  BY <1>1 DEF WriterAsks, IsTransfer, Client!HandsAreFull
<1>3. ASSUME NEW kind \in Transfers, NEW file \in Paths, Coming(kind, file),
             at["writer"] \notin {"check", "join"}
      PROVE  /\ RunningThreads(DirectionOf(kind)) = {}
             /\ active[DirectionOf(kind)] => at["reader"] = "spawn"
  <2>1. CASE Client!Asked(kind, file)
    BY <1>1, <1>3, <2>1 DEF Client!RequestsArePrepared, RunningThreads,
       Client!RunningThreads, Threads, Client!Threads
  <2>2. CASE ~Client!Asked(kind, file)
    <3>1. at["writer"] = "store" /\ command.kind = kind
      BY <1>3, <2>2 DEF Client!Asked
    <3> QED
      BY <1>1, <1>2, <3>1 DEF Client!WriterMayStore, RunningThreads,
         Client!RunningThreads, Threads, Client!Threads
  <2> QED
    BY <2>1, <2>2
<1>4. /\ WriterIsBusy => ~HandlerIsBusy /\ ~ReaderIsBusy
      /\ HandlerIsBusy => ~ReaderIsBusy
  BY <1>1, HandlerHasOne DEF Client!OneAtATime
<1>5. ReaderIsBusy => message.kind \in Transfers /\ Coming(message.kind, message.file)
  BY <1>1 DEF Client!HandsAreFull, Client!Asked
<1>6. HandlerIsBusy => Coming(KindOf(s_type), s_request)
  BY HandlerHasOne DEF Client!Asked
<1>7. ASSUME NEW i \in 1..Len(inbox), inbox[i].kind \in Transfers
      PROVE  /\ Coming(inbox[i].kind, inbox[i].file)
             /\ ~WriterIsBusy /\ ~HandlerIsBusy /\ ~ReaderIsBusy
  <2>1. Client!Holds(inbox, inbox[i].kind, inbox[i].file) /\ Client!HasOne(inbox)
    BY <1>7 DEF Client!Holds, Client!HasOne
  <2> QED
    BY <1>1, <2>1, HandlerHasOne DEF Client!OneAtATime, Client!Asked
<1>8. WriterIsBusy => Coming(command.kind, command.file)
  OBVIOUS
<1> QED
  BY <1>2, <1>3, <1>4, <1>5, <1>6, <1>7, <1>8 DEF ComingFacts

-----------------------------------------------------------------------------
(* The steps of the system, with those of the client's writer, reader and  *)
(* main put together that touch neither a transfer nor a message.          *)
ReaderStays == ReaderIsBusy' => at'["reader"] = at["reader"] /\ UNCHANGED message
Aside ==
  /\ UNCHANGED <<active, sockVars, threadVars, inbox, typed, careless>>
  /\ UNCHANGED <<serverVars, tcpVars, hasty, mixed>>
  /\ message' \in {message, Say("text")}
  /\ ReaderStays
Reads ==
  /\ \E k \in 1..Len(inbox) : Read(k)
  /\ UNCHANGED <<serverVars, tcpVars, hasty, mixed>>
Joins == \E p \in {"writer", "main"} : ClientOnly(JoinReturns(p))

LEMMA SystemSteps ==
  ASSUME TypeOK, [SystemNext]_systemVars
  PROVE  \/ UserTypes \/ Aside \/ Reads \/ ClientOnly(Flag) \/ ClientOnly(Spawn) \/ Joins
         \/ \E t \in Threads : ClientThread(t)
         \/ ServerHandler \/ \E d \in Dir : ServerThread(d)
<1> USE DEF ReaderStays, ReaderIsBusy, procVars, sockVars, ftpVars, threadVars, netVars,
            userVars, allButAt, history, clientVars, Goto
<1>0. at \in [writer : {"type", "check", "join", "store", "lock", "write", "done"},
             reader : {"read", "flag", "spawn", "unlock", "done"},
             main : {"wait", "stop", "check", "join", "exit", "exited", "undefined"}]
  BY DEF TypeOK
<1>1. CASE UNCHANGED systemVars
  BY <1>1 DEF systemVars, Aside
<1>2. ASSUME NEW p \in {"writer", "main"}, ClientOnly(CheckFtp(p)), ~Joins
      PROVE  Aside
  BY <1>0, <1>2 DEF ClientOnly, CheckFtp, CheckNothingActive, CheckCancels, JoinsNoThread,
     AfterCheck, Joins, Aside
<1>3. ASSUME ClientOnly(Store \/ Lock \/ Write \/ Unlock)
      PROVE  Aside
  BY <1>0, <1>3 DEF ClientOnly, Store, Lock, Write, Unlock, Aside
<1>4. ASSUME ClientOnly(StopCancels \/ StopExits \/ Interrupt \/ WriterEnds
                        \/ \E p \in {"writer", "reader"} : PeerCancelled(p))
      PROVE  Aside
  BY <1>0, <1>4 DEF ClientOnly, StopCancels, StopExits, Interrupt, WriterEnds, StopMain,
     PeerCancelled, MainGoes, Aside
<1>5. CASE ClientWriter \/ ClientMain
  BY <1>2, <1>3, <1>4, <1>5 DEF ClientWriter, ClientMain, WriterStep, StopStep, ClientOnly
<1>6. CASE ClientReader
  BY <1>3, <1>6 DEF ClientReader, ClientOnly, Reads
<1>7. CASE ClientEnds
  BY <1>4, <1>7 DEF ClientEnds, ClientOnly
<1> QED
  BY <1>1, <1>5, <1>6, <1>7 DEF SystemNext, ClientRuns, ServerRuns

(* What a thread of the client that takes a step leaves of itself.         *)
LEMMA ThreadEffects ==
  ASSUME TypeOK, NEW t \in Threads, ClientThread(t)
  PROVE  /\ \A u \in Threads : u # t => thread'[u] = thread[u]
         /\ thread'[t].dir = thread[t].dir /\ thread'[t].want = thread[t].want
         /\ thread[t].where \notin {"none", "ended", "joined"}
         /\ thread'[t].where \notin {"none", "joined"}
         /\ UNCHANGED <<dir, command, message, thread_id, inbox, typed, careless>>
         /\ at'["reader"] = at["reader"] /\ at'["writer"] = at["writer"]
         /\ UNCHANGED <<serverVars, opened, hasty>>
<1> USE DEF procVars, sockVars, ftpVars, threadVars, netVars, userVars, history, tcpVars,
            Goto, Move, Transfer
<1>0. /\ thread \in [Threads -> Transfer]
      /\ at \in [writer : {"type", "check", "join", "store", "lock", "write", "done"},
             reader : {"read", "flag", "spawn", "unlock", "done"},
             main : {"wait", "stop", "check", "join", "exit", "exited", "undefined"}]
  BY DEF TypeOK
<1>1. CASE ClientOnly(ConnectReuse(t) \/ OpenFile(t)) \/ Connects(t) \/ IsRefused(t)
  BY <1>0, <1>1 DEF ClientOnly, ConnectReuse, OpenFile, Connects, ConnectOpens, IsRefused,
     ConnectRefused
<1>2. CASE ClientSends(t)
  BY <1>0, <1>2 DEF ClientSends, TransferEnds
<1>3. CASE ClientReceives(t)
  BY <1>0, <1>3 DEF ClientReceives, TransferEnds, TransferFails
<1>4. CASE ClientCancelled(t)
  BY <1>0, <1>4 DEF ClientCancelled, Cancelled
<1>5. CASE ClientOnly(Finish(t))
  BY <1>0, <1>5 DEF ClientOnly, Finish
<1> QED
  BY <1>1, <1>2, <1>3, <1>4, <1>5 DEF ClientThread, ClientOnly

(* The server leaves the client alone, but for the control socket.         *)
LEMMA ServerLeavesClient ==
  ASSUME ServerHandler \/ \E d \in Dir : ServerThread(d)
  PROVE  UNCHANGED <<procVars, ftpVars, threadVars, typed, careless, hasty>>
BY DEF ServerHandler, HandlerReads, HandlerLeaves, ServerListens, SetupFails,
   ToClient, ServerOnly, ServerThread, ServerAccepts, AcceptFails, ServerSends,
   ServerReceives, ServerCancelled, clientVars, userVars, history

LEMMA OnlyTheUserTypes ==
  ASSUME TypeOK, [SystemNext]_systemVars, ~UserTypes
  PROVE  UNCHANGED <<typed, careless, hasty>>
BY SystemSteps, ThreadEffects, ServerLeavesClient
DEF Aside, Reads, ClientOnly, Flag, Spawn, Joins, JoinReturns, Read, userVars, history

(* A transfer comes by being typed, and has come when its thread is there. *)
LEMMA ComingStep ==
  ASSUME Client!IInv, Mapped, ~careless, [SystemNext]_systemVars, ~UserTypes
  PROVE  \A kind \in Transfers, file \in Paths :
           Coming(kind, file)' => Coming(kind, file) /\ ~ClientOnly(Spawn)
<1>1. [Client!Next]_Client!vars
  BY StepMaps
<1>2. UNCHANGED <<typed, careless>> /\ typed \in Nat
  BY PlainTypes, OnlyTheUserTypes DEF TypeOK
<1>3. ~\E c \in Client!Typeable : Client!Type(c, Client!Dealt)
  BY <1>2 DEF Client!Type
<1>4. \A kind \in Transfers, file \in Paths :
        Client!Pending(kind, file)' => Client!Pending(kind, file) /\ ~Client!Spawn
  BY <1>1, <1>2, <1>3, Client!OnlyTypingAdds, ConstantsAssumption, Zenon
  DEF Client!OnlyTypingAdds, Transfers, Client!Transfers, Paths
<1>5. ClientOnly(Spawn) => Client!Spawn
  <2> SUFFICES ASSUME ClientOnly(Spawn) PROVE Client!Spawn
    OBVIOUS
  <2>1. UNCHANGED Unanswered
    BY MappingKeeps DEF ClientOnly, Spawn, netVars, serverVars, handlerVars
  <2> QED
    BY <2>1 DEF ClientOnly, Spawn, Client!Spawn, Threads, Client!Threads, StoreId,
       Client!StoreId, DirectionOf, Client!DirectionOf, Goto, Client!Goto, netVars,
       Client!netVars, ftpVars, Client!ftpVars, sockVars, Client!sockVars, userVars,
       Client!userVars
<1> QED
  BY <1>4, <1>5 DEF Coming

(* The server raises a flag for the command its handler works on.          *)
LEMMA ServerFlags ==
  ASSUME S!TypeOK, ServerHandler \/ \E d \in Dir : ServerThread(d), NEW e \in Dir,
         s_active'[e]
  PROVE  s_active[e] \/ (s_handler = "raise" /\ s_type = e)
<1> USE DEF S!ftpVars, S!cleanVars, S!sockVars
<1>0. s_active \in [Dir -> BOOLEAN]
  BY DEF S!TypeOK, S!Dir, Dir
<1>1. CASE HandlerReads \/ HandlerLeaves \/ ServerListens \/ SetupFails
  BY <1>1 DEF HandlerReads, S!StartCommand, S!AnswerOther, HandlerLeaves, ServerOnly,
     S!Disconnect, ServerListens, S!SetupListens, SetupFails, S!SetupFails
<1>2. CASE ToClient(S!RefuseFile \/ S!Reply)
  BY <1>2 DEF ToClient, S!RefuseFile, S!Reply
<1>3. CASE ServerOnly(S!CheckFtp \/ S!Prepare \/ S!SetupReuse \/ S!SpawnThread)
  BY <1>0, <1>3 DEF ServerOnly, S!CheckFtp, S!CheckNothingActive, S!CheckCancels,
     S!CheckCancelsStray, S!JoinReturns, S!CleanFtp, S!Prepare, S!SetupReuse,
     S!SpawnThread
<1>4. CASE ServerOnly(S!RaiseFlag)
  BY <1>0, <1>4 DEF ServerOnly, S!RaiseFlag
<1>5. ASSUME NEW d \in Dir, ServerThread(d) PROVE s_active[e]
  <2>1. CASE ServerOnly(S!ConnectReuse(d) \/ S!ConnectAccepts(d) \/ S!OpenFile(d))
    BY <2>1 DEF ServerOnly, S!ConnectReuse, S!ConnectAccepts, S!OpenFile
  <2>2. CASE ServerOnly(S!Finish(d))
    BY <1>0, <2>2 DEF ServerOnly, S!Finish, S!CleanFtp
  <2>3. CASE ServerAccepts(d) \/ AcceptFails(d) \/ ServerCancelled(d)
    BY <2>3 DEF ServerAccepts, S!Accept, AcceptFails, ServerOnly, S!AcceptFails,
       ServerCancelled, S!Cancelled
  <2>4. CASE ServerSends \/ ServerReceives
    BY <2>4 DEF ServerSends, ServerReceives, S!TransferEnds, S!TransferFails
  <2> QED
    BY <1>5, <2>1, <2>2, <2>3, <2>4 DEF ServerThread, ServerOnly
<1> QED
  BY <1>1, <1>2, <1>3, <1>4, <1>5 DEF ServerHandler, ServerOnly

LEMMA OnlySpawnAdds ==
  ASSUME TypeOK, [SystemNext]_systemVars, ~ClientOnly(Spawn), NEW d \in Dir
  PROVE  RunningThreads(d)' \subseteq RunningThreads(d)
<1>0. thread \in [Threads -> Transfer]
  BY DEF TypeOK
<1>1. CASE UserTypes \/ Aside \/ Reads \/ ClientOnly(Flag)
  BY <1>1 DEF UserTypes, Type, Aside, Reads, Read, ClientOnly, Flag, RunningThreads,
     threadVars
<1>2. CASE Joins
  BY <1>0, <1>2 DEF Joins, ClientOnly, JoinReturns, RunningThreads, Transfer
<1>3. ASSUME NEW t \in Threads, ClientThread(t)
      PROVE  RunningThreads(d)' \subseteq RunningThreads(d)
  <2>1. /\ \A u \in Threads : u # t => thread'[u] = thread[u]
        /\ thread'[t].dir = thread[t].dir
        /\ thread[t].where \notin {"none", "ended", "joined"}
    BY <1>3, ThreadEffects
  <2> QED
    BY <2>1 DEF RunningThreads
<1>4. CASE ServerHandler \/ \E e \in Dir : ServerThread(e)
  BY <1>4, ServerLeavesClient DEF RunningThreads, threadVars
<1> QED
  BY <1>1, <1>2, <1>3, <1>4, SystemSteps

(* The reader raises a flag for the message it treats.                     *)
LEMMA ClientFlags ==
  ASSUME TypeOK, [SystemNext]_systemVars, NEW d \in Dir, active'[d]
  PROVE  active[d] \/ (at["reader"] = "flag" /\ DirectionOf(message.kind) = d)
<1> USE DEF ftpVars, tcpVars
<1>0. active \in [Dir -> BOOLEAN]
  BY DEF TypeOK
<1>1. CASE UserTypes \/ Aside \/ Reads \/ ClientOnly(Spawn)
  BY <1>1 DEF UserTypes, Type, Aside, Reads, Read, ClientOnly, Spawn
<1>2. CASE Joins
  BY <1>0, <1>2 DEF Joins, ClientOnly, JoinReturns, CleanFtp
<1>3. CASE ClientOnly(Flag)
  BY <1>0, <1>3 DEF ClientOnly, Flag
<1>4. ASSUME NEW t \in Threads, ClientThread(t) PROVE active[d]
  <2>1. CASE ClientOnly(ConnectReuse(t) \/ OpenFile(t)) \/ Connects(t) \/ IsRefused(t)
    BY <2>1 DEF ClientOnly, ConnectReuse, OpenFile, Connects, ConnectOpens, IsRefused,
       ConnectRefused
  <2>2. CASE ClientSends(t) \/ ClientReceives(t) \/ ClientCancelled(t)
    BY <2>2 DEF ClientSends, ClientReceives, ClientCancelled, TransferEnds,
       TransferFails, Cancelled
  <2>3. CASE ClientOnly(Finish(t))
    BY <1>0, <2>3 DEF ClientOnly, Finish, CleanFtp
  <2> QED
    BY <1>4, <2>1, <2>2, <2>3 DEF ClientThread, ClientOnly
<1>5. CASE ServerHandler \/ \E e \in Dir : ServerThread(e)
  BY <1>5, ServerLeavesClient
<1> QED
  BY <1>1, <1>2, <1>3, <1>4, <1>5, SystemSteps

(* There is always a direction in which nothing happens: the user leaves   *)
(* one alone, and nothing but a transfer that comes sets it to work.       *)
LEMMA OneWayStep ==
  ASSUME Parts, ~careless, ~hasty', OneWay, [SystemNext]_systemVars
  PROVE  OneWay'
<1>0. TypeOK /\ ThreadFacts /\ ComingFacts /\ ServerFacts
  BY PlainTypes, ThreadsInOrder, ComingInOrder, ServerInOrder DEF Parts
<1>1. CASE UserTypes
  <2>1. PICK kind \in Transfers :
          /\ Type([kind |-> kind, file |-> typed + 1], Dealt /\ s_handler = "idle")
          /\ hasty' = (hasty \/ careless' \/ active[Other(DirectionOf(kind))]
                             \/ s_active[DirectionOf(kind)])
          /\ at["main"] = "wait" /\ UNCHANGED serverVars
    BY <1>1 DEF UserTypes, Transfers
  <2> DEFINE d == DirectionOf(kind)
             c == Other(d)
  <2>2. c \in Dir /\ Other(c) = d /\ d \in Dir /\ c # d
    BY DEF DirectionOf, Other, Dir
  <2>3. ~active[c] /\ ~s_active[d] /\ Dealt /\ s_handler = "idle"
    BY <2>1 DEF Type
  <2>4. RunningThreads(c) = {}
    BY <1>0, <2>1, <2>2, <2>3 DEF ThreadFacts
  <2>5. UNCHANGED <<active, thread, inbox, s_active, sent, s_handler, s_leaving, message>>
        /\ command' = [kind |-> kind, file |-> typed + 1]
        /\ at'["reader"] = "read" /\ at'["writer"] = "check"
        /\ ~s_leaving
    BY <1>0, <2>1, <2>3 DEF Type, Goto, TypeOK, ftpVars, threadVars, netVars, serverVars,
       Transfers, Dealt, Parts, Mapped, LeavesLast
  <2>6. Unanswered' = <<>> /\ inbox' = <<>>
    BY <2>3, <2>5 DEF Unanswered, Dealt
  <2>7. ASSUME NEW k \in Transfers, NEW file \in Paths, Coming(k, file)'
        PROVE  DirectionOf(k) # c
    <3>1. k = kind
      BY <2>5, <2>6, <2>7 DEF Coming, Client!Pending, Client!WriterHasOne, Client!Asked,
         Client!ReaderHasOne, Client!Holds
    <3> QED
      BY <2>2, <3>1
  <2>8. Resting(c)'
    <3>1. ~active'[c] /\ ~s_active'[Other(c)] /\ RunningThreads(c)' = {}
      BY <2>2, <2>3, <2>4, <2>5 DEF RunningThreads
    <3> HIDE DEF c
    <3> QED
      BY <2>7, <3>1 DEF Resting
  <2> QED
    BY <2>2, <2>8 DEF OneWay
<1>2. CASE ~UserTypes
  <2>1. PICK c \in Dir : Resting(c)
    BY DEF OneWay
  <2>2. ~active'[c]
    <3>1. ReaderIsBusy => DirectionOf(message.kind) # c
      BY <1>0, <2>1 DEF Resting, ComingFacts, TypeOK, Message, Paths
    <3> QED
      BY <1>0, <2>1, <3>1, ClientFlags DEF Resting, ReaderIsBusy
  <2>3. ~s_active'[Other(c)]
    <3>1. s_handler = "raise" => s_type # Other(c)
      <4>1. s_handler = "raise" => HandlerIsBusy
        BY <1>0 DEF ServerFacts, HandlerIsBusy
      <4>2. KindOf(s_type) \in Transfers /\ s_request \in Paths
            /\ (s_type = Other(c) => DirectionOf(KindOf(s_type)) = c)
        BY <1>0 DEF ServerFacts, S!TypeOK, Paths, KindOf, Transfers, DirectionOf, Other,
           Dir
      <4> QED
        BY <1>0, <2>1, <4>1, <4>2 DEF Resting, ComingFacts
    <3>2. Other(c) \in Dir
      BY DEF Other, Dir
    <3>3. CASE ServerHandler \/ \E d \in Dir : ServerThread(d)
      BY <1>0, <2>1, <3>1, <3>2, <3>3, ServerFlags DEF Resting, ServerFacts
    <3>4. CASE ~(ServerHandler \/ \E d \in Dir : ServerThread(d))
      <4>1. UNCHANGED serverVars
        BY <1>0, <1>2, <3>4, SystemSteps, ThreadEffects
        DEF Aside, Reads, ClientOnly, Joins
      <4> QED
        BY <2>1, <4>1 DEF Resting, serverVars
    <3> QED
      BY <3>3, <3>4
  <2>4. /\ RunningThreads(c)' = {}
        /\ \A kind \in Transfers, file \in Paths :
             Coming(kind, file)' => DirectionOf(kind) # c
    <3>1. \A kind \in Transfers, file \in Paths : Coming(kind, file)' => Coming(kind, file)
      BY <1>2, ComingStep DEF Parts
    <3>2. RunningThreads(c)' = {}
      <4>1. CASE ~ClientOnly(Spawn)
        BY <1>0, <2>1, <4>1, OnlySpawnAdds DEF Resting
      <4>2. CASE ClientOnly(Spawn)
        <5>1. DirectionOf(message.kind) # c
          BY <1>0, <2>1, <4>2 DEF Resting, ComingFacts, TypeOK, Message, Paths,
             ReaderIsBusy, ClientOnly, Spawn
        <5>2. PICK t \in Threads :
                /\ thread[t].where = "none"
                /\ thread' = [thread EXCEPT ![t] =
                     [dir |-> DirectionOf(message.kind), where |-> "connect",
                      want |-> message.file, file |-> Nil]]
          BY <4>2 DEF ClientOnly, Spawn
        <5> QED
          BY <1>0, <2>1, <5>1, <5>2 DEF Resting, RunningThreads, TypeOK
      <4> QED
        BY <4>1, <4>2
    <3> QED
      BY <2>1, <3>1, <3>2 DEF Resting
  <2> QED
    BY <2>1, <2>2, <2>3, <2>4 DEF Resting, OneWay
<1> QED
  BY <1>1, <1>2

(* A thread is for the same transfer from its creation to its end.         *)
LEMMA ThreadsKeepTheirJob ==
  ASSUME TypeOK, [SystemNext]_systemVars, ~ClientOnly(Spawn), NEW t \in Threads
  PROVE  /\ thread'[t].want = thread[t].want /\ thread'[t].dir = thread[t].dir
         /\ thread'[t].where = "none" <=> thread[t].where = "none"
<1>0. thread \in [Threads -> Transfer]
  BY DEF TypeOK
<1>1. CASE UserTypes \/ Aside \/ Reads \/ ClientOnly(Flag)
  BY <1>1 DEF UserTypes, Type, Aside, Reads, Read, ClientOnly, Flag, threadVars
<1>2. CASE Joins
  BY <1>0, <1>2 DEF Joins, ClientOnly, JoinReturns, Transfer
<1>3. ASSUME NEW u \in Threads, ClientThread(u)
      PROVE  /\ thread'[t].want = thread[t].want /\ thread'[t].dir = thread[t].dir
             /\ thread'[t].where = "none" <=> thread[t].where = "none"
  BY <1>3, ThreadEffects
<1>4. CASE ServerHandler \/ \E e \in Dir : ServerThread(e)
  BY <1>4, ServerLeavesClient DEF threadVars
<1> QED
  BY <1>1, <1>2, <1>3, <1>4, SystemSteps

(* Every file is asked for once.                                           *)
LEMMA FilesStep ==
  ASSUME Parts, ~careless, ~hasty', FilesAreNew, [SystemNext]_systemVars
  PROVE  FilesAreNew'
<1>0. TypeOK /\ ComingFacts /\ typed \in Nat /\ Nil \notin Nat
  BY PlainTypes, ComingInOrder, ConstantsAssumption DEF Parts, TypeOK
<1>1. CASE UserTypes
  <2>1. PICK kind \in Transfers :
          /\ Type([kind |-> kind, file |-> typed + 1], Dealt /\ s_handler = "idle")
          /\ ~careless'
    BY <1>1 DEF UserTypes, Transfers
  <2>2. /\ UNCHANGED <<thread, message, sent, inbox, s_handler, s_type, s_request,
                       s_leaving>>
        /\ command' = [kind |-> kind, file |-> typed + 1] /\ typed' = typed + 1
        /\ at'["reader"] = at["reader"] /\ at'["writer"] = "check"
        /\ at["writer"] = "type"
    BY <1>0, <1>1, <2>1 DEF UserTypes, Type, Goto, TypeOK, threadVars, netVars, serverVars,
       Transfers
  <2>3. UNCHANGED Unanswered
    BY <2>2 DEF Unanswered
  <2>4. ASSUME NEW k \in Transfers, NEW file \in Paths, Coming(k, file)'
        PROVE  file = typed' \/ Coming(k, file)
    BY <2>2, <2>3, <2>4 DEF Coming, Client!Pending, Client!WriterHasOne, Client!Asked,
       Client!ReaderHasOne
  <2>5. ASSUME NEW k \in Transfers, NEW file \in Paths PROVE ~Coming(k, file)
    <3>1. /\ at["reader"] = "read" /\ sent = <<>> /\ inbox = <<>> /\ s_handler = "idle"
          /\ at["writer"] = "type"
      BY <2>1 DEF Type, Dealt
    <3>2. Unanswered = <<>>
      BY <3>1 DEF Unanswered
    <3> QED
      BY <3>1, <3>2 DEF Coming, Client!Pending, Client!WriterHasOne, Client!Asked,
         Client!ReaderHasOne, Client!Holds
  <2>6. \A t \in Threads : thread'[t].want \in 0..typed \cup {Nil}
    BY <2>2 DEF FilesAreNew
  <2>7. typed' = typed + 1 /\ typed' \notin 0..typed \cup {Nil}
        /\ 0..typed \subseteq 0..typed'
    BY <1>0, <2>2
  <2> QED
    BY <2>4, <2>5, <2>6, <2>7 DEF FilesAreNew
<1>2. CASE ClientOnly(Spawn)
  <2>1. ~UserTypes /\ UNCHANGED typed /\ message.file = typed
    BY <1>0, <1>2, OnlyTheUserTypes DEF ClientOnly, Spawn, UserTypes, Type, Goto, TypeOK,
       FilesAreNew, ComingFacts, ReaderIsBusy, Message, Paths, userVars
  <2>2. ~\E k \in Transfers, file \in Paths : Coming(k, file)'
    BY <1>2, <2>1, ComingStep DEF Parts
  <2>3. PICK t \in Threads :
          thread' = [thread EXCEPT ![t] =
            [dir |-> DirectionOf(message.kind), where |-> "connect",
             want |-> message.file, file |-> Nil]]
    BY <1>2 DEF ClientOnly, Spawn
  <2>4. \A u \in Threads : thread'[u].want \in {thread[u].want, typed}
    BY <1>0, <2>1, <2>3 DEF TypeOK
  <2>5. typed \in 0..typed
    BY <1>0
  <2> QED
    BY <2>1, <2>2, <2>4, <2>5 DEF FilesAreNew
<1>3. CASE ~UserTypes /\ ~ClientOnly(Spawn)
  <2>1. UNCHANGED typed
    BY <1>0, <1>3, OnlyTheUserTypes
  <2>2. \A t \in Threads : thread'[t].want = thread[t].want
    BY <1>0, <1>3, ThreadsKeepTheirJob
  <2>3. \A k \in Transfers, file \in Paths : Coming(k, file)' => Coming(k, file)
    BY <1>3, ComingStep DEF Parts
  <2> QED
    BY <2>1, <2>2, <2>3 DEF FilesAreNew
<1> QED
  BY <1>1, <1>2, <1>3

-----------------------------------------------------------------------------
(* The client's connection.                                                *)
Runs(t) == thread[t].where \notin {"none", "ended", "joined"}

(* One thread runs at most, none while the reader has a transfer, and one  *)
(* flag is up at most.                                                     *)
LEMMA OneAtWork ==
  ASSUME TypeOK, ThreadFacts, ComingFacts, OneWay
  PROVE  /\ \A d \in Dir : active[d] => ~active[Other(d)]
         /\ \A t, u \in Threads : Runs(t) /\ Runs(u) => t = u
         /\ \A kind \in Transfers, file \in Paths :
              Coming(kind, file) /\ at["writer"] \notin {"check", "join"} =>
                \A t \in Threads : ~Runs(t)
         /\ ReaderIsBusy => \A t \in Threads : ~Runs(t)
         /\ at["reader"] = "flag" => \A d \in Dir : ~active[d]
<1>1. PICK c \in Dir : Resting(c)
  BY DEF OneWay
<1>2. \A d \in Dir : d # c => Other(d) = c /\ \A e \in Dir : e = c \/ e = d
  BY DEF Other, Dir
<1>3. \A t \in Threads : Runs(t) => thread[t].dir \in Dir /\ t \in RunningThreads(thread[t].dir)
  BY DEF TypeOK, Transfer, Runs, RunningThreads
<1>4. \A t \in Threads : Runs(t) => thread[t].dir # c
  BY <1>1, <1>3 DEF Resting
<1>5. \A t, u \in Threads : Runs(t) /\ Runs(u) => t = u
  BY <1>2, <1>3, <1>4 DEF ThreadFacts
<1>6. ASSUME ReaderIsBusy
      PROVE  /\ DirectionOf(message.kind) \in Dir /\ DirectionOf(message.kind) # c
             /\ RunningThreads(DirectionOf(message.kind)) = {}
             /\ active[DirectionOf(message.kind)] => at["reader"] = "spawn"
  <2>1. /\ message.kind \in Transfers /\ message.file \in Paths
        /\ Coming(message.kind, message.file)
    BY <1>6 DEF ComingFacts, TypeOK, Message, Paths
  <2>2. at["writer"] \notin {"check", "join"}
    BY <1>6 DEF ComingFacts, WriterIsBusy
  <2> QED
    BY <1>1, <2>1, <2>2 DEF ComingFacts, Resting, DirectionOf, Dir
<1>7. ReaderIsBusy => \A t \in Threads : ~Runs(t)
  BY <1>2, <1>3, <1>4, <1>6
<1>10. ASSUME NEW kind \in Transfers, NEW file \in Paths, Coming(kind, file),
              at["writer"] \notin {"check", "join"}
       PROVE  \A t \in Threads : ~Runs(t)
  <2>1. /\ DirectionOf(kind) # c /\ DirectionOf(kind) \in Dir
        /\ RunningThreads(DirectionOf(kind)) = {}
    BY <1>1, <1>10 DEF Resting, ComingFacts, DirectionOf, Dir
  <2> QED
    BY <1>2, <1>3, <1>4, <2>1
<1>8. at["reader"] = "flag" => \A d \in Dir : ~active[d]
  BY <1>1, <1>2, <1>6 DEF Resting, ReaderIsBusy
<1>9. \A d \in Dir : active[d] => ~active[Other(d)]
  BY <1>1, <1>2 DEF Resting
<1> QED
  BY <1>5, <1>7, <1>8, <1>9, <1>10

(* ftp_clean of the only direction in use closes everything.               *)
LEMMA CleanClosesAll ==
  ASSUME TypeOK, NEW d \in Dir, active[d], ~active[Other(d)], CleanFtp(d)
  PROVE  /\ ~port_open' /\ ftp_port' = Nil /\ file_transfer_socket' = Nil
         /\ \A e \in Dir : ~active'[e]
<1>1. \A e \in Dir : e = d \/ e = Other(d)
  BY DEF Dir, Other
<1> QED
  BY <1>1 DEF CleanFtp, LastTransfer, TypeOK

LEMMA ConnectionStep ==
  ASSUME Parts, ~careless, OneWay, ClientConnection, ClientPort, DataTypes,
         [SystemNext]_systemVars
  PROVE  ClientConnection' /\ ClientPort'
<1> USE DEF procVars, ftpVars, sockVars, threadVars
<1>0. /\ TypeOK /\ ThreadFacts /\ ComingFacts
      /\ at \in [writer : {"type", "check", "join", "store", "lock", "write", "done"},
             reader : {"read", "flag", "spawn", "unlock", "done"},
             main : {"wait", "stop", "check", "join", "exit", "exited", "undefined"}]
      /\ thread \in [Threads -> Transfer] /\ active \in [Dir -> BOOLEAN]
      /\ file_transfer_socket \in Threads \cup {Nil} /\ Nil \notin Threads
      /\ link \in [Threads -> Ports \cup {Nil}]
      /\ dir \in [writer : Dir, main : Dir]
  BY PlainTypes, ThreadsInOrder, ComingInOrder, ConstantsAssumption
  DEF Parts, TypeOK, Threads, DataTypes
<1>w. /\ \A d \in Dir : active[d] => ~active[Other(d)]
      /\ \A t, u \in Threads : Runs(t) /\ Runs(u) => t = u
      /\ ReaderIsBusy => \A t \in Threads : ~Runs(t)
      /\ at["reader"] = "flag" => \A d \in Dir : ~active[d]
  BY <1>0, OneAtWork
<1>d. \A t \in Threads : thread[t].dir \in Dir
  BY <1>0 DEF Transfer
<1>1. CASE UserTypes \/ Aside
  <2>1. /\ UNCHANGED <<active, sockVars, threadVars, link>>
        /\ at'["reader"] = "spawn" => at["reader"] = "spawn" /\ UNCHANGED message
    BY <1>0, <1>1 DEF UserTypes, Type, Goto, Aside, ReaderStays, ReaderIsBusy, tcpVars
  <2> QED
    BY <2>1 DEF ClientConnection, ClientPort
<1>2. CASE Reads
  <2>1. UNCHANGED <<active, sockVars, threadVars, link>> /\ at'["reader"] # "spawn"
    BY <1>0, <1>2 DEF Reads, Read, Goto, tcpVars
  <2> QED
    BY <2>1 DEF ClientConnection, ClientPort
<1>3. CASE ClientOnly(Flag)
  <2>1. /\ UNCHANGED <<port_open, file_transfer_socket, threadVars, link, message>>
        /\ active' = [active EXCEPT ![DirectionOf(message.kind)] = TRUE]
        /\ at["reader"] = "flag"
    BY <1>3 DEF ClientOnly, Flag, tcpVars
  <2>2. (\A d \in Dir : ~active[d]) /\ \A t \in Threads : ~Runs(t)
    BY <1>w, <2>1 DEF ReaderIsBusy
  <2>3. ~port_open /\ file_transfer_socket = Nil
    BY <1>0, <1>d, <2>2 DEF ClientConnection
  <2>4. \A t \in Threads :
          thread'[t].where \notin {"open", "transfer", "connect", "refused"}
    BY <2>1, <2>2 DEF Runs
  <2>5. active'[DirectionOf(message'.kind)]
    BY <1>0, <2>1 DEF DirectionOf, Dir
  <2> QED
    BY <1>0, <2>1, <2>3, <2>4, <2>5 DEF ClientConnection, ClientPort
<1>4. CASE ClientOnly(Spawn)
  <2>1. PICK t \in Threads :
          /\ thread[t].where = "none"
          /\ thread' = [thread EXCEPT ![t] =
               [dir |-> DirectionOf(message.kind), where |-> "connect",
                want |-> message.file, file |-> Nil]]
    BY <1>4 DEF ClientOnly, Spawn
  <2>2. /\ UNCHANGED <<active, sockVars, link>>
        /\ at["reader"] = "spawn" /\ at'["reader"] = "unlock"
    BY <1>0, <1>4 DEF ClientOnly, Spawn, Goto, tcpVars
  <2>3. ~port_open /\ file_transfer_socket = Nil
        /\ (active[DirectionOf(message.kind)] \/ ftp_port = Nil)
    BY <2>2 DEF ClientConnection, ClientPort
  <2>4. \A u \in Threads : thread'[u] = IF u = t
          THEN [dir |-> DirectionOf(message.kind), where |-> "connect",
                want |-> message.file, file |-> Nil]
          ELSE thread[u]
    BY <1>0, <2>1
  <2> QED
    BY <1>0, <2>2, <2>3, <2>4 DEF ClientConnection, ClientPort
<1>5. CASE Joins
  <2>1. PICK p \in {"writer", "main"} : ClientOnly(JoinReturns(p))
    BY <1>5 DEF Joins
  <2>2. /\ dir[p] \in Dir /\ active[dir[p]] /\ CleanFtp(dir[p])
        /\ UNCHANGED <<thread_id, message, link>>
    BY <1>0, <2>1 DEF ClientOnly, JoinReturns, ThreadFacts, tcpVars
  <2>3. /\ ~port_open' /\ ftp_port' = Nil /\ file_transfer_socket' = Nil
        /\ \A e \in Dir : ~active'[e]
    BY <1>0, <1>w, <2>2, CleanClosesAll
  <2>4. \A t \in Threads : thread'[t].dir \in Dir
    BY <1>0, <1>d, <2>1 DEF ClientOnly, JoinReturns, Transfer
  <2> QED
    BY <1>0, <2>3, <2>4 DEF ClientConnection, ClientPort
<1>6. ASSUME NEW t \in Threads, ClientThread(t)
      PROVE  ClientConnection' /\ ClientPort'
  <2>0. /\ \A u \in Threads : u # t => thread'[u] = thread[u]
        /\ thread'[t].dir = thread[t].dir /\ Runs(t)
        /\ UNCHANGED <<thread_id, message>> /\ at'["reader"] = at["reader"]
    BY <1>0, <1>6, ThreadEffects DEF Runs
  <2>1. CASE IsRefused(t) \/ ClientOnly(OpenFile(t)) \/ ClientSends(t)
             \/ ClientReceives(t) \/ ClientCancelled(t)
    <3>1. /\ UNCHANGED <<active, sockVars, link>>
          /\ \/ thread[t].where = "connect" /\ thread'[t].where = "refused"
             \/ /\ thread[t].where \in {"open", "transfer"}
                /\ thread'[t].where \in {"transfer", "finish", "ended"}
      <4>1. CASE IsRefused(t) \/ ClientOnly(OpenFile(t))
        BY <1>0, <4>1 DEF IsRefused, ClientOnly, ConnectRefused, OpenFile, Move, Transfer,
           tcpVars
      <4>2. CASE ClientSends(t) \/ ClientReceives(t)
        BY <1>0, <4>2 DEF ClientSends, ClientReceives, TransferEnds, TransferFails, Move,
           Transfer
      <4>3. CASE ClientCancelled(t)
        BY <1>0, <4>3 DEF ClientCancelled, Cancelled, Transfer
      <4> QED
        BY <2>1, <4>1, <4>2, <4>3
    <3> QED
      BY <1>0, <2>0, <3>1 DEF ClientConnection, ClientPort
  <2>2. CASE ClientOnly(ConnectReuse(t))
    BY <2>2 DEF ClientOnly, ConnectReuse, ClientPort
  <2>3. CASE Connects(t)
    <3>1. /\ thread[t].where = "connect" /\ thread'[t].where = "open"
          /\ UNCHANGED <<active, ftp_port>> /\ port_open' /\ file_transfer_socket' = t
          /\ ftp_port # Nil /\ link' = [link EXCEPT ![t] = ftp_port]
      BY <1>0, <2>3 DEF Connects, Listening, ConnectOpens, Move, Transfer
    <3>2. active[thread[t].dir] /\ thread_id[thread[t].dir] = t
      BY <1>0, <1>d, <2>0, <3>1 DEF ClientPort, ThreadFacts, RunningThreads, Runs
    <3>3. \A u \in Threads : u # t => ~Runs(u)
      BY <1>w, <2>0
    <3>4. at["reader"] # "spawn"
      BY <1>w, <2>0 DEF ReaderIsBusy
    <3>5. \A u \in Threads : u # t =>
            thread'[u].where \notin {"open", "transfer", "connect", "refused"}
      BY <2>0, <3>3 DEF Runs
    <3> QED
      BY <1>0, <2>0, <3>1, <3>2, <3>4, <3>5 DEF ClientConnection, ClientPort
  <2>4. CASE ClientOnly(Finish(t))
    <3>1. CASE active[thread[t].dir]
      <4>1. CleanFtp(thread[t].dir)
        BY <2>4, <3>1 DEF ClientOnly, Finish
      <4>2. /\ ~port_open' /\ ftp_port' = Nil /\ file_transfer_socket' = Nil
            /\ \A e \in Dir : ~active'[e]
        BY <1>0, <1>d, <1>w, <3>1, <4>1, CleanClosesAll
      <4>3. \A u \in Threads : thread'[u].dir \in Dir
        BY <1>d, <2>0
      <4> QED
        BY <1>0, <4>2, <4>3 DEF ClientConnection, ClientPort
    <3>2. CASE ~active[thread[t].dir]
      <4>1. /\ UNCHANGED <<active, sockVars, link>>
            /\ \/ thread[t].where = "refused" /\ thread'[t].where = "open"
               \/ thread[t].where = "finish" /\ thread'[t].where \in {"finish", "ended"}
        BY <1>0, <2>4, <3>2 DEF ClientOnly, Finish, Move, Transfer, tcpVars
      <4> QED
        BY <1>0, <2>0, <3>2, <4>1 DEF ClientConnection, ClientPort
    <3> QED
      BY <3>1, <3>2
  <2> QED
    BY <1>6, <2>1, <2>2, <2>3, <2>4 DEF ClientThread, ClientOnly
<1>7. CASE ServerHandler \/ \E d \in Dir : ServerThread(d)
  <2>1. UNCHANGED <<active, sockVars, threadVars, at, message>>
    BY <1>7, ServerLeavesClient
  <2>2. \A t \in Threads : link[t] # Nil => link'[t] # Nil
    <3>1. CASE \E d \in Dir : ServerAccepts(d)
      <4>1. PICK c \in Threads : link' = [link EXCEPT ![c] = opened + 1]
        BY <3>1 DEF ServerAccepts
      <4>2. opened + 1 # Nil
        BY ConstantsAssumption DEF DataTypes
      <4> QED
        BY <1>0, <4>1, <4>2
    <3>2. CASE ~\E d \in Dir : ServerAccepts(d)
      <4>1. UNCHANGED link
        BY <1>7, <3>2 DEF ServerHandler, HandlerReads, HandlerLeaves, ServerListens,
           SetupFails, ToClient, ServerOnly, ServerThread, AcceptFails, ServerSends,
           ServerReceives, ServerCancelled, tcpVars
      <4> QED
        BY <4>1
    <3> QED
      BY <3>1, <3>2
  <2> QED
    BY <2>1, <2>2 DEF ClientConnection, ClientPort
<1> QED
  BY <1>0, <1>1, <1>2, <1>3, <1>4, <1>5, <1>6, <1>7, SystemSteps

-----------------------------------------------------------------------------
(* The server's listener.                                                  *)
s_sockets == <<s_active, s_port_open, s_ftp_port, s_ftp_socket, s_file_transfer_socket,
               s_fds, s_serving, link, opened>>

(* The steps of the handler that touch neither a thread nor a socket, but  *)
(* may end in a message which announces nothing ...                        *)
SaysLittle ==
  \/ UNCHANGED inbox
  \/ \E m \in {Say("text"), Say("failed")} : inbox' = Append(inbox, m)
ServerAside ==
  /\ UNCHANGED <<s_sockets, s_thread, wire, mixed>>
  /\ s_handler' \notin {"raise", "spawn", "reply"}
  /\ SaysLittle

(* ... and the steps of a thread that has its connection, or is cancelled. *)
ServerGoesOn(d) ==
  /\ s_thread[d] \in {"accept", "open", "transfer"}
  /\ s_thread[d] = "accept" => s_handler = "join"
  /\ \E step \in {"none", "transfer", "finish"} :
       /\ s_thread' = [s_thread EXCEPT ![d] = step]
       /\ step = "transfer" => s_thread[d] = "open"
  /\ UNCHANGED <<s_sockets, s_handler, s_type, s_request, s_leaving>>
  /\ SaysLittle

LEMMA ServerSteps ==
  ASSUME S!TypeOK, ServerHandler \/ \E d \in Dir : ServerThread(d)
  PROVE  \/ ServerAside \/ ServerOnly(S!CheckCancelsStray) \/ ServerOnly(S!JoinReturns)
         \/ ServerOnly(S!SetupReuse) \/ ServerListens \/ ServerOnly(S!RaiseFlag)
         \/ ServerOnly(S!SpawnThread) \/ ToClient(S!Reply)
         \/ \E d \in Dir : \/ ServerOnly(S!ConnectReuse(d) \/ S!ConnectAccepts(d))
                           \/ ServerOnly(S!Finish(d))
                           \/ ServerAccepts(d) \/ AcceptFails(d) \/ ServerGoesOn(d)
<1> USE DEF S!ftpVars, S!cleanVars, S!sockVars, S!threadVars, S!idVars, S!handlerVars,
            S!jobVars, s_sockets, tcpVars, clientVars, netVars, history, SaysLittle
<1>1. CASE HandlerReads
  BY <1>1 DEF HandlerReads, S!StartCommand, S!AnswerOther, ServerAside
<1>2. CASE HandlerLeaves \/ SetupFails \/ ToClient(S!RefuseFile)
  BY <1>2 DEF HandlerLeaves, ServerOnly, S!Disconnect, SetupFails, S!SetupFails, ToClient,
     S!RefuseFile, S!Refused, S!Say, S!Write, Say, ServerAside
<1>3. CASE ServerOnly(S!CheckFtp \/ S!Prepare)
  BY <1>3 DEF ServerOnly, S!CheckFtp, S!CheckNothingActive, S!CheckCancels, S!AfterCheck,
     S!Prepare, ServerAside
<1>4. ASSUME NEW d \in Dir, ServerThread(d)
      PROVE  \/ ServerOnly(S!ConnectReuse(d) \/ S!ConnectAccepts(d))
             \/ ServerOnly(S!Finish(d)) \/ ServerAccepts(d) \/ AcceptFails(d)
             \/ ServerGoesOn(d)
  <2>1. CASE ServerOnly(S!OpenFile(d)) \/ ServerCancelled(d)
    BY <2>1 DEF ServerOnly, S!OpenFile, S!Goto, ServerCancelled, S!Cancelled,
       S!CancellationPoints, ServerGoesOn
  <2>2. CASE d = "SEND" /\ ServerSends
    BY <2>2 DEF ServerSends, S!TransferEnds, S!Goto, ServerGoesOn
  <2>3. CASE d = "RECV" /\ ServerReceives
    BY <2>3 DEF ServerReceives, S!TransferEnds, S!TransferFails, S!Goto, S!Say, S!Write,
       Say, ServerGoesOn
  <2> QED
    BY <1>4, <2>1, <2>2, <2>3 DEF ServerThread, ServerOnly
<1> QED
  BY <1>1, <1>2, <1>3, <1>4 DEF ServerHandler, ServerOnly, ToClient

(* One flag is up at most, in the direction that the handler works on, and *)
(* none before the handler raises it.                                      *)
LEMMA ServerOneAtWork ==
  ASSUME ComingFacts, ServerFacts, OneWay
  PROVE  /\ \A d \in Dir : s_active[d] => ~s_active[Other(d)]
         /\ HandlerIsBusy => ~s_active[Other(s_type)]
         /\ s_handler \in {"prepare", "setup", "raise"} =>
              ~s_port_open /\ \A d \in Dir : ~s_active[d]
<1>1. PICK c \in Dir : Resting(c)
  BY DEF OneWay
<1>2. \A d \in Dir : d = Other(c) \/ Other(d) = Other(c)
  BY DEF Other, Dir
<1>3. s_type \in Dir /\ s_request \in Paths
  BY DEF ServerFacts, S!TypeOK, S!Dir, Dir, Paths
<1>4. HandlerIsBusy => s_type # Other(c)
  <2>1. KindOf(s_type) \in Transfers /\ (s_type = Other(c) => DirectionOf(KindOf(s_type)) = c)
    BY <1>3 DEF KindOf, Transfers, DirectionOf, Other, Dir
  <2> QED
    BY <1>1, <1>3, <2>1 DEF Resting, ComingFacts
<1>5. HandlerIsBusy => ~s_active[Other(s_type)]
  BY <1>1, <1>2, <1>3, <1>4 DEF Resting
<1>6. s_handler \in {"prepare", "setup", "raise"} => \A d \in Dir : ~s_active[d]
  BY <1>1, <1>2, <1>3, <1>4 DEF Resting, ServerFacts, HandlerIsBusy, Other, Dir
<1> QED
  BY <1>1, <1>2, <1>5, <1>6 DEF Resting, ServerFacts

(* ftp_clean of the only direction in use closes everything.               *)
LEMMA ServerCleansAll ==
  ASSUME S!TypeOK, NEW d \in Dir, s_active[d], ~s_active[Other(d)], S!CleanFtp(d)
  PROVE  /\ ~s_port_open' /\ s_ftp_port' = Nil /\ s_file_transfer_socket' = Nil
         /\ \A e \in Dir : ~s_active'[e]
<1>1. \A e \in Dir : e = d \/ e = Other(d)
  BY DEF Dir, Other
<1> QED
  BY <1>1 DEF S!CleanFtp, S!LastTransfer, S!CloseSockets, S!TypeOK, Other, S!Other, S!Dir,
     Dir

LEMMA ServerPortStep ==
  ASSUME Parts, ~careless, OneWay, ServerPort, Numbered, DataTypes,
         [SystemNext]_systemVars
  PROVE  ServerPort'
<1> USE DEF serverVars, tcpVars, S!ftpVars, S!cleanVars, S!sockVars, S!idVars,
            S!handlerVars, S!jobVars, s_sockets
<1>0. TypeOK /\ ThreadFacts /\ ComingFacts /\ ServerFacts
  BY PlainTypes, ThreadsInOrder, ComingInOrder, ServerInOrder DEF Parts
<1>1. /\ \A d \in Dir : s_active[d] => ~s_active[Other(d)]
      /\ HandlerIsBusy => ~s_active[Other(s_type)]
      /\ s_handler \in {"prepare", "setup", "raise"} =>
           ~s_port_open /\ \A d \in Dir : ~s_active[d]
  BY <1>0, ServerOneAtWork
<1>2. s_handler \in {"raise", "spawn", "reply"} => HandlerIsBusy
  BY <1>0 DEF ServerFacts, HandlerIsBusy
<1>3. /\ s_type \in Dir /\ s_thread \in [Dir -> S!ThreadSteps]
      /\ s_active \in [Dir -> BOOLEAN] /\ s_fds \in [Ports -> S!Descriptors]
      /\ s_serving \in [Dir -> Files \cup {Nil}]
      /\ Nil \notin Ports
      /\ \A d \in Dir : Other(d) \in Dir /\ \A e \in Dir : e = d \/ e = Other(d)
  BY <1>0, ConstantsAssumption DEF ServerFacts, S!TypeOK, S!Dir, Dir, Other
<1>4. CASE ~(ServerHandler \/ \E d \in Dir : ServerThread(d))
  <2>1. UNCHANGED serverVars
    BY <1>0, <1>4, SystemSteps, ThreadEffects
    DEF UserTypes, Aside, Reads, ClientOnly, Joins
  <2>2. s_handler \in {"raise", "spawn", "reply"} => \A t \in Threads : ~Runs(t)
    <3>1. HandlerIsBusy => /\ Coming(KindOf(s_type), s_request)
                           /\ KindOf(s_type) \in Transfers /\ s_request \in Paths
                           /\ at["writer"] \notin {"check", "join"}
      BY <1>0 DEF ComingFacts, WriterIsBusy, KindOf, Transfers, ServerFacts, S!TypeOK,
         Paths
    <3> QED
      BY <1>0, <1>2, <3>1, OneAtWork
  <2>3. UNCHANGED link \/ s_handler \notin {"raise", "spawn", "reply"}
    <3>2. CASE \E t \in Threads : ClientThread(t)
      BY <1>0, <2>2, <3>2, ThreadEffects DEF Runs
    <3>3. CASE ~\E t \in Threads : ClientThread(t)
      BY <1>0, <1>4, <3>3, SystemSteps DEF UserTypes, Aside, Reads, ClientOnly, Joins
    <3> QED
      BY <3>2, <3>3
  <2> QED
    BY <2>1, <2>3 DEF ServerPort
<1>5. CASE ServerHandler \/ \E d \in Dir : ServerThread(d)
  <2>1. CASE ServerAside
    BY <2>1 DEF ServerAside, ServerPort
  <2>2. CASE ServerOnly(S!CheckCancelsStray)
    BY <2>2 DEF ServerOnly, S!CheckCancelsStray, ServerPort, S!Dir, Dir
  <2>3. CASE ServerOnly(S!JoinReturns)
    <3>1. s_active[s_type] /\ ~s_active[Other(s_type)] /\ S!CleanFtp(s_type)
          /\ s_handler' \in {"prepare", "check", "freed"}
      BY <1>0, <1>1, <1>3, <2>3 DEF ServerOnly, S!JoinReturns, S!AfterCheck, ServerFacts
    <3>2. ~s_port_open' /\ \A e \in Dir : ~s_active'[e]
      BY <1>0, <1>3, <3>1, ServerCleansAll DEF ServerFacts
    <3> QED
      BY <3>1, <3>2 DEF ServerPort
  <2>4. CASE ServerOnly(S!SetupReuse)
    BY <1>1, <2>4 DEF ServerOnly, S!SetupReuse
  <2>5. CASE ServerListens
    <3>1. PICK f \in Ports : /\ s_fds' = [s_fds EXCEPT ![f] = "listener"]
                             /\ s_ftp_port' = f /\ s_ftp_socket' = f
      BY <2>5 DEF ServerListens, S!SetupListens
    <3>2. /\ UNCHANGED <<s_active, s_port_open, s_thread, link>> /\ s_handler' = "raise"
          /\ f = opened + 1 /\ ~s_port_open
      BY <2>5, <3>1 DEF ServerListens, S!SetupListens, S!threadVars
    <3>3. \A t \in Threads : link[t] # f
      BY <1>3, <3>2 DEF Numbered, Known, DataTypes
    <3> QED
      BY <1>3, <3>1, <3>2, <3>3 DEF ServerPort
  <2>6. CASE ServerOnly(S!RaiseFlag)
    BY <1>1, <2>6 DEF ServerOnly, S!RaiseFlag, ServerPort, S!threadVars
  <2>7. CASE ServerOnly(S!SpawnThread)
    BY <1>3, <2>7 DEF ServerOnly, S!SpawnThread, ServerPort
  <2>8. CASE ToClient(S!Reply)
    BY <2>8 DEF ToClient, S!Reply, ServerPort, S!threadVars
  <2>9. ASSUME NEW d \in Dir, \/ ServerOnly(S!ConnectReuse(d) \/ S!ConnectAccepts(d))
                              \/ ServerOnly(S!Finish(d))
                              \/ ServerAccepts(d) \/ AcceptFails(d) \/ ServerGoesOn(d)
        PROVE  ServerPort'
    <3>1. CASE ServerOnly(S!ConnectReuse(d))
      BY <3>1 DEF ServerOnly, S!ConnectReuse, ServerPort
    <3>2. CASE ServerOnly(S!ConnectAccepts(d))
      BY <1>3, <3>2 DEF ServerOnly, S!ConnectAccepts, S!Goto, ServerPort
    <3>3. CASE ServerOnly(S!Finish(d))
      <4>1. /\ s_thread[d] = "finish" /\ s_active[d] /\ ~s_active[Other(d)]
            /\ S!CleanFtp(d) /\ UNCHANGED s_handler
        BY <1>1, <3>3 DEF ServerOnly, S!Finish
      <4>2. ~s_port_open' /\ \A e \in Dir : ~s_active'[e]
        BY <1>0, <4>1, ServerCleansAll DEF ServerFacts
      <4>3. s_handler \notin {"raise", "spawn", "reply"}
        <5>1. HandlerIsBusy => d = s_type
          BY <1>1, <1>3, <4>1
        <5> QED
          BY <1>0, <1>2, <4>1, <5>1 DEF ServerFacts, ServerPort
      <4> QED
        BY <4>1, <4>2, <4>3 DEF ServerPort
    <3>4. CASE ServerAccepts(d)
      <4>1. PICK c \in Threads : link[c] # Nil /\ link[c] = s_ftp_socket
                                 /\ link' = [link EXCEPT ![c] = opened']
        BY <3>4 DEF ServerAccepts
      <4>2. PICK f \in Ports : s_fds[f] = "free" /\ s_fds' = [s_fds EXCEPT ![f] = "data"]
        BY <3>4 DEF ServerAccepts, S!Accept
      <4>3. /\ UNCHANGED <<s_active, s_ftp_port, s_ftp_socket, s_handler>>
            /\ s_thread[d] = "accept" /\ s_thread' = [s_thread EXCEPT ![d] = "open"]
        BY <3>4 DEF ServerAccepts, S!Accept, S!Goto
      <4>4. s_handler \notin {"raise", "spawn", "reply"}
        BY <4>1 DEF ServerPort
      <4>5. s_active[d] /\ s_thread[Other(d)] = "none"
        BY <1>0, <1>1, <1>3, <4>3 DEF ServerFacts
      <4>6. \A e \in Dir : s_thread'[e] # "connect"
        BY <1>3, <4>3, <4>5
      <4>7. s_ftp_socket # f
        BY <4>2, <4>5 DEF ServerPort
      <4>8. s_ftp_socket \in Ports \cup {Nil}
        BY <1>0 DEF ServerFacts, S!TypeOK
      <4> QED
        BY <1>3, <4>2, <4>3, <4>4, <4>6, <4>7, <4>8 DEF ServerPort
    <3>5. CASE AcceptFails(d)
      BY <1>0, <3>5 DEF AcceptFails, ServerOnly, S!AcceptFails, Listening, ServerPort,
         ServerFacts
    <3>6. CASE ServerGoesOn(d)
      <4>1. /\ UNCHANGED <<s_active, s_port_open, s_ftp_port, s_ftp_socket, s_fds, link>>
            /\ UNCHANGED <<s_serving, s_handler, s_type, s_request>>
            /\ s_thread[d] \in {"accept", "open", "transfer"}
            /\ s_thread[d] = "accept" => s_handler = "join"
            /\ \E step \in {"none", "transfer", "finish"} :
                 s_thread' = [s_thread EXCEPT ![d] = step]
        BY <3>6 DEF ServerGoesOn
      <4>2. \A e \in Dir : s_thread'[e] = "connect" => s_thread[e] = "connect"
        BY <1>3, <4>1
      <4>3. s_handler = "reply" => UNCHANGED s_thread[s_type]
        BY <1>3, <4>1 DEF ServerPort
      <4> QED
        BY <4>1, <4>2, <4>3 DEF ServerPort
    <3> QED
      BY <2>9, <3>1, <3>2, <3>3, <3>4, <3>5, <3>6 DEF ServerOnly
  <2> QED
    BY <1>0, <1>5, <2>1, <2>2, <2>3, <2>4, <2>5, <2>6, <2>7, <2>8, <2>9, ServerSteps
    DEF ServerFacts
<1> QED
  BY <1>4, <1>5

(* What the steps of the client do to the ports that it knows.             *)
LEMMA ClientPorts ==
  ASSUME TypeOK, [SystemNext]_systemVars,
         ~(ServerHandler \/ \E d \in Dir : ServerThread(d))
  PROVE  /\ UNCHANGED <<serverVars, opened>>
         /\ ClientOnly(Flag) \/ ftp_port' \in {ftp_port, Nil}
         /\ UNCHANGED inbox \/ Reads
         /\ UNCHANGED link \/ \E t \in Threads : Connects(t)
         /\ message' \in {message, Say("text")} \/ Reads
<1> USE DEF procVars, ftpVars, sockVars, threadVars, netVars, tcpVars
<1>1. CASE UserTypes \/ Aside \/ Reads \/ ClientOnly(Flag) \/ ClientOnly(Spawn)
  BY <1>1 DEF UserTypes, Type, Aside, Reads, Read, ClientOnly, Flag, Spawn
<1>2. CASE Joins
  BY <1>2 DEF Joins, ClientOnly, JoinReturns, CleanFtp
<1>3. ASSUME NEW t \in Threads, ClientThread(t)
      PROVE  /\ UNCHANGED <<serverVars, opened, inbox, message>>
             /\ ftp_port' \in {ftp_port, Nil}
             /\ UNCHANGED link \/ Connects(t)
  <2>1. UNCHANGED <<serverVars, opened, inbox, message>>
    BY <1>3, ThreadEffects
  <2>2. CASE ClientOnly(ConnectReuse(t) \/ OpenFile(t)) \/ Connects(t) \/ IsRefused(t)
    BY <2>1, <2>2 DEF ClientOnly, ConnectReuse, OpenFile, Connects, ConnectOpens,
       IsRefused, ConnectRefused
  <2>3. CASE ClientSends(t) \/ ClientReceives(t) \/ ClientCancelled(t)
    BY <2>1, <2>3 DEF ClientSends, ClientReceives, ClientCancelled, TransferEnds,
       TransferFails, Cancelled
  <2>4. CASE ClientOnly(Finish(t))
    BY <2>1, <2>4 DEF ClientOnly, Finish, CleanFtp
  <2> QED
    BY <1>3, <2>2, <2>3, <2>4 DEF ClientThread, ClientOnly
<1> QED
  BY <1>1, <1>2, <1>3, SystemSteps

(* The messages that are left when some have been read, and with one more. *)
LEMMA InboxAfterRead ==
  ASSUME inbox \in Seq(Message), Reads
  PROVE  /\ 1 \in 1..Len(inbox) /\ message' = inbox[1]
         /\ \A i \in 1..Len(inbox') :
              \E j \in 2..Len(inbox) : inbox'[i] = inbox[j]
<1>1. PICK k \in 1..Len(inbox) : Read(k)
  BY DEF Reads
<1>2. /\ message' = inbox[1] /\ inbox' = SubSeq(inbox, k + 1, Len(inbox))
      /\ Len(inbox) \in Nat
  BY <1>1 DEF Read
<1>3. Len(inbox') = Len(inbox) - k /\ \A i \in 1..Len(inbox') : inbox'[i] = inbox[i + k]
  BY <1>2
<1>4. \A i \in 1..Len(inbox') : i + k \in 2..Len(inbox)
  BY <1>2, <1>3
<1>5. 1 \in 1..Len(inbox)
  BY <1>2
<1> QED
  BY <1>2, <1>3, <1>4, <1>5

LEMMA InboxAfterWrite ==
  ASSUME inbox \in Seq(Message), NEW m, inbox' = Append(inbox, m)
  PROVE  /\ Len(inbox') = Len(inbox) + 1 /\ Len(inbox) \in Nat
         /\ \A i \in 1..Len(inbox') :
              \/ inbox'[i] = m /\ i = Len(inbox')
              \/ i \in 1..Len(inbox) /\ inbox'[i] = inbox[i]
OBVIOUS

LEMMA NumberedStep ==
  ASSUME Parts, Numbered, DataTypes, [SystemNext]_systemVars
  PROVE  Numbered'
<1> USE DEF serverVars, tcpVars, S!ftpVars, S!cleanVars, S!sockVars, S!idVars,
            S!handlerVars, S!jobVars, s_sockets, procVars, ftpVars, sockVars
<1>0. /\ TypeOK /\ ServerFacts /\ inbox \in Seq(Message) /\ opened \in Nat
      /\ link \in [Threads -> Ports \cup {Nil}] /\ Say("text").port = Nil
      /\ Say("failed").port = Nil /\ Nil \in Known
      /\ s_type \in Dir
      /\ \A d \in Dir : Other(d) \in Dir /\ \A e \in Dir : e = d \/ e = Other(d)
  BY PlainTypes, ServerInOrder
  DEF Parts, TypeOK, DataTypes, Say, Known, ServerFacts, S!TypeOK, S!Dir, Dir, Other
<1>1. CASE ~(ServerHandler \/ \E d \in Dir : ServerThread(d))
  <2>1. /\ UNCHANGED <<serverVars, opened>>
        /\ ClientOnly(Flag) \/ ftp_port' \in {ftp_port, Nil}
        /\ UNCHANGED inbox \/ Reads
        /\ UNCHANGED link \/ \E t \in Threads : Connects(t)
        /\ message' \in {message, Say("text")} \/ Reads
    BY <1>0, <1>1, ClientPorts
  <2>2. Known' = Known
    BY <2>1 DEF Known
  <2>3. ftp_port' \in Known
    BY <1>0, <2>1 DEF Numbered, ClientOnly, Flag
  <2>4. /\ \A i \in 1..Len(inbox') : inbox'[i].port \in Known
        /\ message'.port \in Known
    <3>1. CASE Reads
      BY <1>0, <3>1, InboxAfterRead DEF Numbered
    <3>2. CASE ~Reads
      BY <1>0, <2>1, <3>2 DEF Numbered
    <3> QED
      BY <3>1, <3>2
  <2>5. \A t \in Threads : link'[t] \in Known
    BY <1>0, <2>1 DEF Numbered, Connects
  <2> QED
    BY <2>1, <2>2, <2>3, <2>4, <2>5 DEF Numbered
<1>2. CASE ServerHandler \/ \E d \in Dir : ServerThread(d)
  <2>0. UNCHANGED <<ftp_port, message>>
    BY <1>2, ServerLeavesClient
  <2>1. /\ opened' \in {opened, opened + 1} /\ Known \subseteq Known'
        /\ opened + 1 = opened' => opened' \in Known'
    <3>1. opened' \in {opened, opened + 1}
      BY <1>2 DEF ServerHandler, HandlerReads, HandlerLeaves, ServerListens,
         SetupFails, ToClient, ServerOnly, ServerThread, AcceptFails, ServerSends,
         ServerReceives, ServerCancelled, ServerAccepts
    <3> QED
      BY <1>0, <3>1 DEF Known
  <2>2. /\ {s_ftp_socket, s_ftp_port, s_file_transfer_socket}' \subseteq Known'
        /\ \A t \in Threads : link'[t] \in Known'
        /\ \/ SaysLittle
           \/ \E m : inbox' = Append(inbox, m) /\ m.port = s_ftp_port
    <3>1. CASE ServerAside
      BY <2>1, <3>1 DEF ServerAside, Numbered
    <3>2. CASE \/ ServerOnly(S!CheckCancelsStray) \/ ServerOnly(S!SetupReuse)
               \/ ServerOnly(S!RaiseFlag) \/ ServerOnly(S!SpawnThread)
      BY <2>1, <3>2 DEF ServerOnly, S!CheckCancelsStray, S!SetupReuse, S!RaiseFlag,
         S!SpawnThread, Numbered, SaysLittle
    <3>3. CASE ServerOnly(S!JoinReturns) \/ \E d \in Dir : ServerOnly(S!Finish(d))
      BY <1>0, <2>1, <3>3 DEF ServerOnly, S!JoinReturns, S!Finish, S!CleanFtp,
         S!CloseSockets, Numbered, SaysLittle, Known
    <3>4. CASE ServerListens
      BY <2>1, <3>4 DEF ServerListens, S!SetupListens, Numbered, SaysLittle
    <3>5. CASE ToClient(S!Reply)
      BY <2>1, <3>5 DEF ToClient, S!Reply, S!Write, Numbered
    <3>6. ASSUME NEW d \in Dir, \/ ServerOnly(S!ConnectReuse(d) \/ S!ConnectAccepts(d))
                                \/ AcceptFails(d) \/ ServerGoesOn(d)
          PROVE  UNCHANGED s_sockets /\ SaysLittle
      BY <3>6 DEF ServerOnly, S!ConnectReuse, S!ConnectAccepts, AcceptFails,
         S!AcceptFails, ServerGoesOn, SaysLittle
    <3>7. ASSUME NEW d \in Dir, ServerAccepts(d)
          PROVE  /\ UNCHANGED <<s_ftp_socket, s_ftp_port, inbox>>
                 /\ s_file_transfer_socket' = opened' /\ opened' = opened + 1
                 /\ \E c \in Threads : link' = [link EXCEPT ![c] = opened']
      BY <3>7 DEF ServerAccepts, S!Accept
    <3>8. CASE \E d \in Dir : ServerAccepts(d)
      BY <1>0, <2>1, <3>7, <3>8 DEF Numbered, SaysLittle
    <3>9. CASE UNCHANGED s_sockets /\ SaysLittle
      BY <2>1, <3>9 DEF Numbered
    <3> QED
      BY <1>0, <1>2, <3>1, <3>2, <3>3, <3>4, <3>5, <3>6, <3>8, <3>9, ServerSteps
      DEF ServerFacts
  <2>3. \A i \in 1..Len(inbox') : inbox'[i].port \in Known'
    <3>1. CASE UNCHANGED inbox
      BY <2>1, <3>1 DEF Numbered
    <3>2. ASSUME NEW m, inbox' = Append(inbox, m), m.port \in Known'
          PROVE  \A i \in 1..Len(inbox') : inbox'[i].port \in Known'
      BY <1>0, <2>1, <3>2, InboxAfterWrite DEF Numbered
    <3>3. Nil \in Known' /\ s_ftp_port \in Known'
      BY <1>0, <2>1 DEF Numbered
    <3> QED
      BY <1>0, <2>2, <3>1, <3>2, <3>3 DEF SaysLittle
  <2> QED
    BY <2>0, <2>1, <2>2, <2>3 DEF Numbered
<1> QED
  BY <1>1, <1>2

-----------------------------------------------------------------------------
(* The port of a request, from the reply to the connection.  What has been *)
(* announced stays so until the client connects; nothing is while the      *)
(* handler works on a request, and a thread that runs is alone.            *)
LEMMA AnnouncedAlone ==
  ASSUME TypeOK, ThreadFacts, ComingFacts, ServerFacts, OneWay, NEW p, NEW file, NEW d,
         Announced(p, file, d)
  PROVE  /\ ~HandlerIsBusy
         /\ \A t \in Threads : Runs(t) =>
              /\ thread[t].where = "connect" /\ thread[t].want = file
              /\ thread[t].dir = d /\ p = ftp_port
<1>1. /\ \A t, u \in Threads : Runs(t) /\ Runs(u) => t = u
      /\ ReaderIsBusy => \A t \in Threads : ~Runs(t)
  BY OneAtWork
<1>2. ASSUME NEW kind \in Transfers, NEW f \in Paths, Coming(kind, f), ~WriterIsBusy
      PROVE  \A t \in Threads : ~Runs(t)
  BY <1>2, OneAtWork DEF WriterIsBusy
<1>3. CASE \E i \in 1..Len(inbox) : inbox[i].kind \in Transfers
  <2>1. PICK i \in 1..Len(inbox) : inbox[i].kind \in Transfers
    BY <1>3
  <2>2. inbox[i].file \in Paths
    <3>1. inbox \in Seq(Message)
      BY DEF TypeOK
    <3>2. inbox[i] \in Message
      BY <2>1, <3>1
    <3> QED
      BY <3>2 DEF Message, Paths
  <2>3. Coming(inbox[i].kind, inbox[i].file) /\ ~WriterIsBusy /\ ~HandlerIsBusy
    BY <2>1 DEF ComingFacts
  <2> QED
    BY <1>2, <2>1, <2>2, <2>3
<1>4. CASE ReaderIsBusy
  BY <1>1, <1>4 DEF ComingFacts
<1>5. CASE \E t \in Threads : /\ thread[t].where = "connect" /\ p = ftp_port
                              /\ thread[t].want = file /\ thread[t].dir = d
  <2>1. PICK t \in Threads : /\ thread[t].where = "connect" /\ p = ftp_port
                             /\ thread[t].want = file /\ thread[t].dir = d
    BY <1>5
  <2>2. Runs(t)
    BY <2>1 DEF Runs
  <2>3. KindOf(s_type) \in Transfers /\ s_request \in Paths
    BY DEF KindOf, Transfers, ServerFacts, S!TypeOK, Paths
  <2>4. ~HandlerIsBusy
    BY <1>2, <2>2, <2>3 DEF ComingFacts
  <2> QED
    BY <1>1, <2>1, <2>2, <2>4
<1> QED
  BY <1>3, <1>4, <1>5 DEF Announced, ReaderIsBusy

LEMMA AnnouncedStays ==
  ASSUME Parts, ~careless, OneWay, ClientConnection, DataTypes,
         [SystemNext]_systemVars, ~(ServerHandler \/ \E d \in Dir : ServerThread(d)),
         NEW p \in Ports, NEW file \in Paths, NEW d \in Dir, Announced(p, file, d)'
  PROVE  Announced(p, file, d)
<1> USE DEF procVars, ftpVars, sockVars, threadVars, netVars
<1>0. /\ TypeOK /\ ThreadFacts /\ ComingFacts
      /\ at \in [writer : {"type", "check", "join", "store", "lock", "write", "done"},
             reader : {"read", "flag", "spawn", "unlock", "done"},
             main : {"wait", "stop", "check", "join", "exit", "exited", "undefined"}]
      /\ thread \in [Threads -> Transfer] /\ inbox \in Seq(Message) /\ Nil \notin Ports
      /\ dir \in [writer : Dir, main : Dir]
  BY PlainTypes, ThreadsInOrder, ComingInOrder, ConstantsAssumption DEF Parts, TypeOK
<1>w. /\ \A e \in Dir : active[e] => ~active[Other(e)]
      /\ ReaderIsBusy => \A t \in Threads : ~Runs(t)
      /\ at["reader"] = "flag" => \A e \in Dir : ~active[e]
  BY <1>0, OneAtWork
<1>1. CASE UserTypes \/ Aside
  <2>1. /\ UNCHANGED <<ftp_port, thread, inbox>>
        /\ ReaderIsBusy' => at'["reader"] = at["reader"] /\ UNCHANGED message
    BY <1>0, <1>1 DEF UserTypes, Type, Goto, Aside, ReaderStays
  <2> QED
    BY <2>1 DEF Announced, ReaderIsBusy
<1>2. CASE Reads
  <2>1. /\ UNCHANGED <<ftp_port, thread>> /\ 1 \in 1..Len(inbox) /\ message' = inbox[1]
        /\ at'["reader"] \in {"flag", "unlock"}
        /\ at'["reader"] = "flag" => inbox[1].kind \in Transfers
        /\ \A i \in 1..Len(inbox') : \E j \in 1..Len(inbox) : inbox'[i] = inbox[j]
    BY <1>0, <1>2, InboxAfterRead DEF Reads, Read, Goto, Transfers
  <2> QED
    BY <2>1 DEF Announced
<1>3. CASE ClientOnly(Flag)
  <2>1. UNCHANGED <<thread, inbox, message>> /\ at["reader"] = "flag"
        /\ at'["reader"] = "spawn"
        /\ ftp_port' = IF port_open THEN ftp_port ELSE message.port
    BY <1>0, <1>3 DEF ClientOnly, Flag, Goto
  <2>2. (\A e \in Dir : ~active[e]) /\ \A t \in Threads : ~Runs(t)
    BY <1>w, <2>1 DEF ReaderIsBusy
  <2>3. ~port_open
    BY <1>0, <2>2 DEF ClientConnection, TypeOK, Transfer
  <2>4. \A t \in Threads : thread'[t].where # "connect"
    BY <2>1, <2>2 DEF Runs
  <2> QED
    BY <2>1, <2>3, <2>4 DEF Announced
<1>4. CASE ClientOnly(Spawn)
  <2>1. PICK t \in Threads :
          thread' = [thread EXCEPT ![t] =
            [dir |-> DirectionOf(message.kind), where |-> "connect",
             want |-> message.file, file |-> Nil]]
    BY <1>4 DEF ClientOnly, Spawn
  <2>2. /\ UNCHANGED <<ftp_port, inbox, message>>
        /\ at["reader"] = "spawn" /\ at'["reader"] = "unlock"
    BY <1>0, <1>4 DEF ClientOnly, Spawn, Goto
  <2>3. \A u \in Threads : thread'[u] = IF u = t
          THEN [dir |-> DirectionOf(message.kind), where |-> "connect",
                want |-> message.file, file |-> Nil]
          ELSE thread[u]
    BY <1>0, <2>1
  <2> QED
    BY <2>2, <2>3 DEF Announced
<1>5. CASE Joins
  <2>1. PICK q \in {"writer", "main"} : ClientOnly(JoinReturns(q))
    BY <1>5 DEF Joins
  <2>2. /\ dir[q] \in Dir /\ active[dir[q]] /\ CleanFtp(dir[q])
        /\ UNCHANGED <<message, inbox>> /\ at'["reader"] = at["reader"]
    BY <1>0, <2>1 DEF ClientOnly, JoinReturns, AfterCheck, Goto, ThreadFacts
  <2>3. ftp_port' = Nil
    BY <1>0, <1>w, <2>2, CleanClosesAll
  <2> QED
    BY <1>0, <2>2, <2>3 DEF Announced
<1>6. ASSUME NEW t \in Threads, ClientThread(t)
      PROVE  Announced(p, file, d)
  <2>1. /\ \A u \in Threads : u # t => thread'[u] = thread[u]
        /\ UNCHANGED <<message, inbox>> /\ at'["reader"] = at["reader"]
    BY <1>0, <1>6, ThreadEffects
  <2>2. thread'[t].where # "connect"
    <3>1. CASE ClientOnly(ConnectReuse(t) \/ OpenFile(t)) \/ Connects(t) \/ IsRefused(t)
      BY <1>0, <3>1 DEF ClientOnly, ConnectReuse, OpenFile, Connects, ConnectOpens,
         IsRefused, ConnectRefused, Move, Transfer
    <3>2. CASE ClientSends(t)
      BY <1>0, <3>2 DEF ClientSends, TransferEnds, Move, Transfer
    <3>3. CASE ClientReceives(t)
      BY <1>0, <3>3 DEF ClientReceives, TransferEnds, TransferFails, Move, Transfer
    <3>4. CASE ClientCancelled(t)
      BY <1>0, <3>4 DEF ClientCancelled, Cancelled, Transfer
    <3>5. CASE ClientOnly(Finish(t))
      BY <1>0, <3>5 DEF ClientOnly, Finish, Move, Transfer
    <3> QED
      BY <1>6, <3>1, <3>2, <3>3, <3>4, <3>5 DEF ClientThread, ClientOnly
  <2>3. ftp_port' \in {ftp_port, Nil}
    <3>1. ~ClientOnly(Flag)
      BY <1>0, <2>1 DEF ClientOnly, Flag, Goto
    <3> QED
      BY <1>0, <3>1, ClientPorts
  <2> QED
    BY <1>0, <2>1, <2>2, <2>3 DEF Announced
<1> QED
  BY <1>0, <1>1, <1>2, <1>3, <1>4, <1>5, <1>6, SystemSteps

(* The client's side of it: only a thread that connects turns a port that  *)
(* has been announced into a connection.                                   *)
LEMMA RequestsKept ==
  ASSUME Parts, ~careless, OneWay, ClientConnection, DataTypes, PortsAreForRequests,
         LinksAreForRequests, WiresCarryOneFile, [SystemNext]_systemVars,
         ~(ServerHandler \/ \E d \in Dir : ServerThread(d))
  PROVE  PortsAreForRequests' /\ LinksAreForRequests'
<1>0. /\ TypeOK /\ ThreadFacts /\ ComingFacts /\ ServerFacts
      /\ thread \in [Threads -> Transfer] /\ link \in [Threads -> Ports \cup {Nil}]
      /\ Nil \notin Ports
  BY PlainTypes, ThreadsInOrder, ComingInOrder, ServerInOrder, ConstantsAssumption
  DEF Parts, TypeOK, DataTypes
<1>1. UNCHANGED serverVars /\ (UNCHANGED link \/ \E t \in Threads : Connects(t))
  BY <1>0, ClientPorts
<1>2. \A p, file, d : IsFor(p, file, d)' = IsFor(p, file, d)
  BY <1>1 DEF IsFor, Socket, serverVars
<1>3. \A p \in Ports, file \in Paths, d \in Dir :
        Announced(p, file, d)' => Announced(p, file, d)
  BY AnnouncedStays
<1>4. \A t \in Threads : link'[t] # Nil /\ link'[t] = link[t] =>
        thread'[t].want = thread[t].want /\ thread'[t].dir = thread[t].dir
  <2>1. CASE ~ClientOnly(Spawn)
    BY <1>0, <2>1, ThreadsKeepTheirJob
  <2>2. CASE ClientOnly(Spawn)
    <3>1. PICK t \in Threads :
            /\ thread[t].where = "none"
            /\ thread' = [thread EXCEPT ![t] =
                 [dir |-> DirectionOf(message.kind), where |-> "connect",
                  want |-> message.file, file |-> Nil]]
      BY <2>2 DEF ClientOnly, Spawn
    <3>2. link[t] = Nil
      BY <3>1 DEF WiresCarryOneFile
    <3> QED
      BY <1>0, <3>1, <3>2
  <2> QED
    BY <2>1, <2>2
<1>5. CASE UNCHANGED link
  <2>1. PortsAreForRequests'
    BY <1>2, <1>3, <1>5 DEF PortsAreForRequests
  <2>2. LinksAreForRequests'
    BY <1>2, <1>4, <1>5 DEF LinksAreForRequests
  <2> QED
    BY <2>1, <2>2
<1>6. ASSUME NEW t \in Threads, Connects(t)
      PROVE  PortsAreForRequests' /\ LinksAreForRequests'
  <2>1. /\ thread[t].where = "connect" /\ ftp_port # Nil /\ ftp_port \in Ports
        /\ link' = [link EXCEPT ![t] = ftp_port]
        /\ thread'[t].where = "open" /\ \A u \in Threads : u # t => thread'[u] = thread[u]
        /\ thread'[t].want = thread[t].want /\ thread'[t].dir = thread[t].dir
        /\ UNCHANGED <<at, message, inbox, ftp_port>>
    BY <1>0, <1>6 DEF Connects, ConnectOpens, Listening, Move, Transfer, TypeOK, procVars,
       netVars
  <2>2. /\ thread[t].want \in Paths /\ thread[t].dir \in Dir
        /\ Announced(ftp_port, thread[t].want, thread[t].dir)
    BY <1>0, <2>1 DEF Announced, Transfer, Paths
  <2>3. /\ IsFor(ftp_port, thread[t].want, thread[t].dir)
        /\ \A u \in Threads : link[u] # ftp_port
    BY <2>1, <2>2 DEF PortsAreForRequests
  <2>4. ASSUME NEW p \in Ports, NEW file \in Paths, NEW d \in Dir, Announced(p, file, d)'
        PROVE  FALSE
    <3>1. Announced(p, file, d)
      BY <1>3, <2>4
    <3>2. ~ReaderIsBusy /\ \A i \in 1..Len(inbox) : inbox[i].kind \notin Transfers
      <4>1. Runs(t)
        BY <2>1 DEF Runs
      <4>2. ~ReaderIsBusy
        BY <1>0, <4>1, OneAtWork
      <4>3. ASSUME NEW i \in 1..Len(inbox), inbox[i].kind \in Transfers PROVE FALSE
        <5>1. inbox \in Seq(Message)
          BY <1>0 DEF TypeOK
        <5>2. inbox[i] \in Message
          BY <5>1
        <5>3. inbox[i].file \in Paths
          BY <5>2 DEF Message, Paths
        <5>4. Coming(inbox[i].kind, inbox[i].file) /\ ~WriterIsBusy
          BY <1>0, <4>3 DEF ComingFacts
        <5> QED
          BY <1>0, <4>1, <4>3, <5>3, <5>4, OneAtWork DEF WriterIsBusy
      <4> QED
        BY <4>2, <4>3
    <3>3. PICK u \in Threads : thread'[u].where = "connect"
      BY <2>1, <2>4, <3>2 DEF Announced, ReaderIsBusy
    <3>4. u # t /\ Runs(u) /\ Runs(t)
      BY <2>1, <3>3 DEF Runs
    <3> QED
      BY <1>0, <3>4, OneAtWork
  <2>5. PortsAreForRequests'
    BY <2>4 DEF PortsAreForRequests
  <2>6. ASSUME NEW u \in Threads, link'[u] # Nil
        PROVE  IsFor(link'[u], thread'[u].want, thread'[u].dir)
    BY <1>0, <2>1, <2>3, <2>6 DEF LinksAreForRequests
  <2>7. ASSUME NEW u \in Threads, NEW v \in Threads, link'[u] # Nil, link'[u] = link'[v]
        PROVE  u = v
    BY <1>0, <2>1, <2>3, <2>7 DEF LinksAreForRequests
  <2>8. LinksAreForRequests'
    BY <1>2, <2>6, <2>7 DEF LinksAreForRequests
  <2> QED
    BY <2>5, <2>8
<1> QED
  BY <1>1, <1>5, <1>6

(* The server's side: a listener becomes a connection, for the same        *)
(* request.                                                                *)
LEMMA RequestsServed ==
  ASSUME Parts, ~careless, OneWay, FilesAreNew, ServerPort, Numbered, DataTypes,
         PortsAreForRequests, LinksAreForRequests,
         ServerHandler \/ \E d \in Dir : ServerThread(d)
  PROVE  PortsAreForRequests' /\ LinksAreForRequests'
<1> USE DEF S!ftpVars, S!cleanVars, S!sockVars, S!idVars, S!handlerVars, S!jobVars,
            S!threadVars, s_sockets, tcpVars
<1>0. /\ TypeOK /\ ThreadFacts /\ ComingFacts /\ ServerFacts
      /\ inbox \in Seq(Message) /\ link \in [Threads -> Ports \cup {Nil}]
      /\ Nil \notin Ports /\ opened \in Nat
  BY PlainTypes, ThreadsInOrder, ComingInOrder, ServerInOrder, ConstantsAssumption
  DEF Parts, TypeOK, DataTypes
<1>1. UNCHANGED <<at, message, ftp_port, thread>>
  BY ServerLeavesClient DEF procVars, ftpVars, sockVars, threadVars
<1>2. /\ \A d \in Dir : s_active[d] => ~s_active[Other(d)]
      /\ HandlerIsBusy => ~s_active[Other(s_type)]
      /\ s_handler \in {"prepare", "setup", "raise"} =>
           ~s_port_open /\ \A d \in Dir : ~s_active[d]
  BY <1>0, ServerOneAtWork
<1>3. s_handler \in {"raise", "spawn", "reply"} => HandlerIsBusy
  BY <1>0 DEF ServerFacts, HandlerIsBusy
<1>4. /\ s_type \in Dir /\ s_thread \in [Dir -> S!ThreadSteps] /\ s_request \in Paths
      /\ s_serving \in [Dir -> Files \cup {Nil}]
      /\ \A d \in Dir : Other(d) \in Dir /\ Other(d) # d /\ Other(Other(d)) = d
                        /\ \A e \in Dir : e = d \/ e = Other(d)
      /\ KindOf(s_type) \in Transfers /\ Other(DirectionOf(KindOf(s_type))) = s_type
  BY <1>0
  DEF ServerFacts, S!TypeOK, S!Dir, Dir, Other, KindOf, Transfers, DirectionOf, Paths
<1>5. \A d \in Dir : ~s_active[d] => s_thread[d] = "none"
  BY <1>0 DEF ServerFacts
<1>6. HandlerIsBusy => s_thread[Other(s_type)] = "none"
  BY <1>2, <1>4, <1>5
<1>7. SaysLittle => \A p, file, d : Announced(p, file, d)' => Announced(p, file, d)
  <2>1. Say("text").kind \notin Transfers /\ Say("failed").kind \notin Transfers
    BY DEF Say, Transfers
  <2>2. ASSUME SaysLittle, NEW i \in 1..Len(inbox'), inbox'[i].kind \in Transfers
        PROVE  i \in 1..Len(inbox) /\ inbox'[i] = inbox[i]
    BY <1>0, <2>1, <2>2, InboxAfterWrite DEF SaysLittle
  <2> QED
    BY <1>1, <2>2 DEF Announced
<1>8. ASSUME \A d \in Dir : s_thread'[d] \notin {"connect", "accept", "open", "transfer"},
             UNCHANGED <<link, inbox>>
      PROVE  PortsAreForRequests' /\ LinksAreForRequests'
  <2>1. \A p, file, d : IsFor(p, file, d)'
    BY <1>8 DEF IsFor
  <2>2. \A p, file, d : Announced(p, file, d)' => Announced(p, file, d)
    BY <1>7, <1>8 DEF SaysLittle
  <2>3. PortsAreForRequests'
    BY <1>8, <2>1, <2>2 DEF PortsAreForRequests
  <2>4. LinksAreForRequests'
    BY <1>8, <2>1 DEF LinksAreForRequests
  <2> QED
    BY <2>3, <2>4
<1>9. ASSUME UNCHANGED <<s_serving, link>>, SaysLittle,
             \A d \in Dir :
               s_thread'[d] \in {"connect", "accept", "open", "transfer"} =>
                 /\ s_thread[d] \in {"connect", "accept", "open", "transfer"}
                 /\ Socket(d)' = Socket(d)
      PROVE  PortsAreForRequests' /\ LinksAreForRequests'
  <2>1. \A p, file, d : IsFor(p, file, d) => IsFor(p, file, d)'
    BY <1>9 DEF IsFor
  <2>2. PortsAreForRequests'
    BY <1>7, <1>9, <2>1 DEF PortsAreForRequests
  <2>3. LinksAreForRequests'
    BY <1>1, <1>9, <2>1 DEF LinksAreForRequests
  <2> QED
    BY <2>2, <2>3
<1>10. CASE ServerAside
  BY <1>9, <1>10 DEF ServerAside, Socket
<1>11. CASE ServerOnly(S!CheckCancelsStray)
  BY <1>8, <1>11 DEF ServerOnly, S!CheckCancelsStray, S!Dir, Dir
<1>12. CASE ServerOnly(S!JoinReturns)
  <2>1. s_thread[s_type] = "none" /\ s_active[s_type] /\ UNCHANGED <<s_thread, link, inbox>>
    BY <1>0, <1>12 DEF ServerOnly, S!JoinReturns, S!Gone, ServerFacts
  <2> QED
    BY <1>2, <1>4, <1>5, <1>8, <2>1
<1>13. CASE ServerOnly(S!SetupReuse)
  BY <1>2, <1>13 DEF ServerOnly, S!SetupReuse
<1>14. CASE ServerListens \/ ServerOnly(S!RaiseFlag)
  <2>1. s_handler \in {"setup", "raise"} /\ UNCHANGED <<s_thread, link, inbox>>
    BY <1>14 DEF ServerOnly, S!RaiseFlag, ServerListens, S!SetupListens
  <2> QED
    BY <1>2, <1>5, <1>8, <2>1
<1>15. CASE ServerOnly(S!SpawnThread)
  <2>1. /\ s_handler = "spawn" /\ UNCHANGED <<link, inbox, s_ftp_socket>>
        /\ s_thread' = [s_thread EXCEPT ![s_type] = "connect"]
        /\ s_serving' = [s_serving EXCEPT ![s_type] = s_request]
    BY <1>15 DEF ServerOnly, S!SpawnThread
  <2>2. HandlerIsBusy /\ \A t \in Threads : link[t] # s_ftp_socket
    BY <1>3, <2>1 DEF ServerPort
  <2>3. \A t \in Threads : thread[t].want # s_request
    BY <1>0, <1>4, <2>2 DEF ComingFacts, FilesAreNew
  <2>4. ASSUME NEW p, NEW file, NEW d, p # s_ftp_socket, file # s_request
        PROVE  IsFor(p, file, d)'
    BY <1>4, <1>6, <2>1, <2>2, <2>4 DEF IsFor, Socket
  <2>5. LinksAreForRequests'
    BY <1>1, <2>1, <2>2, <2>3, <2>4 DEF LinksAreForRequests
  <2>6. PortsAreForRequests'
    <3>1. \A p, file, d : ~Announced(p, file, d)
      BY <1>0, <2>2, AnnouncedAlone
    <3>2. \A p, file, d : ~Announced(p, file, d)'
      BY <1>7, <2>1, <3>1 DEF SaysLittle
    <3> QED
      BY <3>2 DEF PortsAreForRequests
  <2> QED
    BY <2>5, <2>6
<1>16. CASE ToClient(S!Reply)
  <2> DEFINE m == [kind |-> KindOf(s_type), port |-> s_ftp_port, file |-> s_request]
  <2>1. /\ s_handler = "reply" /\ inbox' = Append(inbox, m)
        /\ UNCHANGED <<s_thread, s_serving, s_ftp_socket, s_file_transfer_socket, link>>
    BY <1>16 DEF ToClient, S!Reply, S!Write, KindOf
  <2>2. /\ s_ftp_port = s_ftp_socket /\ \A t \in Threads : link[t] # s_ftp_socket
        /\ s_thread[s_type] \in {"connect", "accept"} /\ s_serving[s_type] = s_request
    BY <2>1 DEF ServerPort
  <2>3. \A p, file, d : IsFor(p, file, d)' = IsFor(p, file, d)
    BY <2>1 DEF IsFor, Socket
  <2>4. ASSUME NEW p, NEW file, NEW d, Announced(p, file, d)'
        PROVE  \/ Announced(p, file, d)
               \/ p = s_ftp_socket /\ file = s_request /\ d = DirectionOf(KindOf(s_type))
    <3>1. \A i \in 1..Len(inbox') : inbox'[i] = m \/ (i \in 1..Len(inbox) /\ inbox'[i] = inbox[i])
      BY <1>0, <2>1, InboxAfterWrite
    <3>2. m.kind = KindOf(s_type) /\ m.port = s_ftp_socket /\ m.file = s_request
      BY <2>2
    <3> HIDE DEF m
    <3> QED
      BY <1>1, <2>4, <3>1, <3>2 DEF Announced
  <2>5. ASSUME NEW d \in Dir, d = DirectionOf(KindOf(s_type))
        PROVE  IsFor(s_ftp_socket, s_request, d)
    <3>1. Other(d) = s_type /\ s_thread[Other(s_type)] = "none"
      BY <1>3, <1>4, <1>6, <2>1, <2>5
    <3> QED
      BY <1>4, <2>2, <3>1 DEF IsFor, Socket
  <2>6. PortsAreForRequests'
    BY <2>1, <2>2, <2>3, <2>4, <2>5 DEF PortsAreForRequests
  <2>7. LinksAreForRequests'
    BY <1>1, <2>1, <2>3 DEF LinksAreForRequests
  <2> QED
    BY <2>6, <2>7
<1>17. ASSUME NEW e \in Dir, \/ ServerOnly(S!ConnectReuse(e) \/ S!ConnectAccepts(e))
                             \/ ServerOnly(S!Finish(e))
                             \/ ServerAccepts(e) \/ AcceptFails(e) \/ ServerGoesOn(e)
       PROVE  PortsAreForRequests' /\ LinksAreForRequests'
  <2>1. CASE ServerOnly(S!ConnectReuse(e))
    BY <2>1 DEF ServerOnly, S!ConnectReuse, ServerPort
  <2>2. CASE ServerOnly(S!ConnectAccepts(e))
    <3>1. /\ s_thread[e] = "connect" /\ s_thread' = [s_thread EXCEPT ![e] = "accept"]
          /\ UNCHANGED <<s_serving, s_ftp_socket, s_file_transfer_socket, link, inbox>>
      BY <2>2 DEF ServerOnly, S!ConnectAccepts, S!Goto
    <3> QED
      BY <1>4, <1>9, <3>1 DEF Socket, SaysLittle
  <2>3. CASE ServerOnly(S!Finish(e))
    <3>1. /\ s_thread' = [s_thread EXCEPT ![e] = "none"] /\ s_active[e]
          /\ UNCHANGED <<link, inbox>>
      BY <2>3 DEF ServerOnly, S!Finish, S!Goto
    <3> QED
      BY <1>2, <1>4, <1>5, <1>8, <3>1
  <2>4. CASE AcceptFails(e)
    BY <1>0, <2>4 DEF AcceptFails, ServerOnly, S!AcceptFails, Listening, ServerPort,
       ServerFacts
  <2>5. CASE ServerGoesOn(e)
    <3>1. UNCHANGED <<s_serving, link>> /\ SaysLittle
      BY <2>5 DEF ServerGoesOn
    <3>2. \A d \in Dir : s_thread'[d] \in {"connect", "accept", "open", "transfer"} =>
            /\ s_thread[d] \in {"connect", "accept", "open", "transfer"}
            /\ Socket(d)' = Socket(d)
      BY <1>4, <2>5 DEF ServerGoesOn, Socket
    <3> QED
      BY <1>9, <3>1, <3>2
  <2>6. CASE ServerAccepts(e)
    <3>1. PICK c \in Threads : link[c] # Nil /\ link[c] = s_ftp_socket
                               /\ link' = [link EXCEPT ![c] = opened']
      BY <2>6 DEF ServerAccepts
    <3>2. /\ s_thread[e] = "accept" /\ s_thread' = [s_thread EXCEPT ![e] = "open"]
          /\ UNCHANGED <<s_serving, inbox>> /\ opened' = opened + 1
          /\ s_file_transfer_socket' = opened'
      BY <2>6 DEF ServerAccepts, S!Accept, S!Goto
    <3>3. s_thread[Other(e)] = "none"
      BY <1>0, <1>2, <1>4, <1>5, <3>2 DEF ServerFacts
    <3>4. \A p \in Known : p # opened'
      BY <1>0, <3>2, ConstantsAssumption DEF Known
    <3>5. \A p, file, d : IsFor(p, file, d)' <=>
                            (p = opened' <=> e = Other(d) /\ s_serving[e] = file)
      BY <1>4, <3>2, <3>3 DEF IsFor, Socket
    <3>6. \A p, file, d : IsFor(p, file, d) <=>
                            (p = s_ftp_socket <=> e = Other(d) /\ s_serving[e] = file)
      BY <1>4, <3>2, <3>3 DEF IsFor, Socket
    <3>7. PortsAreForRequests'
      <4> SUFFICES ASSUME NEW p \in Ports, NEW file \in Paths, NEW d \in Dir,
                          Announced(p, file, d)'
                   PROVE  IsFor(p, file, d)' /\ \A t \in Threads : link'[t] # p
        BY DEF PortsAreForRequests
      <4>1. Announced(p, file, d)
        BY <1>7, <3>2 DEF SaysLittle
      <4>2. IsFor(p, file, d) /\ \A t \in Threads : link[t] # p
        BY <4>1 DEF PortsAreForRequests
      <4>3. p # s_ftp_socket
        BY <3>1, <4>2
      <4>4. p \in Known
        <5>1. at["reader"] \in {"flag", "spawn"} => {message.port, ftp_port} \subseteq Known
          BY DEF Numbered
        <5> QED
          BY <4>1, <5>1 DEF Announced, Numbered
      <4> QED
        BY <1>0, <3>1, <3>4, <3>5, <3>6, <4>2, <4>3, <4>4
    <3>8. LinksAreForRequests'
      <4>1. ASSUME NEW t \in Threads, link'[t] # Nil
            PROVE  link'[t] = opened' <=>
                     e = Other(thread[t].dir) /\ s_serving[e] = thread[t].want
        <5>1. CASE t = c
          BY <1>0, <3>1, <3>6, <5>1 DEF LinksAreForRequests
        <5>2. CASE t # c
          <6>1. link'[t] = link[t] /\ link[t] # opened' /\ link[t] # s_ftp_socket
            BY <1>0, <3>1, <3>4, <4>1, <5>2 DEF LinksAreForRequests, Numbered
          <6> QED
            BY <3>6, <4>1, <6>1 DEF LinksAreForRequests
        <5> QED
          BY <5>1, <5>2
      <4>2. ASSUME NEW t \in Threads, NEW u \in Threads, link'[t] # Nil,
                   link'[t] = link'[u]
            PROVE  t = u
        BY <1>0, <3>1, <3>4, <4>2 DEF LinksAreForRequests, Numbered
      <4> QED
        BY <1>1, <3>5, <4>1, <4>2 DEF LinksAreForRequests
    <3> QED
      BY <3>7, <3>8
  <2> QED
    BY <1>17, <2>1, <2>2, <2>3, <2>4, <2>5, <2>6 DEF ServerOnly
<1> QED
  BY <1>0, <1>10, <1>11, <1>12, <1>13, <1>14, <1>15, <1>16, <1>17, ServerSteps
  DEF ServerFacts

-----------------------------------------------------------------------------
(* What is in the connections.                                             *)
Puts(c, d, file) == wire' = [wire EXCEPT ![c][d] = Append(@, file)]
Takes(c, d) == wire[c][d] # <<>> /\ wire' = [wire EXCEPT ![c][d] = Tail(@)]

(* A step puts the file of a transfer into its connection, or takes one    *)
(* out of it.                                                              *)
ClientPuts(t) ==
  /\ thread[t].where = "transfer" /\ file_transfer_socket \in Threads
  /\ Puts(file_transfer_socket, "SEND", thread[t].file)
  /\ UNCHANGED mixed
ClientTakes(t) ==
  /\ thread[t].where = "transfer" /\ file_transfer_socket \in Threads
  /\ Takes(file_transfer_socket, "RECV")
  /\ mixed' = (mixed \/ Head(wire[file_transfer_socket]["RECV"]) # thread[t].file)
ServerPuts(c) ==
  /\ s_thread["SEND"] = "transfer"
  /\ Puts(c, "RECV", s_serving["SEND"])
  /\ UNCHANGED mixed
ServerTakes(c) ==
  /\ s_thread["RECV"] = "transfer"
  /\ Takes(c, "SEND")
  /\ mixed' = (mixed \/ Head(wire[c]["SEND"]) # s_serving["RECV"])

LEMMA WireSteps ==
  ASSUME TypeOK, ServerFacts, mixed \in BOOLEAN, [SystemNext]_systemVars
  PROVE  \/ UNCHANGED <<wire, mixed>>
         \/ UNCHANGED link /\ \E t \in Threads :
              ClientThread(t) /\ (ClientPuts(t) \/ ClientTakes(t))
         \/ UNCHANGED <<link, threadVars>> /\ \E c \in Accepted : ServerPuts(c) \/ ServerTakes(c)
<1> USE DEF tcpVars, history, Puts, Takes
<1>0. file_transfer_socket \in Threads \cup {Nil}
  BY DEF TypeOK
<1>1. CASE UserTypes \/ Aside \/ Reads \/ ClientOnly(Flag) \/ ClientOnly(Spawn) \/ Joins
  BY <1>1 DEF UserTypes, Aside, Reads, ClientOnly, Joins
<1>2. ASSUME NEW t \in Threads, ClientThread(t)
      PROVE  \/ UNCHANGED <<wire, mixed>>
             \/ UNCHANGED link /\ (ClientPuts(t) \/ ClientTakes(t))
  <2>1. CASE \/ ClientOnly(ConnectReuse(t) \/ OpenFile(t) \/ Finish(t))
             \/ Connects(t) \/ IsRefused(t)
    BY <2>1 DEF ClientOnly, Connects, IsRefused
  <2>2. CASE ClientSends(t)
    BY <1>0, <2>2 DEF ClientSends, TransferEnds, Put, ClientPuts
  <2>3. CASE ClientReceives(t)
    BY <1>0, <2>3 DEF ClientReceives, TransferEnds, TransferFails, Gets, GetsOther,
       GetsEnd, ClientTakes
  <2>4. CASE ClientCancelled(t)
    BY <1>0, <2>4 DEF ClientCancelled, Put, ServerEnd, ClientPuts
  <2> QED
    BY <1>2, <2>1, <2>2, <2>3, <2>4 DEF ClientThread
<1>3. CASE ServerHandler \/ \E d \in Dir : ServerThread(d)
  <2>1. CASE ServerSends
    BY <2>1 DEF ServerSends, S!TransferEnds, Put, ServerPuts, clientVars
  <2>2. CASE ServerReceives
    BY <2>2 DEF ServerReceives, S!TransferEnds, S!TransferFails, Gets, GetsOther,
       GetsEnd, ServerTakes
  <2>3. CASE \E d \in Dir : ServerCancelled(d)
    BY <2>3 DEF ServerCancelled, S!Cancelled, Put, ServerPuts, clientVars
  <2> QED
    BY <1>3, <2>1, <2>2, <2>3 DEF ServerHandler, HandlerReads, HandlerLeaves,
       ServerListens, SetupFails, ToClient, ServerOnly, ServerThread, ServerAccepts,
       AcceptFails
<1> QED
  BY <1>1, <1>2, <1>3, SystemSteps

LEMMA PutKeeps ==
  ASSUME wire \in Wires, NEW c \in Threads, NEW d \in Dir, NEW file \in Paths,
         Puts(c, d, file)
  PROVE  /\ wire' \in Wires
         /\ \A t \in Threads : t # c => wire'[t] = wire[t]
         /\ \A e \in Dir : \A i \in 1..Len(wire'[c][e]) :
              wire'[c][e][i] = file \/ \E j \in 1..Len(wire[c][e]) :
                                         wire'[c][e][i] = wire[c][e][j]
<1>1. Append(wire[c][d], file) \in Seq(Paths)
  BY DEF Wires
<1>2. wire' = [wire EXCEPT ![c] = [wire[c] EXCEPT ![d] = Append(wire[c][d], file)]]
  BY DEF Wires, Puts
<1>3. \A t \in Threads : wire'[t] =
        IF t = c THEN [wire[c] EXCEPT ![d] = Append(wire[c][d], file)] ELSE wire[t]
  BY <1>2 DEF Wires
<1>4. \A e \in Dir : wire'[c][e] = IF e = d THEN Append(wire[c][d], file) ELSE wire[c][e]
  BY <1>3 DEF Wires
<1>5. ASSUME NEW e \in Dir, NEW i \in 1..Len(wire'[c][e])
      PROVE  wire'[c][e][i] = file \/ \E j \in 1..Len(wire[c][e]) :
                                        wire'[c][e][i] = wire[c][e][j]
  <2>1. CASE e = d
    <3>1. wire[c][d] \in Seq(Paths) /\ i \in 1..Len(Append(wire[c][d], file))
          /\ wire'[c][e][i] = Append(wire[c][d], file)[i] /\ wire[c][e] = wire[c][d]
      BY <1>4, <1>5, <2>1 DEF Wires
    <3>2. ASSUME NEW s \in Seq(Paths), NEW j \in 1..Len(Append(s, file))
          PROVE  Append(s, file)[j] = file
                 \/ (j \in 1..Len(s) /\ Append(s, file)[j] = s[j])
      OBVIOUS
    <3> QED
      BY <3>1, <3>2
  <2>2. CASE e # d
    BY <1>4, <1>5, <2>2
  <2> QED
    BY <2>1, <2>2
<1>6. wire' \in Wires
  BY <1>1, <1>2, <1>3, <1>4 DEF Wires
<1> QED
  BY <1>3, <1>5, <1>6

LEMMA TakeKeeps ==
  ASSUME wire \in Wires, NEW c \in Threads, NEW d \in Dir, Takes(c, d)
  PROVE  /\ wire' \in Wires
         /\ 1 \in 1..Len(wire[c][d]) /\ Head(wire[c][d]) = wire[c][d][1]
         /\ \A t \in Threads : t # c => wire'[t] = wire[t]
         /\ \A e \in Dir : \A i \in 1..Len(wire'[c][e]) :
              \E j \in 1..Len(wire[c][e]) : wire'[c][e][i] = wire[c][e][j]
<1>0. wire[c][d] \in Seq(Paths) /\ wire[c][d] # <<>>
  BY DEF Wires, Takes
<1>1. /\ Tail(wire[c][d]) \in Seq(Paths) /\ Len(wire[c][d]) \in Nat \ {0}
      /\ \A i \in 1..Len(Tail(wire[c][d])) :
           i + 1 \in 1..Len(wire[c][d]) /\ Tail(wire[c][d])[i] = wire[c][d][i + 1]
      /\ Head(wire[c][d]) = wire[c][d][1]
  BY <1>0
<1>2. wire' = [wire EXCEPT ![c] = [wire[c] EXCEPT ![d] = Tail(wire[c][d])]]
  BY DEF Wires, Takes
<1>3. \A t \in Threads : wire'[t] =
        IF t = c THEN [wire[c] EXCEPT ![d] = Tail(wire[c][d])] ELSE wire[t]
  BY <1>2 DEF Wires
<1>4. \A e \in Dir : wire'[c][e] = IF e = d THEN Tail(wire[c][d]) ELSE wire[c][e]
  BY <1>3 DEF Wires
<1>5. ASSUME NEW e \in Dir, NEW i \in 1..Len(wire'[c][e])
      PROVE  \E j \in 1..Len(wire[c][e]) : wire'[c][e][i] = wire[c][e][j]
  <2>1. CASE e = d
    <3>1. i \in 1..Len(Tail(wire[c][d])) /\ wire'[c][e][i] = Tail(wire[c][d])[i]
          /\ wire[c][e] = wire[c][d]
      BY <1>4, <1>5, <2>1
    <3> QED
      BY <1>1, <3>1
  <2>2. CASE e # d
    BY <1>4, <1>5, <2>2
  <2> QED
    BY <2>1, <2>2
<1>6. wire' \in Wires
  BY <1>1, <1>2, <1>3, <1>4 DEF Wires
<1> QED
  BY <1>1, <1>3, <1>5, <1>6

LEMMA WiresStep ==
  ASSUME Parts, ~careless, ClientConnection, DataTypes, LinksAreForRequests,
         WiresCarryOneFile, [SystemNext]_systemVars
  PROVE  WiresCarryOneFile'
<1>0. /\ TypeOK /\ ServerFacts /\ ThreadFacts /\ wire \in Wires /\ mixed = FALSE
      /\ thread \in [Threads -> Transfer] /\ link \in [Threads -> Ports \cup {Nil}]
      /\ Nil \notin Threads
  BY PlainTypes, ServerInOrder, ThreadsInOrder, ConstantsAssumption
  DEF Parts, TypeOK, DataTypes, WiresCarryOneFile, Threads
<1>1. \A t \in Threads :
        /\ thread'[t].where = "none" => thread[t].where = "none"
        /\ thread[t].where # "none" => thread'[t].want = thread[t].want
  <2>1. CASE ~ClientOnly(Spawn)
    BY <1>0, <2>1, ThreadsKeepTheirJob
  <2>2. CASE ClientOnly(Spawn)
    <3>1. PICK t \in Threads :
            /\ thread[t].where = "none"
            /\ thread' = [thread EXCEPT ![t] =
                 [dir |-> DirectionOf(message.kind), where |-> "connect",
                  want |-> message.file, file |-> Nil]]
      BY <2>2 DEF ClientOnly, Spawn
    <3> QED
      BY <1>0, <3>1
  <2> QED
    BY <2>1, <2>2
<1>2. \A t \in Threads : thread[t].where = "none" => link'[t] = Nil
  <2>1. CASE UNCHANGED link
    BY <2>1 DEF WiresCarryOneFile
  <2>2. CASE \E t \in Threads : Connects(t)
    BY <1>0, <2>2 DEF WiresCarryOneFile, Connects, ConnectOpens
  <2>3. CASE \E d \in Dir : ServerAccepts(d)
    BY <1>0, <2>3 DEF WiresCarryOneFile, ServerAccepts
  <2>4. CASE ServerHandler \/ \E d \in Dir : ServerThread(d)
    BY <2>1, <2>3, <2>4 DEF ServerHandler, HandlerReads, HandlerLeaves,
       ServerListens, SetupFails, ToClient, ServerOnly, ServerThread, AcceptFails,
       ServerSends, ServerReceives, ServerCancelled, tcpVars
  <2> QED
    BY <1>0, <2>1, <2>2, <2>4, ClientPorts
<1>3. ASSUME UNCHANGED <<wire, mixed>>
      PROVE  WiresCarryOneFile'
  <2>1. \A t \in Threads : thread'[t].where = "none" =>
          link'[t] = Nil /\ \A d \in Dir : wire'[t][d] = <<>>
    BY <1>1, <1>2, <1>3 DEF WiresCarryOneFile
  <2>2. ASSUME NEW t \in Threads, NEW d \in Dir, NEW i \in 1..Len(wire'[t][d])
        PROVE  wire'[t][d][i] = thread'[t].want
    <3>1. wire[t][d][i] = thread[t].want /\ wire[t][d] # <<>>
      BY <1>3, <2>2 DEF WiresCarryOneFile
    <3> QED
      BY <1>1, <1>3, <3>1 DEF WiresCarryOneFile
  <2> QED
    BY <1>0, <1>3, <2>1, <2>2 DEF WiresCarryOneFile
<1>4. ASSUME NEW c \in Threads, NEW d \in Dir, thread[c].where # "none",
             \/ Puts(c, d, thread[c].want)
             \/ Takes(c, d),
             UNCHANGED mixed
      PROVE  WiresCarryOneFile'
  <2>1. thread[c].want \in Paths
    BY <1>0 DEF Transfer, Paths
  <2>2. /\ \A t \in Threads : t # c => wire'[t] = wire[t]
        /\ \A e \in Dir : \A i \in 1..Len(wire'[c][e]) :
             wire'[c][e][i] = thread[c].want
             \/ \E j \in 1..Len(wire[c][e]) : wire'[c][e][i] = wire[c][e][j]
    BY <1>0, <1>4, <2>1, PutKeeps, TakeKeeps
  <2>3. \A t \in Threads : thread'[t].where = "none" =>
          link'[t] = Nil /\ \A e \in Dir : wire'[t][e] = <<>>
    BY <1>1, <1>2, <1>4, <2>2 DEF WiresCarryOneFile
  <2>4. ASSUME NEW t \in Threads, NEW e \in Dir, NEW i \in 1..Len(wire'[t][e])
        PROVE  wire'[t][e][i] = thread'[t].want
    <3>1. CASE t = c
      <4>1. thread'[t].want = thread[c].want
        BY <1>1, <1>4, <3>1
      <4>2. \A j \in 1..Len(wire[c][e]) : wire[c][e][j] = thread[c].want
        BY <2>4 DEF WiresCarryOneFile
      <4>3. wire'[c][e][i] = thread[c].want
        BY <2>2, <2>4, <3>1, <4>2
      <4> QED
        BY <3>1, <4>1, <4>3
    <3>2. CASE t # c
      <4>1. wire[t][e][i] = thread[t].want /\ wire[t][e] # <<>> /\ wire'[t] = wire[t]
        BY <2>2, <2>4, <3>2 DEF WiresCarryOneFile
      <4> QED
        BY <1>1, <4>1 DEF WiresCarryOneFile
    <3> QED
      BY <3>1, <3>2
  <2> QED
    BY <1>0, <1>4, <2>3, <2>4 DEF WiresCarryOneFile
<1>5. ASSUME NEW t \in Threads, ClientPuts(t) \/ ClientTakes(t)
      PROVE  WiresCarryOneFile'
  <2>1. file_transfer_socket = t /\ thread[t].where = "transfer"
    BY <1>0, <1>5 DEF ClientPuts, ClientTakes, ClientConnection
  <2>2. thread[t].file = thread[t].want
    BY <1>0, <2>1 DEF ClientConnection, ThreadFacts
  <2>3. CASE ClientPuts(t)
    BY <1>4, <2>1, <2>2, <2>3 DEF ClientPuts, Dir
  <2>4. CASE ClientTakes(t)
    <3>1. Takes(t, "RECV") /\ "RECV" \in Dir
      BY <2>1, <2>4 DEF ClientTakes, Dir
    <3>2. Head(wire[t]["RECV"]) = thread[t].want
      BY <1>0, <3>1, TakeKeeps DEF WiresCarryOneFile
    <3>3. UNCHANGED mixed
      BY <1>0, <2>1, <2>2, <2>4, <3>2 DEF ClientTakes
    <3> QED
      BY <1>4, <2>1, <3>1, <3>3
  <2> QED
    BY <1>5, <2>3, <2>4
<1>6. ASSUME NEW c \in Accepted, ServerPuts(c) \/ ServerTakes(c)
      PROVE  WiresCarryOneFile'
  <2>1. /\ c \in Threads /\ link[c] # Nil /\ link[c] = s_file_transfer_socket
        /\ thread[c].where # "none"
    BY <1>6 DEF Accepted, WiresCarryOneFile
  <2>2. IsFor(link[c], thread[c].want, thread[c].dir)
    BY <2>1 DEF LinksAreForRequests
  <2>3. CASE ServerPuts(c)
    <3>1. s_serving["SEND"] = thread[c].want /\ "SEND" \in Dir /\ "RECV" \in Dir
      BY <2>1, <2>2, <2>3 DEF ServerPuts, IsFor, Socket, Dir
    <3> QED
      BY <1>4, <2>1, <2>3, <3>1 DEF ServerPuts
  <2>4. CASE ServerTakes(c)
    <3>1. s_serving["RECV"] = thread[c].want /\ "SEND" \in Dir
      BY <2>1, <2>2, <2>4 DEF ServerTakes, IsFor, Socket, Dir
    <3>2. Takes(c, "SEND") /\ Head(wire[c]["SEND"]) = thread[c].want
      BY <1>0, <2>1, <2>4, <3>1, TakeKeeps DEF ServerTakes, WiresCarryOneFile
    <3>3. UNCHANGED mixed
      BY <1>0, <2>4, <3>1, <3>2 DEF ServerTakes
    <3> QED
      BY <1>4, <2>1, <3>1, <3>2, <3>3
  <2> QED
    BY <1>6, <2>3, <2>4
<1> QED
  BY <1>0, <1>3, <1>5, <1>6, WireSteps

LEMMA DataTypesStep ==
  ASSUME Parts, DataTypes, [SystemNext]_systemVars
  PROVE  DataTypes'
<1>0. /\ TypeOK /\ ServerFacts /\ wire \in Wires /\ {hasty, mixed} \subseteq BOOLEAN
      /\ thread \in [Threads -> Transfer] /\ link \in [Threads -> Ports \cup {Nil}]
      /\ opened \in Nat
  BY PlainTypes, ServerInOrder DEF Parts, TypeOK, DataTypes
<1>1. opened' \in Nat /\ link' \in [Threads -> Ports \cup {Nil}]
  <2>1. CASE ~(ServerHandler \/ \E d \in Dir : ServerThread(d))
    <3>1. ftp_port \in Ports \cup {Nil}
      BY <1>0 DEF TypeOK
    <3>2. UNCHANGED opened /\ (UNCHANGED link \/ \E t \in Threads : Connects(t))
      BY <1>0, <2>1, ClientPorts
    <3>3. UNCHANGED link \/ \E t \in Threads : link' = [link EXCEPT ![t] = ftp_port]
      BY <3>2 DEF Connects
    <3> QED
      BY <1>0, <3>1, <3>2, <3>3
  <2>2. CASE ServerListens
    BY <1>0, <2>2 DEF ServerListens
  <2>3. CASE \E d \in Dir : ServerAccepts(d)
    <3>1. PICK c \in Threads : /\ link' = [link EXCEPT ![c] = opened']
                               /\ opened' = opened + 1 /\ opened' \in Ports
      BY <2>3 DEF ServerAccepts, S!Accept
    <3> QED
      BY <1>0, <3>1
  <2>4. CASE ServerHandler
    BY <1>0, <2>2, <2>4 DEF ServerHandler, HandlerReads, HandlerLeaves, SetupFails,
       ToClient, ServerOnly, tcpVars
  <2>5. ASSUME NEW d \in Dir, ServerThread(d)
        PROVE  opened' \in Nat /\ link' \in [Threads -> Ports \cup {Nil}]
    <3>1. CASE ServerAccepts(d)
      BY <2>3, <3>1
    <3>2. CASE ~ServerAccepts(d)
      <4>1. UNCHANGED <<link, opened>>
        BY <2>5, <3>2 DEF ServerThread, AcceptFails, ServerOnly, ServerSends,
           ServerReceives, ServerCancelled, tcpVars
      <4> QED
        BY <1>0, <4>1
    <3> QED
      BY <3>1, <3>2
  <2> QED
    BY <2>1, <2>4, <2>5
<1>2. wire' \in Wires /\ mixed' \in BOOLEAN
  <2>1. ASSUME NEW t \in Threads, ClientPuts(t) \/ ClientTakes(t)
        PROVE  wire' \in Wires /\ mixed' \in BOOLEAN
    <3>1. thread[t].file \in Paths /\ "SEND" \in Dir /\ "RECV" \in Dir
      BY <1>0 DEF Transfer, Paths, Dir
    <3> QED
      BY <1>0, <2>1, <3>1, PutKeeps, TakeKeeps DEF ClientPuts, ClientTakes
  <2>2. ASSUME NEW c \in Accepted, ServerPuts(c) \/ ServerTakes(c)
        PROVE  wire' \in Wires /\ mixed' \in BOOLEAN
    <3>1. s_serving["SEND"] \in Paths /\ "SEND" \in Dir /\ "RECV" \in Dir /\ c \in Threads
      BY <1>0 DEF ServerFacts, S!TypeOK, S!Dir, Paths, Dir, Accepted
    <3> QED
      BY <1>0, <2>2, <3>1, PutKeeps, TakeKeeps DEF ServerPuts, ServerTakes
  <2> QED
    BY <1>0, <2>1, <2>2, WireSteps
<1>3. hasty' \in BOOLEAN /\ (careless' => hasty')
  <2>1. CASE UserTypes
    BY <1>0, <2>1 DEF UserTypes, Type, TypeOK
  <2>2. CASE ~UserTypes
    BY <1>0, <2>2, OnlyTheUserTypes DEF DataTypes
  <2> QED
    BY <2>1, <2>2
<1> QED
  BY <1>1, <1>2, <1>3 DEF DataTypes

-----------------------------------------------------------------------------
LEMMA InitMeeting == SystemInit => SInv
<1> SUFFICES ASSUME SystemInit
             PROVE  SInv
  OBVIOUS
<1>0. /\ Init /\ S!Init /\ link = [c \in Threads |-> Nil]
      /\ wire = [c \in Threads |-> [d \in Dir |-> <<>>]]
      /\ opened = 0 /\ hasty = FALSE /\ mixed = FALSE
  BY DEF SystemInit
<1> USE <1>0 DEF Init, S!Init
<1>1. thread = [t \in Threads |-> Unborn] /\ Unborn.where = "none" /\ Unborn.want = Nil
  BY DEF Unborn
<1>2. \A t \in Threads : thread[t].where = "none" /\ thread[t].want = Nil
  BY <1>1
<1>3. \A p, file, d : ~Announced(p, file, d)
  BY <1>2 DEF Announced
<1>4. \A kind, file : ~Coming(kind, file)
  <2>1. Unanswered = <<>>
    BY DEF Unanswered
  <2> QED
    BY <2>1 DEF Coming, Client!Pending, Client!WriterHasOne, Client!Asked,
       Client!ReaderHasOne, Client!Holds
<1>5. DataTypes
  <2>1. <<>> \in Seq(Paths)
    OBVIOUS
  <2>2. wire \in Wires
    BY <2>1 DEF Wires
  <2>3. link \in [Threads -> Ports \cup {Nil}] /\ opened \in Nat
    OBVIOUS
  <2>4. {hasty, mixed} \subseteq BOOLEAN /\ (careless => hasty)
    OBVIOUS
  <2> QED
    BY <2>2, <2>3, <2>4 DEF DataTypes
<1>6. OneWay
  BY <1>2, <1>4 DEF OneWay, Resting, RunningThreads, Dir, S!Dir, Other
<1>7. FilesAreNew
  BY <1>2, <1>4 DEF FilesAreNew
<1>8. ClientConnection /\ ClientPort
  <2>1. \A t \in Threads : t # Nil
    BY ONLY ConstantsAssumption DEF Threads
  <2> QED
    BY <1>2, <2>1 DEF ClientConnection, ClientPort
<1>9. ServerPort
  BY DEF ServerPort, S!Dir, Dir
<1>10. Numbered
  BY DEF Numbered, Known, Say
<1>11. PortsAreForRequests /\ LinksAreForRequests
  BY <1>3 DEF PortsAreForRequests, LinksAreForRequests
<1>12. WiresCarryOneFile
  BY <1>2 DEF WiresCarryOneFile
<1> QED
  BY <1>5, <1>6, <1>7, <1>8, <1>9, <1>10, <1>11, <1>12 DEF SInv, Meeting

LEMMA StepMeeting == Parts /\ SInv /\ [SystemNext]_systemVars => SInv'
<1> SUFFICES ASSUME Parts, SInv, [SystemNext]_systemVars
             PROVE  SInv'
  OBVIOUS
<1>1. DataTypes'
  BY DataTypesStep DEF SInv
<1>2. ASSUME ~hasty'
      PROVE  Meeting'
  <2>1. ~hasty
    <3>1. CASE UserTypes
      BY <1>2, <3>1 DEF UserTypes
    <3>2. CASE ~UserTypes
      BY <1>2, <3>2, PlainTypes, OnlyTheUserTypes DEF Parts
    <3> QED
      BY <3>1, <3>2
  <2>2. Meeting /\ DataTypes /\ ~careless
    BY <2>1 DEF SInv, DataTypes
  <2>3. OneWay' /\ FilesAreNew'
    BY <1>2, <2>2, OneWayStep, FilesStep DEF Meeting
  <2>4. ClientConnection' /\ ClientPort' /\ ServerPort' /\ Numbered'
    BY <2>2, ConnectionStep, ServerPortStep, NumberedStep DEF Meeting
  <2>5. PortsAreForRequests' /\ LinksAreForRequests'
    BY <2>2, RequestsKept, RequestsServed DEF Meeting
  <2>6. WiresCarryOneFile'
    BY <2>2, WiresStep DEF Meeting
  <2> QED
    BY <2>3, <2>4, <2>5, <2>6 DEF Meeting
<1> QED
  BY <1>1, <1>2 DEF SInv

(* Both processes keep their own invariants, and the two together theirs.  *)
THEOREM SystemInvariance == SystemSpec => [](Parts /\ SInv)
<1>1. Client!Spec => []Client!IInv
  BY Client!Invariance, ConstantsAssumption, Zenon DEF Client!Invariance
<1>2. Server!Spec => []Server!IInv
  BY Server!Inductive, ServerAssumption, Zenon DEF Server!Inductive
<1>3. SystemInit => Mapped /\ SInv
  BY InitMaps, InitMeeting
<1>4. Mapped /\ [SystemNext]_systemVars => Mapped'
  BY StepMaps
<1>5. Parts /\ SInv /\ [SystemNext]_systemVars => SInv'
  BY StepMeeting
<1>6. Client!IInv /\ Server!IInv /\ Mapped <=> Parts
  BY DEF Parts
<1> QED
  BY <1>1, <1>2, <1>3, <1>4, <1>5, <1>6, SystemImplementsClient, SystemImplementsServer,
     PTL DEF SystemSpec, ImplementsClient, ImplementsServer

(* Whatever is cancelled, refused or fails on the way: connect_ftp_client  *)
(* and connect_ftp_server give the two threads of a request the same       *)
(* connection, for a user who uses one direction at a time.                *)
THEOREM TransfersMeet == SystemSpec => []OneDirectionMeets
<1>1. Parts /\ SInv => OneDirectionMeets
  <2> SUFFICES ASSUME Parts, DataTypes, Meeting, ~careless, at["main"] \in {"wait", "stop"},
                      NEW t \in Threads, NEW d \in Dir, d = Other(thread[t].dir),
                      thread[t].where \in {"open", "transfer"},
                      s_thread[d] \in {"accept", "open", "transfer"},
                      s_serving[d] = thread[t].want
               PROVE  file_transfer_socket # Nil /\ link[file_transfer_socket] = Where(d)
    BY DEF SInv, DataTypes, OneDirectionMeets, PairsMeet, Other, Dir
  <2>1. TypeOK /\ ThreadFacts
    BY PlainTypes, ThreadsInOrder DEF Parts
  <2>2. active[thread[t].dir]
    BY <2>1 DEF ThreadFacts, RunningThreads, TypeOK, Transfer
  <2>3. file_transfer_socket = t /\ link[t] # Nil
    BY <2>2 DEF Meeting, ClientConnection
  <2>4. IsFor(link[t], thread[t].want, thread[t].dir)
    BY <2>3 DEF Meeting, LinksAreForRequests
  <2>5. link[t] = Socket(d)
    BY <2>4 DEF IsFor
  <2>6. t # Nil
    BY ConstantsAssumption DEF Threads
  <2> QED
    BY <2>3, <2>5, <2>6 DEF Socket, Where
<1> QED
  BY <1>1, SystemInvariance, PTL

(* recv_file of either process never takes bytes of one file for           *)
(* another's, as long as the user uses one direction at a time.            *)
THEOREM NoFileIsMixed == SystemSpec => []FilesAreApart
<1>1. Parts /\ SInv => FilesAreApart
  BY DEF SInv, Meeting, WiresCarryOneFile, FilesAreApart
<1> QED
  BY <1>1, SystemInvariance, PTL
=============================================================================
