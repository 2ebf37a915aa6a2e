----------------------------- MODULE GrassSystem -----------------------------
(***************************************************************************)
(* One client and the engine of the server that serves it: GrassClient and *)
(* FtpServer on the same control socket, with the data connections that    *)
(* their transfer threads make between them.  Each process decides by its  *)
(* own port_open whether a transfer needs a new connection; what is at     *)
(* stake here is whether the two agree.                                    *)
(* Descriptors of the server are numbered as they are opened and are not   *)
(* used again (FtpServer is about their reuse).  Neither process runs out  *)
(* of threads: that a thread cannot be created (SpawnFails of either) is   *)
(* left to the modules of the two.  No user is called put or get.          *)
(***************************************************************************)
EXTENDS GrassClient

CONSTANTS
  MaxThreads,    \* see FtpServer
  MaxControl,
  Large,         \* files that do not fit in the buffers of a connection
  MaxBeforeEnd   \* commands the user may have typed when the client is ended

VARIABLES
  \* the server's ftp_data_t, threads and descriptors, see FtpServer
  s_clean_lock, s_active, s_port_open, s_ftp_port, s_ftp_socket,
  s_file_transfer_socket, s_filepath, s_ftp_file, s_thread_id, s_thread,
  s_serving, s_leaked, s_handler, s_type, s_request, s_leaving, s_fds,
  \* data connections, named by the client's thread that made them
  link,      \* descriptor of the server that each of them leads to
  wire,      \* files under way in each of them, for each direction
  opened,    \* descriptors the server has opened so far
  \* history
  hasty,     \* has a transfer been asked for before an answer was dealt with,
             \* or while the other direction was in use?
  mixed,     \* has a receiver taken bytes of another transfer's file?
  unanswered, \* has the server left a command without an answer?
  dropped,   \* has the client read an answer behind another message, unseen?
  killed     \* has a process died of SIGPIPE?

S == INSTANCE FtpServer WITH
  Fds <- Ports, ForeignFds <- {}, Requests <- Files,
  clean_lock <- s_clean_lock, active <- s_active, port_open <- s_port_open,
  ftp_port <- s_ftp_port, ftp_socket <- s_ftp_socket,
  file_transfer_socket <- s_file_transfer_socket, filepath <- s_filepath,
  ftp_file <- s_ftp_file, thread_id <- s_thread_id, thread <- s_thread,
  serving <- s_serving, leaked <- s_leaked, handler <- s_handler,
  type <- s_type, request <- s_request, leaving <- s_leaving, fds <- s_fds,
  control <- inbox

ASSUME SystemAssumption ==
  /\ Ports = 1..(2 * MaxTransfers)     \* a listener and a connection for each
  /\ MaxControl \in Nat /\ MaxControl >= MaxCommands + 2 * MaxTransfers
  /\ MaxThreads \in Nat /\ MaxThreads >= MaxTransfers   \* no creation fails
  /\ MaxFailures >= MaxTransfers       \* every put can fail
  /\ 1..MaxTransfers \subseteq Files   \* files are numbered as they are asked for
  /\ Large \subseteq Files
  /\ MaxBeforeEnd \in Nat

serverVars == <<s_clean_lock, s_active, s_port_open, s_ftp_port, s_ftp_socket,
  s_file_transfer_socket, s_filepath, s_ftp_file, s_thread_id, s_thread,
  s_serving, s_leaked, s_handler, s_type, s_request, s_leaving, s_fds>>
clientVars == <<procVars, ftpVars, threadVars, sent, userVars>>
history    == <<hasty, mixed, unanswered, dropped, killed>>
tcpVars    == <<link, wire, opened>>
systemVars == <<clientVars, inbox, serverVars, tcpVars, history>>

SystemInit ==
  /\ Init
  /\ S!Init
  /\ link = [c \in Threads |-> Nil]
  /\ wire = [c \in Threads |-> [d \in Dir |-> <<>>]]
  /\ opened = 0
  /\ hasty = FALSE /\ mixed = FALSE
  /\ unanswered = FALSE /\ dropped = FALSE /\ killed = FALSE

-----------------------------------------------------------------------------
(* The data connections.  A direction is the client's: the server's is the *)
(* other one.                                                              *)

(* Does the server's end of connection c exist, its client's end?          *)
ServerEnd(c) ==
  IF c = Nil THEN FALSE ELSE IF link[c] = Nil THEN FALSE ELSE s_fds[link[c]] # "free"
ClientEnd(c) == at["main"] # "exited" /\ file_transfer_socket = c

(* The server's connection.                                                *)
Accepted == {c \in Threads : link[c] # Nil /\ link[c] = s_file_transfer_socket}

(* Is a thread of the other side reading connection c?                     *)
ServerReads(c) == s_thread["RECV"] = "transfer" /\ c \in Accepted
ClientReads(c) == ClientEnd(c) /\ \E t \in Threads :
  thread[t].dir = "RECV" /\ thread[t].where = "transfer"

(* A file that is sent arrives; what is sent to an end that has been closed *)
(* is lost, and a process that goes on sending gets SIGPIPE and dies.      *)
Put(c, d, file, open) ==
  IF open THEN wire' = [wire EXCEPT ![c][d] = Append(@, file)] /\ UNCHANGED killed
  ELSE UNCHANGED wire /\ killed' \in BOOLEAN

(* A receiver that expects a file gets all of it, something else first, or *)
(* the end of the stream.                                                  *)
Gets(c, d, file) ==
  /\ wire[c][d] # <<>> /\ Head(wire[c][d]) = file
  /\ wire' = [wire EXCEPT ![c][d] = Tail(@)]
  /\ UNCHANGED mixed
GetsOther(c, d, file) ==
  /\ wire[c][d] # <<>> /\ Head(wire[c][d]) # file
  /\ wire' = [wire EXCEPT ![c][d] = Tail(@)]
  /\ mixed' = TRUE
GetsEnd(c, d, open) ==
  /\ wire[c][d] = <<>> /\ ~open
  /\ UNCHANGED <<wire, mixed>>

-----------------------------------------------------------------------------
(* The client.                                                             *)
ClientOnly(A) == A /\ UNCHANGED <<serverVars, tcpVars, history>>

(* The user asks for a file that no earlier command asked for.             *)
UserTypes ==
  /\ at["main"] = "wait"
  /\ \E kind \in {"put", "get"} :
       /\ Type([kind |-> kind, file |-> typed + 1], Dealt /\ s_handler = "idle")
       /\ LET d == DirectionOf(kind)
          IN hasty' = (hasty \/ careless' \/ active[Other(d)] \/ s_active[d])
  /\ UNCHANGED <<serverVars, tcpVars, mixed, unanswered, dropped, killed>>

(* A connection is made if the port is listened on.                        *)
Listening(p) == IF p = Nil THEN FALSE ELSE s_fds[p] = "listener"

Connects(t) ==
  /\ Listening(ftp_port)
  /\ ConnectOpens(t)
  /\ link' = [link EXCEPT ![t] = ftp_port]
  /\ UNCHANGED <<serverVars, wire, opened, history>>

IsRefused(t) ==
  /\ ~Listening(ftp_port)
  /\ ClientOnly(ConnectRefused(t))

(* A file is sent when it is in the connection, a large one when it is     *)
(* read at the other end.                                                  *)
ClientSends(t) ==
  /\ thread[t].dir = "SEND"
  /\ TransferEnds(t)
  /\ LET c == file_transfer_socket
     IN IF c = Nil THEN UNCHANGED <<wire, killed>>
        ELSE /\ ServerEnd(c) /\ thread[t].file \in Large => ServerReads(c)
             /\ Put(c, "SEND", thread[t].file, ServerEnd(c))
  /\ UNCHANGED <<serverVars, link, opened, hasty, mixed, unanswered, dropped>>

ClientReceives(t) ==
  /\ thread[t].dir = "RECV"
  /\ LET c == file_transfer_socket
     IN \/ c # Nil /\ Gets(c, "RECV", thread[t].file) /\ TransferEnds(t)
        \/ /\ TransferFails(t)
           /\ IF c = Nil THEN UNCHANGED <<wire, mixed>>
              ELSE GetsOther(c, "RECV", thread[t].file)
                   \/ GetsEnd(c, "RECV", ServerEnd(c))
  /\ UNCHANGED <<serverVars, link, opened, hasty, unanswered, dropped, killed>>

(* A sender that is cancelled may have sent a part of its file.            *)
ClientCancelled(t) ==
  /\ Cancelled(t)
  /\ \/ UNCHANGED wire
     \/ /\ thread[t].where = "transfer" /\ thread[t].dir = "SEND"
        /\ ServerEnd(file_transfer_socket)
        /\ Put(file_transfer_socket, "SEND", thread[t].file, TRUE)
  /\ UNCHANGED <<serverVars, link, opened, history>>

ClientWriter == ClientOnly(WriterStep)
ClientReader ==
  \/ \E k \in 1..Len(inbox) :
       /\ Read(k)
       /\ dropped' = (dropped \/ \E i \in 2..k : inbox[i].kind \in {"put", "get"})
       /\ UNCHANGED <<serverVars, tcpVars, hasty, mixed, unanswered, killed>>
  \/ ClientOnly(Flag \/ Spawn \/ Unlock)
ClientMain   == ClientOnly(StopStep)
ClientThread(t) ==
  \/ ClientOnly(ConnectReuse(t) \/ OpenFile(t) \/ Finish(t))
  \/ Connects(t) \/ IsRefused(t) \/ ClientSends(t) \/ ClientReceives(t)
  \/ ClientCancelled(t)

(* The user, or the end of the input, ends the client.                     *)
ClientEnds ==
  /\ typed <= MaxBeforeEnd \/ at["main"] # "wait"
  /\ ClientOnly(\/ Interrupt
                \/ at["writer"] = "type" /\ WriterEnds
                \/ \E p \in {"writer", "reader"} : PeerCancelled(p))

-----------------------------------------------------------------------------
(* The server.                                                             *)
ServerOnly(A) == A /\ UNCHANGED <<clientVars, tcpVars, history>>

(* A write to the control socket of a client that is gone.                 *)
ToClient(A) ==
  /\ A
  /\ killed' \in IF at["main"] = "exited" THEN BOOLEAN ELSE {FALSE}
  /\ UNCHANGED <<clientVars, tcpVars, hasty, mixed, unanswered, dropped>>

(* The handler reads what has arrived.  One put or get is a command;       *)
(* everything else has the wrong number of arguments, or is no command.    *)
HandlerReads ==
  \E k \in 1..Len(sent) :
    LET c == Head(sent)
        commands == {i \in 1..k : sent[i] # Report}
    IN /\ sent' = SubSeq(sent, k + 1, Len(sent))
       /\ \/ /\ k = 1 /\ c # Report
             /\ S!StartCommand(Other(DirectionOf(c.kind)), c.file)
             /\ UNCHANGED killed
          \/ /\ S!AnswerOther
             /\ inbox' = Append(inbox, Say(IF commands = {} THEN "failed" ELSE "text"))
             /\ killed' \in IF at["main"] = "exited" THEN BOOLEAN ELSE {FALSE}
       /\ UNCHANGED <<procVars, ftpVars, threadVars, userVars, tcpVars, hasty, mixed, unanswered, dropped>>

(* read returns 0.                                                         *)
HandlerLeaves ==
  /\ at["main"] = "exited" /\ sent = <<>>
  /\ ServerOnly(S!Disconnect)

ServerListens ==
  /\ S!SetupListens
  /\ opened' = opened + 1
  /\ s_ftp_socket' = opened'
  /\ UNCHANGED <<clientVars, link, wire, history>>

(* No listening socket can be had, and setup_ftp's error has no text.       *)
SetupFails ==
  /\ S!SetupFails
  /\ UNCHANGED s_fds
  /\ unanswered' = TRUE
  /\ UNCHANGED <<clientVars, inbox, tcpVars, hasty, mixed, dropped, killed>>

(* accept() returns a connection that waits; if several do, any of them.   *)
ServerAccepts(d) ==
  \E c \in Threads :
    /\ link[c] # Nil /\ link[c] = s_ftp_socket
    /\ S!Accept(d)
    /\ opened' = opened + 1
    /\ s_file_transfer_socket' = opened'
    /\ link' = [link EXCEPT ![c] = opened']
    /\ UNCHANGED <<clientVars, wire, history>>

AcceptFails(d) ==
  /\ ~Listening(s_ftp_socket)
  /\ ServerOnly(S!AcceptFails(d))

ServerSends ==
  /\ S!TransferEnds("SEND")
  /\ \E c \in Accepted :
       /\ ClientEnd(c) /\ s_serving["SEND"] \in Large => ClientReads(c)
       /\ Put(c, "RECV", s_serving["SEND"], ClientEnd(c))
  /\ UNCHANGED <<clientVars, link, opened, hasty, mixed, unanswered, dropped>>

ServerReceives ==
  /\ \E c \in Accepted :
       \/ /\ Gets(c, "SEND", s_serving["RECV"])
          /\ S!TransferEnds("RECV")
          /\ UNCHANGED <<failures, killed>>
       \/ /\ S!TransferFails
          /\ failures < MaxFailures
          /\ failures' = failures + 1
          /\ killed' \in IF at["main"] = "exited" THEN BOOLEAN ELSE {FALSE}
          /\ GetsOther(c, "SEND", s_serving["RECV"])
             \/ GetsEnd(c, "SEND", ClientEnd(c))
  /\ UNCHANGED <<procVars, ftpVars, threadVars, sent, typed, early, careless,
                 link, opened, hasty, unanswered, dropped>>

ServerCancelled(d) ==
  /\ S!Cancelled(d)
  /\ \/ UNCHANGED wire
     \/ /\ d = "SEND" /\ s_thread[d] = "transfer"
        /\ \E c \in Accepted : ClientEnd(c) /\ Put(c, "RECV", s_serving[d], TRUE)
  /\ UNCHANGED <<clientVars, link, opened, history>>

ServerHandler ==
  \/ HandlerReads \/ HandlerLeaves \/ ServerListens \/ SetupFails
  \/ ToClient(S!RefuseFile \/ S!Reply)
  \/ ServerOnly(S!CheckFtp \/ S!Prepare \/ S!SetupReuse \/ S!RaiseFlag \/ S!SpawnThread)
ServerThread(d) ==
  \/ ServerOnly(S!ConnectReuse(d) \/ S!ConnectAccepts(d) \/ S!OpenFile(d) \/ S!Finish(d))
  \/ ServerAccepts(d) \/ AcceptFails(d) \/ ServerCancelled(d)
  \/ d = "SEND" /\ ServerSends
  \/ d = "RECV" /\ ServerReceives

-----------------------------------------------------------------------------
(* Nothing is claimed after undefined behaviour, or without one of the     *)
(* processes; a server whose client has exited goes on.                    *)
Alive == ~killed /\ at["main"] # "undefined"
ClientRuns(A) == Alive /\ Running /\ A
ServerRuns(A) == Alive /\ A

SystemNext ==
  \/ ClientRuns(UserTypes \/ ClientWriter \/ ClientReader \/ ClientMain \/ ClientEnds
                \/ \E t \in Threads : ClientThread(t))
  \/ ServerRuns(ServerHandler \/ \E d \in Dir : ServerThread(d))

(* The threads of both processes are scheduled; the user need not type.    *)
SystemFairness ==
  /\ WF_systemVars(ClientRuns(ClientWriter)) /\ WF_systemVars(ClientRuns(ClientReader))
  /\ WF_systemVars(ClientRuns(ClientMain))
  /\ \A t \in Threads : WF_systemVars(ClientRuns(ClientThread(t)))
  /\ WF_systemVars(ServerRuns(ServerHandler))
  /\ \A d \in Dir : WF_systemVars(ServerRuns(ServerThread(d)))

SystemSpec == SystemInit /\ [][SystemNext]_systemVars /\ SystemFairness

-----------------------------------------------------------------------------
(* What holds.                                                             *)

(* The threads that serve a request at the two ends work on the same       *)
(* connection: the one the client's has made is the one that the server's  *)
(* has accepted, or that it is waiting for.                                *)
Where(d) == IF s_thread[d] = "accept" THEN s_ftp_socket ELSE s_file_transfer_socket

PairsMeet ==
  \A t \in Threads :
    LET d == Other(thread[t].dir)
    IN /\ thread[t].where \in {"open", "transfer"}
       /\ s_thread[d] \in {"accept", "open", "transfer"}
       /\ s_serving[d] = thread[t].want
       => file_transfer_socket # Nil /\ link[file_transfer_socket] = Where(d)

(* They do for a user who uses one direction at a time, whatever is        *)
(* cancelled, refused or fails on the way, until the client ends.          *)
OneDirectionMeets == ~hasty /\ at["main"] \in {"wait", "stop"} => PairsMeet

(* Such a user never gets bytes of one file in the place of another's.     *)
FilesAreApart == mixed => hasty

-----------------------------------------------------------------------------
(* The ways to wait for ever.  In the server, the handler is in            *)
(* pthread_join, for a thread that waits for the lock that the handler     *)
(* holds; or it waits for the lock, held by a thread that waits in accept  *)
(* for a client that does not come.                                        *)
HandlerStuck ==
  \/ S!JoinStuck
  \/ s_handler \in {"check", "setup"} /\ \E d \in Dir : s_thread[d] = "accept"

(* In the client, the writer or main is in pthread_join in the same way,   *)
(* or main waits for the lock that a cancelled writer has kept.            *)
ClientStuck ==
  \/ \E p \in {"writer", "main"}, t \in Threads :
       /\ at[p] = "join" /\ thread_id[dir[p]] = t
       /\ thread[t].where \in {"connect", "refused", "finish"}
  \/ at["main"] = "check" /\ clean_lock = "writer" /\ at["writer"] = "done"

(* Every get, put and disconnection is dealt with by the server, unless    *)
(* it ends up stuck, or dead.                                              *)
CommandsReturn ==
  \/ s_handler = "check" ~> (s_handler \in {"idle", "freed", "undefined"} \/ ~Alive)
  \/ <>[]HandlerStuck

(* A command that waits for its turn is sent, unless the one before gets   *)
(* no answer, the server is stuck, or a process dies or is ended.          *)
CommandsAreSent ==
  \/ at["writer"] = "lock" ~>
       (at["writer"] # "lock" \/ unanswered \/ at["main"] # "wait" \/ ~Alive)
  \/ <>[]HandlerStuck

(* A transfer that has been asked for ends on both sides, for a user who   *)
(* uses one direction at a time, unless the client is ended, a process is  *)
(* stuck, or the answer was lost behind the report that the previous       *)
(* transfer, which this one has replaced, has failed.                      *)
TransfersEnd ==
  \/ \A d \in Dir :
       s_active[Other(d)] \/ active[d] ~>
         (~s_active[Other(d)] /\ ~active[d]) \/ hasty \/ dropped
         \/ at["main"] # "wait" \/ ~Alive
  \/ <>[](HandlerStuck \/ ClientStuck)

(* stop_and_clean ends the process, unless main is stuck.                  *)
ClientExits ==
  \/ at["main"] = "stop" ~> (at["main"] = "exited" \/ ~Alive)
  \/ <>[]ClientStuck
=============================================================================
