------------------------------ MODULE FtpServer ------------------------------
(***************************************************************************)
(* The file-transfer engine of one server connection: cmd_get, cmd_put and *)
(* thread_cleanup, run by the thread that serves the client (the handler), *)
(* and the two threads it spawns, ftp_thread_send and ftp_thread_recv.     *)
(* All of them work on the connection's ftp_data_t; clean_lock protects    *)
(* some of the accesses, and one data connection serves both directions.   *)
(* A step is a stretch of code between two points where another thread can *)
(* intervene: a lock section that cannot block is one step, an access made *)
(* without the lock is a step of its own.                                  *)
(***************************************************************************)
EXTENDS Naturals, Sequences

CONSTANTS
  Fds,          \* descriptor numbers the server process can use for sockets
  ForeignFds,   \* those of them that other connections open and close
  Requests,     \* distinct transfer requests (a file name and its size)
  Nil,          \* -1, NULL or an empty string
  MaxThreads,   \* unjoined transfer threads the process can hold
  MaxControl    \* messages the control socket buffers

ASSUME ConstantsAssumption ==
  /\ ForeignFds \subseteq Fds
  /\ Nil \notin Fds \cup Requests
  /\ MaxThreads \in Nat \ {0}
  /\ MaxControl \in Nat \ {0}

(* The direction of a transfer, as the server sees it: get sends, put      *)
(* receives.  d selects sending or receiving, send_id or recv_id, and so on. *)
Dir == {"SEND", "RECV"}
Other(d) == IF d = "SEND" THEN "RECV" ELSE "SEND"

VARIABLES
  \* ftp_data_t
  clean_lock,             \* holder of the mutex: "free", "handler" or a direction
  active,                 \* sending, receiving
  port_open,
  ftp_port,               \* announced port, named by its listening descriptor
  ftp_socket,             \* listening socket; never reset, so it can be stale
  file_transfer_socket,   \* data connection
  filepath,               \* filepath_send, filepath_recv (with the file size)
  ftp_file,               \* is ftp_file_send, ftp_file_recv open?
  thread_id,              \* send_id, recv_id: "unset", "joinable" or "joined"
  \* transfer threads
  thread,                 \* where each of them is; "none" when not running
  serving,                \* history: the request its thread was spawned for
  leaked,                 \* unjoined threads whose id has been overwritten
  \* handler thread
  handler,                \* where it is
  type,                   \* direction it is working on
  request,                \* transfer it has been asked for
  leaving,                \* is it in thread_cleanup?
  \* operating system
  fds,                    \* what each descriptor number is, see Descriptors
  control                 \* messages written to the control socket, unread

sockVars    == <<port_open, ftp_port, file_transfer_socket, fds>>
cleanVars   == <<active, filepath, ftp_file, sockVars>>
idVars      == <<thread_id, serving, leaked>>
threadVars  == <<thread, idVars>>
jobVars     == <<type, request, leaving>>
handlerVars == <<handler, jobVars>>
ftpVars     == <<clean_lock, cleanVars, ftp_socket>>
vars == <<ftpVars, threadVars, handlerVars, control>>

HandlerSteps == {"idle", "check", "join", "prepare", "setup", "raise", "spawn",
                 "reply", "freed", "undefined"}
ThreadSteps  == {"none", "connect", "accept", "open", "transfer", "finish"}
Descriptors  == {"free", "socket", "listener", "data", "other"}
Message      == [kind : {"put", "get", "text", "failed"}, port : Fds \cup {Nil},
                 file : Requests \cup {Nil}]

Init ==
  /\ clean_lock = "free"
  /\ active = [d \in Dir |-> FALSE]
  /\ port_open = FALSE
  /\ ftp_port = Nil
  /\ ftp_socket = Nil
  /\ file_transfer_socket = Nil
  /\ filepath = [d \in Dir |-> Nil]
  /\ ftp_file = [d \in Dir |-> FALSE]
  /\ thread_id = [d \in Dir |-> "unset"]
  /\ thread = [d \in Dir |-> "none"]
  /\ serving = [d \in Dir |-> Nil]
  /\ leaked = 0
  /\ handler = "idle"
  /\ type = "SEND"
  /\ request = Nil
  /\ leaving = FALSE
  /\ fds = [f \in Fds |-> "free"]
  /\ control = <<>>

(* A write to the control socket blocks while its buffer is full.          *)
Write(kind, port, file) ==
  /\ Len(control) < MaxControl
  /\ control' = Append(control, [kind |-> kind, port |-> port, file |-> file])
Say(kind) == Write(kind, Nil, Nil)

-----------------------------------------------------------------------------
(* ftp_clean for direction d, short of stopping the thread: its file is    *)
(* closed and its fields reset, and if the other direction is not in use   *)
(* both sockets are closed.  ftp_socket keeps the closed descriptor.       *)
LastTransferAlways(d) == TRUE    \* mutant: does not look at the other direction
LastTransferNever(d) == FALSE    \* mutant: leaves the sockets to the other one
LastTransfer(d) == ~active[Other(d)]
InUseNever(d) == FALSE           \* mutant: does not look at its own direction
InUse(d) == active[d]

CloseSockets ==
  /\ fds' = [f \in Fds |-> IF f \in {ftp_socket, file_transfer_socket}
                             THEN "free" ELSE fds[f]]
  /\ ftp_port' = Nil
  /\ file_transfer_socket' = Nil
  /\ port_open' = FALSE

CleanFtp(d) ==
  /\ active' = [active EXCEPT ![d] = FALSE]
  /\ ftp_file' = [ftp_file EXCEPT ![d] = FALSE]
  /\ filepath' = [filepath EXCEPT ![d] = Nil]
  /\ IF LastTransfer(d)
       THEN CloseSockets
       ELSE UNCHANGED sockVars

-----------------------------------------------------------------------------
(* The handler thread.                                                     *)

(* cmd_get or cmd_put is entered; each starts with check_ftp on its own    *)
(* direction.                                                              *)
StartCommand(d, r) ==
  /\ handler = "idle"
  /\ handler' = "check"
  /\ type' = d
  /\ request' = r
  /\ UNCHANGED <<ftpVars, threadVars, leaving, control>>

(* The client is gone: thread_cleanup checks SEND, then RECV.              *)
Disconnect ==
  /\ handler = "idle"
  /\ handler' = "check"
  /\ type' = "SEND"
  /\ leaving' = TRUE
  /\ UNCHANGED <<ftpVars, threadVars, request, control>>

(* Mutant of the next definition: RECV is not checked on the way out.      *)
AfterCheckOfSendOnly ==
  /\ IF ~leaving THEN handler' = "prepare" ELSE handler' = "freed"
  /\ UNCHANGED jobVars

(* check_ftp has returned: a command goes on with its own work,            *)
(* thread_cleanup with the other direction, then it frees the connection.  *)
AfterCheck ==
  /\ IF ~leaving THEN handler' = "prepare" /\ UNCHANGED type
     ELSE IF type = "SEND" THEN handler' = "check" /\ type' = "RECV"
     ELSE handler' = "freed" /\ UNCHANGED type
  /\ UNCHANGED <<request, leaving>>

(* check_ftp finds no transfer in its direction.                           *)
CheckNothingActive ==
  /\ handler = "check"
  /\ clean_lock = "free"
  /\ ~InUse(type)
  /\ AfterCheck
  /\ UNCHANGED <<ftpVars, threadVars, control>>

(* check_ftp finds one: it cancels the thread and joins it, with the lock  *)
(* held until the thread is gone.                                          *)
CheckCancels ==
  /\ handler = "check"
  /\ clean_lock = "free"
  /\ InUse(type)
  /\ thread_id[type] = "joinable"
  /\ clean_lock' = "handler"
  /\ handler' = "join"
  /\ UNCHANGED <<cleanVars, ftp_socket, threadVars, jobVars, control>>

(* The flag is up but the thread id designates no thread: cancelling and   *)
(* joining it is undefined, and nothing is claimed from there on.          *)
CheckCancelsStray ==
  /\ handler = "check"
  /\ clean_lock = "free"
  /\ InUse(type)
  /\ thread_id[type] # "joinable"
  /\ handler' = "undefined"
  /\ thread' = [d \in Dir |-> "none"]
  /\ UNCHANGED <<ftpVars, idVars, jobVars, control>>

GoneAtOnce(d) == TRUE            \* mutant: the cancelled thread is not joined
Gone(d) == thread[d] = "none"

(* pthread_join returns, ftp_clean does its work and the lock is released. *)
JoinReturns ==
  /\ handler = "join"
  /\ Gone(type)
  /\ thread_id' = [thread_id EXCEPT ![type] = "joined"]
  /\ CleanFtp(type)
  /\ clean_lock' = "free"
  /\ AfterCheck
  /\ UNCHANGED <<ftp_socket, thread, serving, leaked, control>>

(* The path and the size of the new transfer are stored.                   *)
Prepare ==
  /\ handler = "prepare"
  /\ filepath' = [filepath EXCEPT ![type] = request]
  /\ handler' = "setup"
  /\ UNCHANGED <<clean_lock, active, ftp_file, sockVars, ftp_socket, threadVars,
                 jobVars, control>>

(* Anything else the client sends is answered with a text: get refuses a   *)
(* name that is too long before it does anything else; the answer to a     *)
(* transfer that the client reports as failed is named apart.              *)
AnswerOther ==
  /\ handler = "idle"
  /\ Say("text") \/ Say("failed")
  /\ UNCHANGED <<ftpVars, threadVars, handlerVars>>

RefusedGoesOn == handler' = "setup"      \* mutant: no return after the refusal
Refused == handler' = "idle"

(* get refuses a path that is not a readable file after check_ftp, with    *)
(* the path already stored.                                                *)
RefuseFile ==
  /\ handler = "prepare"
  /\ type = "SEND"
  /\ filepath' = [filepath EXCEPT ![type] = request]
  /\ Say("text")
  /\ Refused
  /\ UNCHANGED <<clean_lock, active, ftp_file, sockVars, ftp_socket, threadVars,
                 jobVars>>

(* setup_ftp: a connection that is open is used again.                     *)
SetupReuse ==
  /\ handler = "setup"
  /\ clean_lock = "free"
  /\ port_open
  /\ handler' = "raise"
  /\ UNCHANGED <<ftpVars, threadVars, jobVars, control>>

(* setup_ftp: otherwise a new socket listens on a random port.             *)
SetupListens ==
  /\ handler = "setup"
  /\ clean_lock = "free"
  /\ ~port_open
  /\ \E f \in Fds :
       /\ fds[f] = "free"
       /\ fds' = [fds EXCEPT ![f] = "listener"]
       /\ ftp_port' = f
       /\ ftp_socket' = f
  /\ handler' = "raise"
  /\ UNCHANGED <<clean_lock, active, filepath, ftp_file, port_open,
                 file_transfer_socket, threadVars, jobVars, control>>

(* setup_server_co fails: in socket(), or later, and then the new socket   *)
(* stays open without listening.  The error has no text: no answer is sent. *)
SetupFails ==
  /\ handler = "setup"
  /\ clean_lock = "free"
  /\ ~port_open
  /\ \/ UNCHANGED fds
     \/ \E f \in Fds : fds[f] = "free" /\ fds' = [fds EXCEPT ![f] = "socket"]
  /\ handler' = "idle"
  /\ UNCHANGED <<clean_lock, active, filepath, ftp_file, port_open, ftp_port,
                 file_transfer_socket, ftp_socket, threadVars, jobVars, control>>

(* sending or receiving is set, without the lock.                          *)
RaiseFlag ==
  /\ handler = "raise"
  /\ active' = [active EXCEPT ![type] = TRUE]
  /\ handler' = "spawn"
  /\ UNCHANGED <<clean_lock, filepath, ftp_file, sockVars, ftp_socket, threadVars,
                 jobVars, control>>

(* pthread_create overwrites the id of the previous thread, which nobody   *)
(* can join any more.  It fails when the process has no room for another   *)
(* thread, and the result is not looked at; the id may be overwritten then *)
(* too, with one that designates no thread.                                *)
Unjoined(d) == IF thread_id[d] = "joinable" THEN 1 ELSE 0
ThreadsNamed == Unjoined("SEND") + Unjoined("RECV")   \* mutant: the named ones only
ThreadsHeld == leaked + Unjoined("SEND") + Unjoined("RECV")

SpawnThread ==
  /\ handler = "spawn"
  /\ ThreadsHeld < MaxThreads
  /\ thread' = [thread EXCEPT ![type] = "connect"]
  /\ thread_id' = [thread_id EXCEPT ![type] = "joinable"]
  /\ serving' = [serving EXCEPT ![type] = request]
  /\ leaked' = leaked + Unjoined(type)
  /\ handler' = "reply"
  /\ UNCHANGED <<ftpVars, jobVars, control>>

SpawnFails ==
  /\ handler = "spawn"
  /\ ThreadsHeld >= MaxThreads
  /\ \/ UNCHANGED <<thread_id, leaked>>
     \/ /\ thread_id' = [thread_id EXCEPT ![type] = "unset"]
        /\ leaked' = leaked + Unjoined(type)
  /\ handler' = "reply"
  /\ UNCHANGED <<ftpVars, thread, serving, jobVars, control>>

(* The client is told the port, and the size of the file if it gets one.   *)
(* Both are read without the lock; the message names the request that is   *)
(* answered, not its size, which the thread's own ftp_clean has zeroed if  *)
(* the connection was open and the thread is gone already: what a client   *)
(* makes of a size of 0 is in FileCopy.                                    *)
Reply ==
  /\ handler = "reply"
  /\ Write(IF type = "SEND" THEN "get" ELSE "put", ftp_port, request)
  /\ handler' = "idle"
  /\ UNCHANGED <<ftpVars, threadVars, jobVars>>

-----------------------------------------------------------------------------
(* A transfer thread, ftp_thread_send or ftp_thread_recv.                  *)

Goto(d, step) == thread' = [thread EXCEPT ![d] = step]

(* connect_ftp_server: the connection is there already ...                 *)
ConnectReuse(d) ==
  /\ thread[d] = "connect"
  /\ clean_lock = "free"
  /\ port_open
  /\ Goto(d, "open")
  /\ UNCHANGED <<ftpVars, idVars, handlerVars, control>>

(* ... or the thread waits in accept() with the lock held.                 *)
ConnectAccepts(d) ==
  /\ thread[d] = "connect"
  /\ clean_lock = "free"
  /\ ~port_open
  /\ clean_lock' = d
  /\ Goto(d, "accept")
  /\ UNCHANGED <<cleanVars, ftp_socket, idVars, handlerVars, control>>

(* A peer connects to the socket behind ftp_socket, whoever opened it.     *)
Accept(d) ==
  /\ thread[d] = "accept"
  /\ ftp_socket # Nil
  /\ fds[ftp_socket] \in {"listener", "other"}
  /\ \E f \in Fds :
       /\ fds[f] = "free"
       /\ fds' = [fds EXCEPT ![f] = "data"]
       /\ file_transfer_socket' = f
  /\ port_open' = TRUE
  /\ clean_lock' = "free"
  /\ Goto(d, "open")
  /\ UNCHANGED <<active, filepath, ftp_file, ftp_port, ftp_socket, idVars,
                 handlerVars, control>>

(* accept() fails, at the latest because its descriptor has been closed.   *)
AcceptFails(d) ==
  /\ thread[d] = "accept"
  /\ clean_lock' = "free"
  /\ Goto(d, "finish")
  /\ UNCHANGED <<cleanVars, ftp_socket, idVars, handlerVars, control>>

OpenFile(d) ==
  /\ thread[d] = "open"
  /\ \/ /\ ftp_file' = [ftp_file EXCEPT ![d] = TRUE]
        /\ Goto(d, "transfer")
     \/ UNCHANGED ftp_file /\ Goto(d, "finish")
  /\ UNCHANGED <<clean_lock, active, filepath, sockVars, ftp_socket, idVars,
                 handlerVars, control>>

(* do_ftp ends: all bytes have been moved, or an error it only logs.       *)
TransferEnds(d) ==
  /\ thread[d] = "transfer"
  /\ Goto(d, "finish")
  /\ UNCHANGED <<ftpVars, idVars, handlerVars, control>>

(* do_ftp received too few or too many bytes: it says so on the control    *)
(* socket, between whatever the handler writes there.                      *)
TransferFails ==
  /\ thread["RECV"] = "transfer"
  /\ Say("failed")
  /\ Goto("RECV", "finish")
  /\ UNCHANGED <<ftpVars, idVars, handlerVars>>

KeepsLock(d) == clean_lock' = d  \* mutant: pthread_exit with the lock held
GivesLockBack(d) == clean_lock' = "free"

(* check_ftp(ftp, d, false, true): the thread cleans up after itself and   *)
(* exits; it is not joined.                                                *)
Finish(d) ==
  /\ thread[d] = "finish"
  /\ clean_lock = "free"
  /\ active[d]
  /\ CleanFtp(d)
  /\ GivesLockBack(d)
  /\ Goto(d, "none")
  /\ UNCHANGED <<ftp_socket, idVars, handlerVars, control>>

(* The handler's pthread_cancel takes effect: at a system call that is a   *)
(* cancellation point, which taking a mutex is not.                        *)
CancellationPoints == {"accept", "open", "transfer"}

Cancelled(d) ==
  /\ handler = "join"
  /\ type = d
  /\ thread[d] \in CancellationPoints
  /\ Goto(d, "none")
  /\ UNCHANGED <<ftpVars, idVars, handlerVars, control>>

-----------------------------------------------------------------------------
(* The environment.                                                        *)

(* One read of the client takes some of the messages that have arrived.    *)
ClientReads ==
  /\ \E k \in 1..Len(control) : control' = SubSeq(control, k + 1, Len(control))
  /\ UNCHANGED <<ftpVars, threadVars, handlerVars>>

(* Other connections of the process share its descriptor numbers.          *)
OthersUseDescriptor(f) ==
  /\ \/ fds[f] = "free"  /\ fds' = [fds EXCEPT ![f] = "other"]
     \/ fds[f] = "other" /\ fds' = [fds EXCEPT ![f] = "free"]
  /\ UNCHANGED <<clean_lock, active, filepath, ftp_file, port_open, ftp_port,
                 file_transfer_socket, ftp_socket, threadVars, handlerVars,
                 control>>

-----------------------------------------------------------------------------
CheckFtp == CheckNothingActive \/ CheckCancels \/ CheckCancelsStray \/ JoinReturns
SetupFtp == SetupReuse \/ SetupListens \/ SetupFails
HandlerStep ==
  \/ CheckFtp \/ Prepare \/ RefuseFile
  \/ SetupFtp \/ RaiseFlag \/ SpawnThread \/ SpawnFails \/ Reply

PeerConnects(d) == Accept(d) \/ AcceptFails(d)
ThreadStep(d) ==
  \/ ConnectReuse(d) \/ ConnectAccepts(d) \/ OpenFile(d) \/ TransferEnds(d)
  \/ Finish(d) \/ Cancelled(d)

Next ==
  \/ \E d \in Dir, r \in Requests : StartCommand(d, r)
  \/ Disconnect
  \/ AnswerOther
  \/ HandlerStep
  \/ \E d \in Dir : ThreadStep(d) \/ PeerConnects(d)
  \/ TransferFails
  \/ ClientReads
  \/ \E f \in ForeignFds : OthersUseDescriptor(f)

Spec == Init /\ [][Next]_vars

-----------------------------------------------------------------------------
(* What holds.                                                             *)

(* Every variable has the type of the field it stands for, and the process *)
(* never holds more unjoined threads than it can.                          *)
TypeOK ==
  /\ clean_lock \in {"free", "handler"} \cup Dir
  /\ active \in [Dir -> BOOLEAN]
  /\ port_open \in BOOLEAN
  /\ {ftp_port, ftp_socket, file_transfer_socket} \subseteq Fds \cup {Nil}
  /\ filepath \in [Dir -> Requests \cup {Nil}]
  /\ ftp_file \in [Dir -> BOOLEAN]
  /\ thread_id \in [Dir -> {"unset", "joinable", "joined"}]
  /\ thread \in [Dir -> ThreadSteps]
  /\ serving \in [Dir -> Requests \cup {Nil}]
  /\ leaked \in 0..MaxThreads
  /\ handler \in HandlerSteps
  /\ type \in Dir
  /\ request \in Requests \cup {Nil}
  /\ leaving \in BOOLEAN
  /\ fds \in [Fds -> Descriptors]
  /\ control \in Seq(Message)
  /\ Len(control) <= MaxControl

(* thread_cleanup frees the connection only after both transfer threads    *)
(* have stopped using it, with their files and the data connection closed: *)
(* the threads hold a pointer into the freed memory.                       *)
NoTransferOutlivesConnection ==
  handler = "freed" =>
    /\ \A d \in Dir : thread[d] = "none" /\ ~active[d] /\ ~ftp_file[d]
    /\ ~port_open
    /\ \A f \in Fds : fds[f] # "data"

(* do_ftp reads file_transfer_socket without the lock: nobody closes or    *)
(* replaces the data connection under a thread that is using it.           *)
TransferHasItsSocket ==
  \A d \in Dir : thread[d] \in {"open", "transfer"} =>
    port_open /\ file_transfer_socket # Nil /\ fds[file_transfer_socket] = "data"

(* No accepted data connection and no opened file is forgotten: each is    *)
(* reachable from ftp_data_t while some transfer is flagged, so that the   *)
(* next ftp_clean closes it.                                               *)
NoDataDescriptorLeak ==
  /\ \A f \in Fds : fds[f] = "data" =>
       f = file_transfer_socket /\ \E d \in Dir : active[d]
  /\ \A d \in Dir : ftp_file[d] => active[d]

(* A thread opens the file of the request it was spawned for: a newer      *)
(* command stores its path in the same buffer, and does so only after the  *)
(* thread of the older one is gone.                                        *)
TransferServesItsRequest ==
  \A d \in Dir : thread[d] \in {"connect", "accept", "open"} =>
    filepath[d] = serving[d]

(* A direction never has two threads: pthread_create is reached only when  *)
(* the previous thread of the direction has ended.                         *)
OneThreadPerDirection == handler = "spawn" => thread[type] = "none"

(* The engine implements a connection that its transfers share.            *)
Channel == INSTANCE SharedChannel WITH
  Users   <- Dir,
  claimed <- {d \in Dir : active[d]},
  using   <- {d \in Dir : thread[d] \in {"open", "transfer"}},
  open    <- port_open

ImplementsSharedChannel == Channel!Spec

(* The handler waits in pthread_join, with clean_lock held, for a thread   *)
(* that waits for clean_lock: taking a mutex is not a cancellation point.  *)
JoinStuck == handler = "join" /\ thread[type] \in {"connect", "finish"}

-----------------------------------------------------------------------------
(* What the documentation says and the code does not do.                   *)

(* cmd.h says of get and put that a new request stops the current thread   *)
(* of its direction; the join it does that with can wait for ever.         *)
NoJoinDeadlock == ~JoinStuck

(* ftp.h says that setup_ftp leaves an active connection or a listening    *)
(* port, protected against races: it does so at the unlock, not until the  *)
(* flag that keeps the connection open is up.                              *)
ConnectionReadyAfterSetup ==
  handler = "raise" => ftp_port # Nil /\ fds[ftp_port] = "listener"
=============================================================================
