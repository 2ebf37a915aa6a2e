---------------------------- MODULE GrassClient ----------------------------
(***************************************************************************)
(* The client process: the writer sends what the user types, the reader    *)
(* treats what the server sends, transfer threads move files, and main     *)
(* waits for them and runs stop_and_clean.  client->lock is taken by the   *)
(* writer and released by the reader, to have one command under way at a   *)
(* time; clean_lock protects the client's ftp_data_t.                      *)
(* The server appears as what it answers; GrassSystem puts FtpServer there. *)
(***************************************************************************)
EXTENDS Naturals, Sequences, FiniteSets

CONSTANTS
  Files,         \* files that can be asked for
  Ports,         \* ports the server may announce
  Nil,           \* -1, NULL or an empty string
  MaxCommands,   \* commands the user types
  MaxTransfers,  \* of them, the first ones, whose answers may start transfers
  MaxFailures,   \* messages the server sends without being asked
  TransferNames  \* put and get, if users of the server are called so

ASSUME ConstantsAssumption ==
  /\ Nil \notin Files \cup Ports \cup Nat
  /\ MaxCommands \in Nat \ {0}
  /\ MaxTransfers \in 1..MaxCommands
  /\ MaxFailures \in Nat
  /\ TransferNames \subseteq {"put", "get"}

Dir == {"SEND", "RECV"}                  \* put sends, get receives
Other(d) == IF d = "SEND" THEN "RECV" ELSE "SEND"
Threads == 1..MaxTransfers               \* each comes from the answer to a command

VARIABLES
  \* client_t and its threads
  lock,          \* is client->lock taken?
  at,            \* where writer, reader and main are
  dir,           \* the direction writer and main are working on
  command,       \* what the writer is about to send
  message,       \* what the reader is treating
  \* ftp_data_t
  clean_lock,    \* its holder, if that can block, or "free"
  active,        \* sending, receiving
  port_open,
  ftp_port,
  file_transfer_socket,  \* data connection, named by the thread that made it
  filepath,      \* filepath_send, filepath_recv (with the size)
  thread_id,     \* send_id, recv_id: the latest thread, Nil if there is none
  thread,        \* the transfer threads, see Transfer
  unstarted,     \* history: did the last pthread_create of a direction fail?
  \* server and user
  sent,          \* what is under way to the server
  inbox,         \* messages under way from the server
  typed,         \* commands typed so far
  failures,      \* messages the server sent without being asked
  early,         \* history: reads that unlocked without an answer in them
  careless       \* history: has a command been typed before the last was dealt with,
                 \* or been answered like a transfer without being one?

procVars   == <<lock, at, dir, command, message>>
sockVars   == <<port_open, ftp_port, file_transfer_socket>>
ftpVars    == <<clean_lock, active, sockVars, filepath>>
idVars     == <<thread_id, unstarted>>
threadVars == <<idVars, thread>>
netVars    == <<sent, inbox>>
userVars   == <<typed, failures, early, careless>>
allButAt   == <<lock, dir, command, message, ftpVars, threadVars, netVars, userVars>>
vars == <<procVars, ftpVars, threadVars, netVars, userVars>>

(* "names" are the commands that may be answered with a user name (pass,   *)
(* w), or with any text; "other" are those behind the last transfer, which *)
(* are answered with a text.                                               *)
Command == [kind : {"put", "get", "names", "other", "report"}, file : Files \cup {Nil}]
Message == [kind : {"put", "get", "text", "failed"}, port : Ports \cup {Nil},
            file : Files \cup {Nil}]
Blank   == [kind |-> "other", file |-> Nil]
Report  == [kind |-> "report", file |-> Nil]     \* "Error:  file transfer failed."
Say(kind) == [kind |-> kind, port |-> Nil, file |-> Nil]
DirectionOf(kind) == IF kind = "put" THEN "SEND" ELSE "RECV"

(* A transfer thread: its direction, where it is, the file of the answer   *)
(* that made the reader spawn it, and the file it has opened.              *)
Transfer == [dir : Dir, where : {"none", "connect", "refused", "open",
             "transfer", "finish", "ended", "joined"},
             want : Files \cup {Nil}, file : Files \cup {Nil}]
Unborn == [dir |-> "SEND", where |-> "none", want |-> Nil, file |-> Nil]

Init ==
  /\ lock = FALSE
  /\ at = [writer |-> "type", reader |-> "read", main |-> "wait"]
  /\ dir = [writer |-> "SEND", main |-> "SEND"]
  /\ command = Blank /\ message = Say("text")
  /\ clean_lock = "free"
  /\ active = [d \in Dir |-> FALSE]
  /\ port_open = FALSE /\ ftp_port = Nil /\ file_transfer_socket = Nil
  /\ filepath = [d \in Dir |-> Nil]
  /\ thread_id = [d \in Dir |-> Nil]
  /\ thread = [t \in Threads |-> Unborn]
  /\ unstarted = [d \in Dir |-> FALSE]
  /\ sent = <<>> /\ inbox = <<>>
  /\ typed = 0 /\ failures = 0 /\ early = 0
  /\ careless = FALSE

(* The client does nothing after exit(), or after undefined behaviour.     *)
Running == at["main"] \notin {"exited", "undefined"}
Goto(p, step) == at' = [at EXCEPT ![p] = step]

-----------------------------------------------------------------------------
(* check_ftp and ftp_clean, called by the writer or by main with           *)
(* stop_threads set, and by a transfer thread at its end.                  *)
InUseNever(d) == FALSE                   \* mutant: no transfer is ever stopped
InUse(d) == active[d]

LastTransferNever(d) == FALSE            \* mutant: the connection is kept
LastTransfer(d) == ~active[Other(d)]

CleanFtp(d) ==
  /\ active' = [active EXCEPT ![d] = FALSE]
  /\ filepath' = [filepath EXCEPT ![d] = Nil]
  /\ IF LastTransfer(d)
       THEN port_open' = FALSE /\ ftp_port' = Nil /\ file_transfer_socket' = Nil
       ELSE UNCHANGED sockVars

AfterCheckStore(p) ==                    \* mutant: main goes on like the writer
  Goto(p, "store") /\ UNCHANGED dir

(* The writer goes on to store the path, main to the other direction.      *)
AfterCheck(p) ==
  CASE p = "writer" -> Goto(p, "store") /\ UNCHANGED dir
    [] p = "main" /\ dir[p] = "SEND" ->
         Goto(p, "check") /\ dir' = [dir EXCEPT ![p] = "RECV"]
    [] OTHER -> Goto(p, "exit") /\ UNCHANGED dir

CheckNothingActive(p) ==
  /\ at[p] = "check"
  /\ clean_lock = "free"
  /\ ~InUse(dir[p])
  /\ AfterCheck(p)
  /\ UNCHANGED <<lock, command, message, ftpVars, threadVars, netVars, userVars>>

CheckCancels(p) ==
  /\ at[p] = "check"
  /\ clean_lock = "free"
  /\ InUse(dir[p])
  /\ clean_lock' = p
  /\ Goto(p, "join")
  /\ UNCHANGED <<lock, dir, command, message, active, sockVars, filepath, threadVars,
                 netVars, userVars>>

(* A cancelled thread ends where it can block, unless it waits for         *)
(* clean_lock.                                                             *)
Cancelled(t) ==
  /\ \E p \in {"writer", "main"} : at[p] = "join" /\ thread_id[dir[p]] = t
  /\ thread[t].where \in {"open", "transfer"}
  /\ thread' = [thread EXCEPT ![t].where = "ended"]
  /\ UNCHANGED <<procVars, ftpVars, idVars, netVars, userVars>>

KeepsLock == UNCHANGED clean_lock        \* mutant: the lock is not given back
GivesLockBack == clean_lock' = "free"

JoinReturns(p) ==
  /\ at[p] = "join"
  /\ \E t \in Threads :
       /\ t = thread_id[dir[p]]
       /\ thread[t].where = "ended"
       /\ thread' = [thread EXCEPT ![t].where = "joined"]
  /\ CleanFtp(dir[p])
  /\ GivesLockBack
  /\ AfterCheck(p)
  /\ UNCHANGED <<lock, command, message, idVars, netVars, userVars>>

(* The flag is raised before the thread is created.                        *)
Joinable(d) == \E t \in Threads : thread_id[d] = t /\ thread[t].where # "joined"

JoinsNoThread(p) ==
  /\ at[p] = "join"
  /\ ~Joinable(dir[p])
  /\ Goto("main", "undefined")
  /\ UNCHANGED allButAt

-----------------------------------------------------------------------------
(* client_writer.                                                          *)

(* fgets returns.  A user may wait until the reader has dealt with the      *)
(* answer to the previous command, and type nothing once the client stops. *)
Dealt == /\ ~lock /\ at["reader"] = "read" /\ sent = <<>> /\ inbox = <<>>
         /\ at["main"] \in {"wait", "stop"}

Type(c, dealt) ==
  /\ at["writer"] = "type"
  /\ typed < MaxCommands
  /\ (c.kind = "other") = (typed >= MaxTransfers)
  /\ careless' = (careless \/ ~dealt)
  /\ typed' = typed + 1
  /\ command' = c
  /\ IF c.kind \in {"put", "get"}
       THEN /\ Goto("writer", "check")
            /\ dir' = [dir EXCEPT !["writer"] = DirectionOf(c.kind)]
       ELSE Goto("writer", "lock") /\ UNCHANGED dir
  /\ UNCHANGED <<lock, message, ftpVars, threadVars, netVars, failures, early>>

(* check_input stores the path without any lock.                           *)
Store ==
  /\ at["writer"] = "store"
  /\ filepath' = [filepath EXCEPT ![dir["writer"]] = command.file]
  /\ Goto("writer", "lock")
  /\ UNCHANGED <<lock, dir, command, message, clean_lock, active, sockVars,
                 threadVars, netVars, userVars>>

LockIgnored == TRUE                      \* mutant: the lock is not waited for
LockIsFree == ~lock

Lock ==
  /\ at["writer"] = "lock"
  /\ LockIsFree
  /\ lock' = TRUE
  /\ Goto("writer", "write")
  /\ UNCHANGED <<dir, command, message, ftpVars, threadVars, netVars, userVars>>

(* The command goes out, and the buffer is cleared for the next one.        *)
Write ==
  /\ at["writer"] = "write"
  /\ sent' = Append(sent, command)
  /\ command' = Blank
  /\ Goto("writer", "type")
  /\ UNCHANGED <<lock, dir, message, ftpVars, threadVars, inbox, userVars>>

(* The end of stdin, or an error of write: main gets SIGTERM.              *)
StopMain(p) ==
  at' = [at EXCEPT ![p] = "done",
                   !["main"] = IF @ = "wait" THEN "stop" ELSE @]

WriterEnds ==
  /\ at["writer"] \in {"type", "write"}
  /\ StopMain("writer")
  /\ UNCHANGED allButAt

-----------------------------------------------------------------------------
(* client_reader.  One read returns all that has arrived, and only its     *)
(* beginning is looked at.                                                 *)
IsAnswer(m) == m.kind # "failed"

Read(k) ==
  /\ at["reader"] = "read"
  /\ message' = inbox[1]
  /\ inbox' = SubSeq(inbox, k + 1, Len(inbox))
  /\ early' = IF \E i \in 1..k : IsAnswer(inbox[i]) THEN early ELSE early + 1
  /\ Goto("reader", IF inbox[1].kind \in {"put", "get"} THEN "flag" ELSE "unlock")
  /\ UNCHANGED <<lock, dir, command, ftpVars, threadVars, sent, typed, failures, careless>>

(* check_response stores the port, if a new connection is needed, and      *)
(* raises the flag, both under clean_lock ...                              *)
Flag ==
  /\ at["reader"] = "flag"
  /\ clean_lock = "free"
  /\ ftp_port' = IF port_open THEN ftp_port ELSE message.port
  /\ active' = [active EXCEPT ![DirectionOf(message.kind)] = TRUE]
  /\ Goto("reader", "spawn")
  /\ UNCHANGED <<lock, dir, command, message, clean_lock, port_open,
                 file_transfer_socket, filepath, threadVars, netVars, userVars>>

(* ... and creates the thread after it.                                    *)
StoreSendId(d, t) ==                     \* mutant: one id for both directions
  thread_id' = [thread_id EXCEPT !["SEND"] = t]
StoreId(d, t) == thread_id' = [thread_id EXCEPT ![d] = t]

Spawn ==
  /\ at["reader"] = "spawn"
  /\ \E t \in Threads :
       LET d == DirectionOf(message.kind)
       IN /\ thread[t].where = "none"
          /\ \A u \in 1..(t - 1) : thread[u].where # "none"
          /\ thread' = [thread EXCEPT ![t] = [dir |-> d, where |-> "connect",
                                             want |-> message.file, file |-> Nil]]
          /\ StoreId(d, t)
          /\ unstarted' = [unstarted EXCEPT ![d] = FALSE]
  /\ Goto("reader", "unlock")
  /\ UNCHANGED <<lock, dir, command, message, ftpVars, netVars, userVars>>

(* pthread_create fails, for one because threads that end by themselves    *)
(* are never joined; nobody looks at its result, and the id stays or is    *)
(* overwritten with that of no thread.                                     *)
SpawnFails ==
  /\ at["reader"] = "spawn"
  /\ LET d == DirectionOf(message.kind)
     IN /\ \E id \in {thread_id[d], Nil} : thread_id' = [thread_id EXCEPT ![d] = id]
        /\ unstarted' = [unstarted EXCEPT ![d] = TRUE]
  /\ Goto("reader", "unlock")
  /\ UNCHANGED <<lock, dir, command, message, ftpVars, thread, netVars, userVars>>

StaysLocked == lock /\ message.kind # "text"     \* mutant: only a text unlocks
LockAfterMessage == FALSE

(* Whatever the message was, the next command may go; the buffer is        *)
(* cleared for the next read.                                              *)
Unlock ==
  /\ at["reader"] = "unlock"
  /\ lock' = LockAfterMessage
  /\ message' = Say("text")
  /\ Goto("reader", "read")
  /\ UNCHANGED <<dir, command, ftpVars, threadVars, netVars, userVars>>

(* The connection is at its end: main gets SIGTERM.                        *)
ReaderEnds ==
  /\ at["reader"] = "read"
  /\ inbox = <<>>
  /\ StopMain("reader")
  /\ UNCHANGED allButAt

-----------------------------------------------------------------------------
(* ftp_thread_send and ftp_thread_recv.                                    *)
Move(t, step) == thread' = [thread EXCEPT ![t].where = step]

(* connect_ftp_client, under clean_lock: the connection is there already,  *)
(* is made, or is refused.                                                 *)
ConnectReuse(t) ==
  /\ thread[t].where = "connect"
  /\ clean_lock = "free"
  /\ port_open
  /\ Move(t, "open")
  /\ UNCHANGED <<procVars, ftpVars, idVars, netVars, userVars>>

ConnectOpens(t) ==
  /\ thread[t].where = "connect"
  /\ clean_lock = "free"
  /\ ~port_open
  /\ Move(t, "open")
  /\ port_open' = TRUE
  /\ file_transfer_socket' = t
  /\ UNCHANGED <<procVars, clean_lock, active, ftp_port, filepath, idVars,
                 netVars, userVars>>

ConnectRefused(t) ==
  /\ thread[t].where = "connect"
  /\ clean_lock = "free"
  /\ ~port_open
  /\ Move(t, "refused")
  /\ UNCHANGED <<procVars, ftpVars, idVars, netVars, userVars>>

(* The path is read from the shared buffer when the file is opened.        *)
OpenFile(t) ==
  /\ thread[t].where = "open"
  /\ \/ thread' = [thread EXCEPT ![t].where = "transfer",
                                 ![t].file = filepath[thread[t].dir]]
     \/ Move(t, "finish")
  /\ UNCHANGED <<procVars, ftpVars, idVars, netVars, userVars>>

(* do_ftp ends, with success or with an error that is only logged ...      *)
TransferEnds(t) ==
  /\ thread[t].where = "transfer"
  /\ Move(t, "finish")
  /\ UNCHANGED <<procVars, ftpVars, idVars, netVars, userVars>>

(* ... or it has received too few or too many bytes, and says so to the    *)
(* server, which takes it for a command.                                   *)
TransferFails(t) ==
  /\ thread[t].where = "transfer"
  /\ thread[t].dir = "RECV"
  /\ Move(t, "finish")
  /\ sent' = Append(sent, Report)
  /\ UNCHANGED <<procVars, ftpVars, idVars, inbox, userVars>>

(* check_ftp ends the thread if its direction is flagged; if it is not, a  *)
(* thread that was refused goes on to open the file, and one without a     *)
(* file goes on with NULL.                                                 *)
Finish(t) ==
  /\ thread[t].where \in {"refused", "finish"}
  /\ clean_lock = "free"
  /\ LET d == thread[t].dir
     IN \/ active[d] /\ CleanFtp(d) /\ Move(t, "ended") /\ UNCHANGED at
        \/ /\ ~active[d]
           /\ UNCHANGED <<active, filepath, sockVars>>
           /\ IF thread[t].where = "refused"
                THEN Move(t, "open") /\ UNCHANGED at
                ELSE IF thread[t].file = Nil
                THEN Goto("main", "undefined") /\ UNCHANGED thread
                ELSE Move(t, "ended") /\ UNCHANGED at
  /\ UNCHANGED <<lock, dir, command, message, clean_lock, idVars, netVars, userVars>>

-----------------------------------------------------------------------------
(* stop_and_clean, run by main: the reader and the writer are cancelled,   *)
(* both directions are checked, and the process exits.                     *)
MainGoes(from, to) ==
  /\ at["main"] = from
  /\ Goto("main", to)
  /\ UNCHANGED allButAt

Interrupt   == MainGoes("wait", "stop")
StopCancels == MainGoes("stop", "check")
StopExits   == MainGoes("exit", "exited")

(* The reader and the writer end in a call that can be cancelled; the      *)
(* writer may hold clean_lock there, which stays taken.                    *)
CancellationPoints ==
  [writer |-> {"type", "write", "join"}, reader |-> {"read"}]

PeerCancelled(p) ==
  /\ at["main"] \in {"check", "join", "exit"}
  /\ at[p] \in CancellationPoints[p]
  /\ Goto(p, "done")
  /\ UNCHANGED allButAt

-----------------------------------------------------------------------------
(* The server answers what it has read with a text or, if it was a put or   *)
(* get, with a port, Nil if the connection was closed while it was at it;   *)
(* an empty text is no message at all.  It takes a report for a command,   *)
(* and commands that arrive together for one: the first, with the others   *)
(* for its arguments.  A text that begins with the name of a user reads    *)
(* like a transfer's answer when that name is put or get, with a word      *)
(* where the port would be, of which atoi makes 0.                         *)
Posing == {<<Say(name)>> : name \in TransferNames}
Answers(s) ==
  LET c == Head(s)
      commands == {i \in DOMAIN s : s[i] # Report}
  IN IF c = Report THEN {<<Say(IF commands = {} THEN "failed" ELSE "text")>>}
     ELSE {<<>>, <<Say("text")>>} \cup
          (IF c.kind = "names" THEN Posing ELSE {}) \cup
          {<<[kind |-> c.kind, port |-> p, file |-> c.file]>> :
             p \in IF c.kind \in {"put", "get"} THEN Ports \cup {Nil} ELSE {}}

ServerAnswers(k) ==
  /\ sent' = SubSeq(sent, k + 1, Len(sent))
  /\ \E a \in Answers(SubSeq(sent, 1, k)) :
       /\ inbox' = inbox \o a
       /\ careless' = (careless \/ (sent[1].kind = "names" /\ a \in Posing))
  /\ UNCHANGED <<procVars, ftpVars, threadVars, typed, failures, early>>

(* do_ftp of the server reports a failed put when it notices: that can be   *)
(* before the client has read the answer to the put.                       *)
ServerReportsFailure ==
  /\ failures < MaxFailures
  /\ failures' = failures + 1
  /\ inbox' = Append(inbox, Say("failed"))
  /\ UNCHANGED <<procVars, ftpVars, threadVars, sent, typed, early, careless>>

-----------------------------------------------------------------------------
CheckFtp(p) == CheckNothingActive(p) \/ CheckCancels(p) \/ JoinReturns(p)
               \/ JoinsNoThread(p)
WriterStep == CheckFtp("writer") \/ Store \/ Lock \/ Write
ReaderStep == (\E k \in 1..Len(inbox) : Read(k)) \/ Flag \/ Spawn \/ SpawnFails
              \/ Unlock
ThreadStep(t) ==
  \/ ConnectReuse(t) \/ ConnectOpens(t) \/ ConnectRefused(t) \/ OpenFile(t)
  \/ TransferEnds(t) \/ TransferFails(t) \/ Finish(t) \/ Cancelled(t)
StopStep == StopCancels \/ CheckFtp("main") \/ StopExits
End == WriterEnds \/ ReaderEnds \/ Interrupt
       \/ \E p \in {"writer", "reader"} : PeerCancelled(p)
ServerStep == \E k \in 1..Len(sent) : ServerAnswers(k)

Typeable == {c \in Command :
  c.kind # "report" /\ (c.kind \in {"names", "other"}) = (c.file = Nil)}

Next ==
  \/ /\ Running
     /\ \/ \E c \in Typeable : Type(c, Dealt)
        \/ WriterStep \/ ReaderStep \/ StopStep \/ End
        \/ \E t \in Threads : ThreadStep(t)
  \/ ServerStep \/ ServerReportsFailure

Spec == Init /\ [][Next]_vars

-----------------------------------------------------------------------------
(* What holds.                                                             *)

(* Every variable has the type of the field it stands for.                 *)
TypeOK ==
  /\ lock \in BOOLEAN
  /\ at \in [writer : {"type", "check", "join", "store", "lock", "write", "done"},
             reader : {"read", "flag", "spawn", "unlock", "done"},
             main : {"wait", "stop", "check", "join", "exit", "exited", "undefined"}]
  /\ dir \in [writer : Dir, main : Dir]
  /\ command \in Command /\ message \in Message
  /\ clean_lock \in {"free", "writer", "main"}
  /\ active \in [Dir -> BOOLEAN] /\ port_open \in BOOLEAN
  /\ ftp_port \in Ports \cup {Nil} /\ file_transfer_socket \in Threads \cup {Nil}
  /\ filepath \in [Dir -> Files \cup {Nil}]
  /\ thread_id \in [Dir -> Threads \cup {Nil}]
  /\ thread \in [Threads -> Transfer]
  /\ unstarted \in [Dir -> BOOLEAN]
  /\ sent \in Seq(Command) /\ inbox \in Seq(Message)
  /\ {typed, failures, early} \subseteq Nat
  /\ careless \in BOOLEAN

RunningThreads(d) ==
  {t \in Threads : /\ thread[t].dir = d
                   /\ thread[t].where \notin {"none", "ended", "joined"}}

(* client->lock lets one command out at a time, and each message that is   *)
(* not an answer lets out at most one more: commands and answers under way *)
(* never exceed that.                                                      *)
HowMany(s, kinds) == Cardinality({i \in 1..Len(s) : s[i].kind \in kinds})
FewCommandsUnderWay ==
  HowMany(sent, {"put", "get", "names", "other"}) + HowMany(inbox, {"put", "get", "text"})
    <= 1 + early

(* The rest is promised to a user who waits until a command has been dealt *)
(* with and takes no name that is a command's, until stop_and_clean        *)
(* begins: it cancels the reader without waiting for its end.              *)
Calm == ~careless /\ at["main"] \in {"wait", "stop"}

(* A transfer thread opens the file of the answer it was spawned for: no   *)
(* later command has overwritten the path in between.                      *)
OpensTheFileAskedFor ==
  Calm => \A t \in Threads :
    thread[t].where = "transfer" => thread[t].file = thread[t].want

(* A direction never has two threads, and a thread that runs is flagged,   *)
(* so that the next command or stop_and_clean ends it.                     *)
ThreadsAreKnown ==
  Calm => \A d \in Dir : \A t \in RunningThreads(d) :
    active[d] /\ thread_id[d] = t

(* Only a thread that exists and has not been joined is joined, although   *)
(* flag, id and thread are set one by one.  The exception: when a thread   *)
(* could not be created, its flag is up and its id that of no thread, or   *)
(* of an earlier one.                                                      *)
JoinsAStartedThread ==
  Calm /\ at["writer"] = "join" =>
    Joinable(dir["writer"]) \/ unstarted[dir["writer"]]

-----------------------------------------------------------------------------
(* What the documentation says and the code does not do.                   *)

(* cmd.h says that a client cannot perform two simultaneous gets (puts),   *)
(* the thread of the first is stopped: that is decided when the command is *)
(* typed, while the thread it should stop may not have been created yet.   *)
NoSimultaneousTransfers ==
  \A d \in Dir : \A t, u \in RunningThreads(d) : t = u
=============================================================================
