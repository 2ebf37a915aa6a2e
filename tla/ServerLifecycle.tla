-------------------------- MODULE ServerLifecycle --------------------------
(***************************************************************************)
(* The life of the server process: main reads its configuration, opens its *)
(* socket, accepts connections and registers each in                       *)
(* prog_data->connections; a thread per connection serves it and cleans up *)
(* when the client leaves; a signal runs stop(), which ends the threads    *)
(* and frees what is left.  The list is protected by vector_protect where  *)
(* the code takes it.  Of the transfers (module FtpServer) only what the   *)
(* end of a connection meets is kept: one transfer per connection, who     *)
(* holds its clean_lock, and whether it can be cancelled.                  *)
(***************************************************************************)
EXTENDS Naturals, Sequences

CONSTANTS
  Conns,        \* connections accepted in the life of the server
  NoConn,       \* not a connection
  MaxSignals    \* SIGINT and SIGTERM signals it receives

ASSUME LifecycleAssumption ==
  /\ NoConn \notin Conns
  /\ Conns \cap {"free", "main"} = {}
  /\ MaxSignals \in Nat

VARIABLES
  \* data_t
  slots,            \* buffer of the vector: its first size entries are in use
  size,
  vector_protect,   \* holder of the mutex: "free", "main" or a connection
  \* connection_t
  mem,              \* the structure: "none", "live" or "freed"
  username,         \* its user name, allocated apart, likewise
  tid,              \* does it hold the id of a thread that can be joined?
  transfer,         \* its transfer thread, see TransferSteps
  clean_lock,       \* "free", "transfer", "handler" or "main"
  \* threads
  main, adding,     \* where main is, and the connection it is setting up
  handler,          \* where the thread of a connection is
  cancelled,        \* has pthread_cancel been called for it?
  \* stop()
  stops,            \* how many stop() are on main's stack: one per kind of signal
  index, last, victim,
  \* what has happened
  signals,          \* signals received so far
  fault             \* an access whose outcome is undefined: "none" before it

listVars == <<slots, size, vector_protect>>
connVars == <<mem, username, tid>>
ftpVars  == <<transfer, clean_lock>>
mainVars == <<main, adding>>
loopVars == <<index, last, victim>>
stopVars == <<stops, loopVars>>
vars == <<listVars, connVars, ftpVars, mainVars, handler, cancelled, stopVars,
          signals, fault>>

StartSteps   == {"config", "socket", "mutex"}
MainSteps    == StartSteps \cup {"accept", "add", "push", "create", "scan",
                "cancelled", "joining", "check", "unhook", "free", "exited"}
HandlerSteps == {"none", "serve", "w", "check", "join", "remove", "erase", "name",
                 "close", "free", "exited"}
(* A transfer starts, waits for the client in accept() with clean_lock     *)
(* held, and moves the file; when it has been cancelled or killed it is    *)
(* gone, or stuck where it waits for clean_lock.                           *)
TransferSteps == {"none", "starting", "waiting", "moving", "gone", "stuck"}

Init ==
  /\ slots = <<>> /\ size = 0
  /\ vector_protect = "free"
  /\ mem = [c \in Conns |-> "none"]
  /\ username = [c \in Conns |-> "none"]
  /\ tid = [c \in Conns |-> FALSE]
  /\ transfer = [c \in Conns |-> "none"]
  /\ clean_lock = [c \in Conns |-> "free"]
  /\ main = "config" /\ adding = NoConn
  /\ handler = [c \in Conns |-> "none"]
  /\ cancelled = [c \in Conns |-> FALSE]
  /\ stops = 0
  /\ index = 0 /\ last = 0 /\ victim = NoConn
  /\ signals = 0
  /\ fault = "none"

(* The process takes steps until it exits or does something undefined.     *)
Running == main # "exited" /\ fault = "none"
Registered == {slots[i] : i \in 1..size}

(* cmd_w walks the list and reads the user names without vector_protect.   *)
Listing == {c \in Conns : handler[c] = "w"}
ChangeList == fault' = IF Listing = {} THEN fault ELSE "torn"

Lock == vector_protect = "free"
UnlockKeeps == UNCHANGED vector_protect  \* mutant: the mutex is not given back
Unlock == vector_protect' = "free"

-----------------------------------------------------------------------------
(* main: a step goes from one place to the next.                           *)
MainGoes(from, to) == main = from /\ main' = to
notMain == <<listVars, connVars, ftpVars, adding, handler, cancelled, stopVars, signals>>

(* parse_grass takes words out of each line without counting them.         *)
ParseGrass ==
  /\ \/ MainGoes("config", "socket") /\ UNCHANGED fault
     \/ main = "config" /\ fault' = "config" /\ UNCHANGED main
  /\ UNCHANGED notMain

(* init_server: setup_server_co may fail; what check_dir returns, and      *)
(* whether its mkdir succeeds, is not looked at.                           *)
InitServer ==
  /\ MainGoes("socket", "mutex") \/ MainGoes("socket", "exited")
  /\ UNCHANGED <<notMain, fault>>

InitMutex ==
  /\ MainGoes("mutex", "accept") \/ MainGoes("mutex", "exited")
  /\ UNCHANGED <<notMain, fault>>

(* Before accept_connections has installed stop() a signal ends the        *)
(* process.                                                                *)
SignalEarly ==
  /\ signals < MaxSignals
  /\ signals' = signals + 1
  /\ main \in StartSteps
  /\ main' = "exited"
  /\ UNCHANGED <<listVars, connVars, ftpVars, adding, handler, cancelled, stopVars,
                 fault>>

Accept(c) ==
  /\ MainGoes("accept", "add")
  /\ mem[c] = "none"
  /\ mem' = [mem EXCEPT ![c] = "live"]
  /\ username' = [username EXCEPT ![c] = "live"]
  /\ adding' = c
  /\ UNCHANGED <<listVars, tid, ftpVars, handler, cancelled, stopVars, signals,
                 fault>>

(* add_connection, called by init_connection.                              *)
LockToAdd ==
  /\ MainGoes("add", "push")
  /\ Lock
  /\ vector_protect' = "main"
  /\ UNCHANGED <<slots, size, connVars, ftpVars, adding, handler, cancelled,
                 stopVars, signals, fault>>

PushBack ==
  /\ MainGoes("push", "create")
  /\ slots' = [i \in 1..size+1 |-> IF i = size+1 THEN adding ELSE slots[i]]
  /\ size' = size + 1
  /\ ChangeList
  /\ Unlock
  /\ UNCHANGED <<connVars, ftpVars, adding, handler, cancelled, stopVars, signals>>

(* pthread_create, which may fail: its positive result is not taken for an *)
(* error, and the connection stays registered without a thread.            *)
CreateThread ==
  /\ MainGoes("create", "accept")
  /\ \/ /\ tid' = [tid EXCEPT ![adding] = TRUE]
        /\ handler' = [handler EXCEPT ![adding] = "serve"]
     \/ UNCHANGED <<tid, handler>>
  /\ adding' = NoConn
  /\ UNCHANGED <<listVars, mem, username, ftpVars, cancelled, stopVars, signals,
                 fault>>

-----------------------------------------------------------------------------
(* The thread of a connection: handle_client, thread_cleanup.              *)
Goes(c, from, to) == handler[c] = from /\ handler' = [handler EXCEPT ![c] = to]
notHandler == <<listVars, connVars, ftpVars, mainVars, cancelled, stopVars, signals,
                fault>>

(* A get or put starts a transfer thread.                                  *)
StartTransfer(c) ==
  /\ handler[c] = "serve"
  /\ transfer[c] = "none"
  /\ transfer' = [transfer EXCEPT ![c] = "starting"]
  /\ UNCHANGED <<listVars, connVars, clean_lock, mainVars, handler, cancelled,
                 stopVars, signals, fault>>

(* cmd_w; or the client closes its end, says exit, or a write to it fails. *)
Serves(c) ==
  /\ Goes(c, "serve", "w") \/ Goes(c, "serve", "check")
  /\ UNCHANGED notHandler

EndList(c) == Goes(c, "w", "serve") /\ UNCHANGED notHandler

(* check_ftp for both directions: nothing to do, or the transfer is        *)
(* cancelled, which it does not notice where it waits for clean_lock, and  *)
(* joined with clean_lock held.                                            *)
MustStopMoving(c) == transfer[c] = "moving"  \* mutant: the others are left
MustStop(c) == transfer[c] # "none"

CancelTransfer(c, by) ==
  /\ clean_lock' = [clean_lock EXCEPT ![c] = by]
  /\ \E end \in {"gone", "stuck"} :
       /\ transfer[c] \in {"gone", "stuck"} => end = transfer[c]
       /\ transfer' = [transfer EXCEPT ![c] = end]

JoinTransfer(c) ==
  /\ transfer[c] = "gone"
  /\ transfer' = [transfer EXCEPT ![c] = "none"]
  /\ clean_lock' = [clean_lock EXCEPT ![c] = "free"]

CheckTransfer(c) ==
  /\ clean_lock[c] = "free"
  /\ IF MustStop(c)
       THEN Goes(c, "check", "join") /\ CancelTransfer(c, "handler")
       ELSE Goes(c, "check", "remove") /\ UNCHANGED ftpVars
  /\ UNCHANGED <<listVars, connVars, mainVars, cancelled, stopVars, signals, fault>>

TransferJoined(c) ==
  /\ Goes(c, "join", "remove")
  /\ JoinTransfer(c)
  /\ UNCHANGED <<listVars, connVars, mainVars, cancelled, stopVars, signals, fault>>

LockToRemove(c) ==
  /\ Goes(c, "remove", "erase")
  /\ Lock
  /\ vector_protect' = c
  /\ UNCHANGED <<slots, size, connVars, ftpVars, mainVars, cancelled, stopVars,
                 signals, fault>>

(* erase(remove(...)) moves the later entries down; the buffer keeps its   *)
(* length, and its last entry in use keeps its value.                      *)
WithoutLast(c) == slots                  \* mutant: the last entry is dropped
Blanked(c) ==                            \* mutant: the entry is set to none
  [i \in 1..Len(slots) |-> IF slots[i] = c THEN NoConn ELSE slots[i]]
WithoutFirst(c) ==
  LET at == CHOOSE i \in 1..size : slots[i] = c
  IN  [i \in 1..Len(slots) |-> IF i >= at /\ i < size THEN slots[i+1] ELSE slots[i]]

Erase(c) ==
  /\ Goes(c, "erase", "name")
  /\ slots' = WithoutFirst(c)
  /\ size' = size - 1
  /\ ChangeList
  /\ Unlock
  /\ UNCHANGED <<connVars, ftpVars, mainVars, cancelled, stopVars, signals>>

FreeName(c) ==
  /\ Goes(c, "name", "close")
  /\ username' = [username EXCEPT ![c] = "freed"]
  /\ UNCHANGED <<listVars, mem, tid, ftpVars, mainVars, cancelled, stopVars,
                 signals, fault>>

CloseSocket(c) == Goes(c, "close", "free") /\ UNCHANGED notHandler

FreeConnection(c) ==
  /\ Goes(c, "free", "exited")
  /\ mem' = [mem EXCEPT ![c] = "freed"]
  /\ UNCHANGED <<listVars, username, tid, ftpVars, mainVars, cancelled, stopVars,
                 signals, fault>>

(* A pending pthread_cancel ends the thread at a system call; a mutex it   *)
(* holds stays locked.                                                     *)
JoinIsNoPoint == {"serve", "close"}      \* mutant of the next definition
CancellationPoints == {"serve", "join", "close"}

Cancelled(c) ==
  /\ cancelled[c]
  /\ \E step \in CancellationPoints : Goes(c, step, "exited")
  /\ UNCHANGED notHandler

-----------------------------------------------------------------------------
(* The transfer thread of a connection.                                    *)
TransferLocks(c) ==
  /\ transfer[c] = "starting"
  /\ clean_lock[c] = "free"
  /\ transfer' = [transfer EXCEPT ![c] = "waiting"]
  /\ clean_lock' = [clean_lock EXCEPT ![c] = "transfer"]
  /\ UNCHANGED <<listVars, connVars, mainVars, handler, cancelled, stopVars,
                 signals, fault>>

(* The client connects.                                                    *)
TransferMoves(c) ==
  /\ transfer[c] = "waiting"
  /\ transfer' = [transfer EXCEPT ![c] = "moving"]
  /\ clean_lock' = [clean_lock EXCEPT ![c] = "free"]
  /\ UNCHANGED <<listVars, connVars, mainVars, handler, cancelled, stopVars,
                 signals, fault>>

TransferEnds(c) ==
  /\ transfer[c] = "moving"
  /\ clean_lock[c] = "free"
  /\ transfer' = [transfer EXCEPT ![c] = "none"]
  /\ UNCHANGED <<listVars, connVars, clean_lock, mainVars, handler, cancelled,
                 stopVars, signals, fault>>

-----------------------------------------------------------------------------
(* SIGINT or SIGTERM runs stop() in whatever thread receives it.           *)
Signal == signals < MaxSignals /\ signals' = signals + 1

(* In any thread but main it ends that thread, which leaves its mutexes    *)
(* locked and its flag up.                                                 *)
SignalHandler(c) ==
  /\ Signal
  /\ \E step \in HandlerSteps \ {"none", "exited"} : Goes(c, step, "exited")
  /\ UNCHANGED <<listVars, connVars, ftpVars, mainVars, cancelled, stopVars, fault>>

SignalTransfer(c) ==
  /\ Signal
  /\ transfer[c] \notin {"none", "gone"}
  /\ transfer' = [transfer EXCEPT ![c] = "gone"]
  /\ UNCHANGED <<listVars, connVars, clean_lock, mainVars, handler, cancelled,
                 stopVars, fault>>

(* In main, wherever it is, stop() goes through the list from its          *)
(* beginning; only the same signal is blocked meanwhile.                   *)
SignalMain ==
  /\ Signal
  /\ main \notin StartSteps
  /\ stops < 2
  /\ stops' = stops + 1
  /\ main' = "scan"
  /\ index' = 1
  /\ last' = size
  /\ UNCHANGED <<listVars, connVars, ftpVars, adding, handler, cancelled, victim,
                 fault>>

(* Going on with freed memory, or with an id that is none, is undefined.   *)
StopGoes(from, to, uses, id) ==
  /\ main = from
  /\ fault' = IF "freed" \in uses THEN "freed" ELSE IF ~id THEN "stray" ELSE fault
  /\ main' = IF fault' = fault THEN to ELSE main

(* The next entry between the iterators the loop started with: its fields  *)
(* are printed and its thread is cancelled.                                *)
PastSoon == index >= last                \* mutant of the next definition
Past == index > last

StopCancels ==
  /\ main = "scan" /\ ~Past
  /\ victim' = slots[index]
  /\ StopGoes("scan", "cancelled", {mem[victim'], username[victim']}, tid[victim'])
  /\ cancelled' = [cancelled EXCEPT ![victim'] = @ \/ fault' = fault]
  /\ UNCHANGED <<listVars, connVars, ftpVars, adding, handler, stops, index, last,
                 signals>>

(* pthread_join is called with the id that is read from the connection ... *)
StopJoins ==
  /\ StopGoes("cancelled", "joining", {mem[victim]}, tid[victim])
  /\ UNCHANGED notMain

(* ... and after it has returned the user name is printed.                 *)
StopJoined ==
  /\ main = "joining" /\ handler[victim] = "exited"
  /\ StopGoes("joining", "check", {mem[victim], username[victim]}, TRUE)
  /\ tid' = [tid EXCEPT ![victim] = FALSE]
  /\ UNCHANGED <<listVars, mem, username, ftpVars, adding, handler, cancelled,
                 stopVars, signals>>

StopChecksTransfer ==
  /\ main = "check" /\ clean_lock[victim] = "free"
  /\ IF MustStop(victim)
       THEN MainGoes("check", "unhook") /\ CancelTransfer(victim, "main")
       ELSE MainGoes("check", "free") /\ UNCHANGED ftpVars
  /\ UNCHANGED <<listVars, connVars, adding, handler, cancelled, stopVars, signals,
                 fault>>

StopJoinsTransfer ==
  /\ MainGoes("unhook", "free")
  /\ JoinTransfer(victim)
  /\ UNCHANGED <<listVars, connVars, adding, handler, cancelled, stopVars, signals,
                 fault>>

(* The connection is freed, whoever may be listing its user name.          *)
StopFrees ==
  /\ MainGoes("free", "scan")
  /\ username' = [username EXCEPT ![victim] = "freed"]
  /\ mem' = [mem EXCEPT ![victim] = "freed"]
  /\ fault' = IF Listing = {} THEN fault ELSE "freed"
  /\ index' = index + 1
  /\ UNCHANGED <<listVars, tid, ftpVars, adding, handler, cancelled, stops, last,
                 victim, signals>>

StopExits ==
  /\ MainGoes("scan", "exited")
  /\ Past
  /\ slots' = <<>>
  /\ size' = 0
  /\ UNCHANGED <<vector_protect, connVars, ftpVars, adding, handler, cancelled,
                 stopVars, signals, fault>>

-----------------------------------------------------------------------------
Start == ParseGrass \/ InitServer \/ InitMutex
InitConnection == LockToAdd \/ PushBack \/ CreateThread
ThreadCleanup(c) ==
  \/ CheckTransfer(c) \/ TransferJoined(c) \/ LockToRemove(c) \/ Erase(c)
  \/ FreeName(c) \/ CloseSocket(c) \/ FreeConnection(c)
Stop == StopCancels \/ StopJoins \/ StopJoined \/ StopChecksTransfer
        \/ StopJoinsTransfer \/ StopFrees \/ StopExits

Next ==
  /\ Running
  /\ \/ Start \/ SignalEarly \/ InitConnection \/ Stop \/ SignalMain
     \/ \E c \in Conns :
          \/ Accept(c) \/ StartTransfer(c) \/ Serves(c) \/ EndList(c)
          \/ ThreadCleanup(c) \/ Cancelled(c)
          \/ TransferLocks(c) \/ TransferMoves(c) \/ TransferEnds(c)
          \/ SignalHandler(c) \/ SignalTransfer(c)

Spec == Init /\ [][Next]_vars

(* The scheduler lets every thread that can go on go on.  Clients need do  *)
(* nothing, not even connect for the transfers they have asked for.  A     *)
(* pending cancellation takes effect at one of the read and write calls    *)
(* between which the thread serves its client.                             *)
Fairness ==
  /\ WF_vars(Running /\ InitConnection)
  /\ WF_vars(Running /\ Stop)
  /\ \A c \in Conns :
       /\ WF_vars(Running /\ ThreadCleanup(c))
       /\ WF_vars(Running /\ EndList(c))
       /\ SF_vars(Running /\ Cancelled(c))
       /\ WF_vars(Running /\ TransferLocks(c))

FairSpec == Spec /\ Fairness

-----------------------------------------------------------------------------
(* What holds.                                                             *)

(* Every variable has the type of the field it stands for, and the vector  *)
(* uses no more of its buffer than it has.                                 *)
TypeOK ==
  /\ slots \in Seq(Conns) /\ size \in 0..Len(slots)
  /\ vector_protect \in {"free", "main"} \cup Conns
  /\ {mem, username} \subseteq [Conns -> {"none", "live", "freed"}]
  /\ tid \in [Conns -> BOOLEAN]
  /\ transfer \in [Conns -> TransferSteps]
  /\ clean_lock \in [Conns -> {"free", "transfer", "handler", "main"}]
  /\ main \in MainSteps /\ adding \in Conns \cup {NoConn}
  /\ handler \in [Conns -> HandlerSteps]
  /\ cancelled \in [Conns -> BOOLEAN]
  /\ stops \in 0..2
  /\ index \in Nat /\ last \in Nat /\ victim \in Conns \cup {NoConn}
  /\ signals \in 0..MaxSignals
  /\ fault \in {"none", "config", "freed", "torn", "stray"}

(* A connection is registered, once, as long as its thread may still need  *)
(* stop() to end it, and every registered connection can be dereferenced   *)
(* by w and by stop() until stop() frees it.                               *)
RegistryIsSound ==
  /\ main # "exited" => \A c \in Conns :
       handler[c] \in {"serve", "w", "check", "join", "remove", "erase"} =>
         c \in Registered /\ mem[c] = "live" /\ username[c] = "live"
  /\ \A i, j \in 1..size : slots[i] = slots[j] => i = j
  /\ stops = 0 =>
       \A c \in Registered : mem[c] = "live" /\ username[c] = "live"

(* The transfer thread of a connection works on its ftp_data_t: whoever    *)
(* frees the connection has stopped it before.                             *)
NoTransferOnFreedConnection ==
  \A c \in Conns : mem[c] = "freed" => transfer[c] = "none"

(* stop() leaves only when it has freed all that was registered, and no    *)
(* thread of these connections is left.                                    *)
StopFreesEverything ==
  [][stops > 0 /\ main' = "exited" =>
       \A c \in Registered :
         /\ mem[c] = "freed" /\ username[c] = "freed"
         /\ handler[c] = "exited" /\ transfer[c] = "none"]_vars

(* The transfer is in accept(), with clean_lock held, until its client     *)
(* connects, which no client has to do, and one that has left will not.    *)
AwaitsClient(c) == transfer[c] = "waiting"

(* A thread that starts to clean up frees its connection in the end: the   *)
(* two mutexes it needs on the way are given back by whoever holds them,   *)
(* as long as no signal arrives, the transfer does not hold clean_lock for *)
(* a client that keeps away, and the transfer it joins does not wait for   *)
(* the mutex it holds (NoJoinDeadlock of FtpServer).  A client that does   *)
(* connect ends the second exception: the thread is still at its check     *)
(* then, and from there its cleanup completes.                             *)
CleanupCompletes ==
  \A c \in Conns :
    handler[c] = "check" ~>
      \/ mem[c] = "freed" \/ fault # "none"
      \/ signals > 0 \/ AwaitsClient(c) \/ transfer[c] = "stuck"

(* Mutexes that nobody is left to give back: of a thread that was ended,   *)
(* or of main below its stop().                                            *)
LockIsLost(c) ==
  \/ clean_lock[c] = "handler" /\ handler[c] = "exited"
  \/ clean_lock[c] = "transfer" /\ transfer[c] = "gone"
ListIsLost ==
  \/ vector_protect = "main"
  \/ vector_protect \in Conns /\ handler[vector_protect] = "exited"

(* What stop() can wait for in vain, itself or in the thread it joins.     *)
StopIsStuck ==
  \/ /\ main = "joining"
     /\ \/ handler[victim] = "remove" /\ ListIsLost
        \/ handler[victim] = "check" /\ (LockIsLost(victim) \/ AwaitsClient(victim))
  \/ main = "check" /\ (LockIsLost(victim) \/ AwaitsClient(victim))
  \/ main = "unhook" /\ transfer[victim] = "stuck"

(* Once it is in stop() the server exits, wherever its threads were,       *)
(* unless stop() uses what is undefined, or waits for a mutex that is lost *)
(* or held for a client that does not connect.                             *)
StopEnds == stops > 0 ~> (main = "exited" \/ fault # "none" \/ StopIsStuck)

-----------------------------------------------------------------------------
(* What the documentation says and the code does not do.                   *)

(* exit.h says that stop() exits in a clean way and frees all memory: it   *)
(* goes on with a connection that its own thread frees, or frees the name  *)
(* that another thread is listing.                                         *)
NoUseOfFreedConnection == fault # "freed"
=============================================================================
