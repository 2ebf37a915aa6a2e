-------------------------- MODULE FtpServerProofs --------------------------
(***************************************************************************)
(* Proofs about FtpServer, for every set of descriptors and requests and   *)
(* every bound: its type invariant, the safety invariants and that it      *)
(* implements SharedChannel.  All of them rest on one inductive invariant. *)
(***************************************************************************)
EXTENDS FtpServer, SequenceTheorems, TLAPS

(* clean_lock is held across a step only by a handler in pthread_join and  *)
(* by a thread in accept().                                                *)
LockHolder ==
  /\ clean_lock = "handler" <=> handler = "join"
  /\ \A d \in Dir : clean_lock = d <=> thread[d] = "accept"

(* The process never holds more unjoined threads than it can.              *)
ThreadsBounded == leaked \in Nat /\ ThreadsHeld <= MaxThreads

(* The flag of a direction covers its thread and its file.                 *)
FlagCovers == \A d \in Dir : thread[d] # "none" \/ ftp_file[d] => active[d]

(* What the handler relies on between two of its steps: from check_ftp to  *)
(* the flag its direction is at rest, and the path stays as it stored it.  *)
HandlerContext ==
  /\ handler \in {"prepare", "setup", "raise"} => ~active[type]
  /\ handler = "join" => active[type]
  /\ handler = "spawn" => active[type] /\ thread[type] = "none"
  /\ handler \in {"setup", "raise", "spawn"} => filepath[type] = request

(* thread_cleanup has dealt with SEND when it turns to RECV, and with both *)
(* when it frees the connection; no command runs once it has started.      *)
CleanupContext ==
  /\ leaving => handler \in {"check", "join", "freed", "undefined"}
  /\ leaving /\ handler \in {"check", "join"} /\ type = "RECV" => ~active["SEND"]
  /\ handler = "freed" => \A d \in Dir : ~active[d]

(* The data connection exists exactly while port_open says so, and then    *)
(* some transfer is flagged to close it.                                   *)
DataConnection ==
  /\ port_open => /\ file_transfer_socket \in Fds
                  /\ fds[file_transfer_socket] = "data"
                  /\ \E d \in Dir : active[d]
  /\ ~port_open => file_transfer_socket = Nil
  /\ \A f \in Fds : fds[f] = "data" => f = file_transfer_socket
  /\ \A d \in Dir : thread[d] \in {"open", "transfer"} => port_open
  /\ \A d \in Dir : thread[d] = "accept" => ~port_open

(* The inductive invariant.  The safety invariants are not inductive by    *)
(* themselves: that nobody closes the connection under a transfer depends  *)
(* on the flags, these on where the handler is, and that on the lock.      *)
IInv ==
  /\ TypeOK
  /\ ThreadsBounded
  /\ LockHolder
  /\ FlagCovers
  /\ HandlerContext
  /\ CleanupContext
  /\ DataConnection
  /\ TransferServesItsRequest

-----------------------------------------------------------------------------
USE DEF ftpVars, sockVars, cleanVars, idVars, threadVars, jobVars, handlerVars,
        Say, InUse, Gone, GivesLockBack, Refused

(* ftp_clean keeps the types of the fields it changes.                     *)
LEMMA CleanTypes ==
  ASSUME TypeOK, NEW d \in Dir, CleanFtp(d)
  PROVE  /\ active' \in [Dir -> BOOLEAN]
         /\ port_open' \in BOOLEAN
         /\ {ftp_port, file_transfer_socket}' \subseteq Fds \cup {Nil}
         /\ filepath' \in [Dir -> Requests \cup {Nil}]
         /\ ftp_file' \in [Dir -> BOOLEAN]
         /\ fds' \in [Fds -> Descriptors]
<1> USE DEF TypeOK
<1>1. active' \in [Dir -> BOOLEAN] /\ ftp_file' \in [Dir -> BOOLEAN]
  BY DEF CleanFtp
<1>2. filepath' \in [Dir -> Requests \cup {Nil}]
  BY DEF CleanFtp
<1>3. fds' \in [Fds -> Descriptors]
  <2>1. CASE LastTransfer(d)
    BY <2>1 DEF CleanFtp, CloseSockets, Descriptors
  <2>2. CASE ~LastTransfer(d)
    BY <2>2 DEF CleanFtp
  <2> QED
    BY <2>1, <2>2
<1>4. port_open' \in BOOLEAN /\ {ftp_port, file_transfer_socket}' \subseteq Fds \cup {Nil}
  BY DEF CleanFtp, CloseSockets
<1> QED
  BY <1>1, <1>2, <1>3, <1>4

(* Every step keeps the types.                                             *)
LEMMA TypeStep ==
  ASSUME TypeOK, ThreadsBounded, [Next]_vars
  PROVE  TypeOK'
<1> USE ConstantsAssumption DEF TypeOK, HandlerSteps, ThreadSteps, Descriptors, Message, Dir
<1>1. ASSUME NEW d \in Dir, NEW r \in Requests, StartCommand(d, r)
      PROVE  TypeOK'
  BY <1>1 DEF StartCommand
<1>2. CASE Disconnect
  BY <1>2 DEF Disconnect
<1>3. CASE AnswerOther
  <2>1. CASE Write("text", Nil, Nil)
    BY <1>3, <2>1 DEF AnswerOther, Write
  <2>2. CASE Write("failed", Nil, Nil)
    BY <1>3, <2>2 DEF AnswerOther, Write
  <2> QED
    BY <1>3, <2>1, <2>2 DEF AnswerOther
<1>4. CASE CheckNothingActive
  BY <1>4 DEF CheckNothingActive, AfterCheck
<1>5. CASE CheckCancels
  BY <1>5 DEF CheckCancels
<1>6. CASE CheckCancelsStray
  BY <1>6 DEF CheckCancelsStray
<1>7. CASE JoinReturns
  BY <1>7, CleanTypes DEF JoinReturns, AfterCheck
<1>8. CASE Prepare
  BY <1>8 DEF Prepare
<1>9. CASE RefuseFile
  BY <1>9 DEF RefuseFile, Write
<1>10. CASE SetupReuse
  BY <1>10 DEF SetupReuse
<1>11. CASE SetupListens
  BY <1>11 DEF SetupListens
<1>12. CASE SetupFails
  BY <1>12 DEF SetupFails
<1>13. CASE RaiseFlag
  BY <1>13 DEF RaiseFlag
<1>14. CASE SpawnThread
  BY <1>14 DEF SpawnThread, ThreadsHeld, Unjoined
<1>15. CASE SpawnFails
  BY <1>15 DEF SpawnFails, ThreadsBounded, ThreadsHeld, Unjoined
<1>16. CASE Reply
  BY <1>16 DEF Reply, Write
<1>17. ASSUME NEW d \in Dir, ConnectReuse(d)
      PROVE  TypeOK'
  BY <1>17 DEF ConnectReuse, Goto
<1>18. ASSUME NEW d \in Dir, ConnectAccepts(d)
      PROVE  TypeOK'
  BY <1>18 DEF ConnectAccepts, Goto
<1>19. ASSUME NEW d \in Dir, OpenFile(d)
      PROVE  TypeOK'
  <2>1. ftp_file' \in [Dir -> BOOLEAN]
    <3>1. ftp_file \in [Dir -> BOOLEAN]
      OBVIOUS
    <3>2. ftp_file' = [ftp_file EXCEPT ![d] = TRUE] \/ ftp_file' = ftp_file
      BY <1>19 DEF OpenFile
    <3> HIDE DEF TypeOK
    <3> QED
      BY <3>1, <3>2
  <2>2. thread' \in [Dir -> ThreadSteps]
    BY <1>19 DEF OpenFile, Goto
  <2> QED
    BY <1>19, <2>1, <2>2 DEF OpenFile
<1>20. ASSUME NEW d \in Dir, TransferEnds(d)
      PROVE  TypeOK'
  BY <1>20 DEF TransferEnds, Goto
<1>21. ASSUME NEW d \in Dir, Finish(d)
      PROVE  TypeOK'
  <2>1. thread' \in [Dir -> ThreadSteps]
    BY <1>21 DEF Finish, Goto
  <2> QED
    BY <1>21, <2>1, CleanTypes DEF Finish
<1>22. ASSUME NEW d \in Dir, Cancelled(d)
      PROVE  TypeOK'
  BY <1>22 DEF Cancelled, Goto, CancellationPoints
<1>23. ASSUME NEW d \in Dir, Accept(d)
      PROVE  TypeOK'
  BY <1>23 DEF Accept, Goto
<1>24. ASSUME NEW d \in Dir, AcceptFails(d)
      PROVE  TypeOK'
  BY <1>24 DEF AcceptFails, Goto
<1>25. CASE TransferFails
  BY <1>25 DEF TransferFails, Write, Goto
<1>26. CASE ClientReads
  <2>1. PICK k \in 1..Len(control) : control' = SubSeq(control, k + 1, Len(control))
    BY <1>26 DEF ClientReads
  <2>2. /\ control \in Seq(Message) /\ Len(control) \in Nat
        /\ \A i \in (k + 1)..Len(control) : control[i] \in Message
    <3>1. control \in Seq(Message) /\ Len(control) \in Nat
      BY LenProperties
    <3>2. \A i \in 1..Len(control) : control[i] \in Message
      BY <3>1, ElementOfSeq
    <3> HIDE DEF TypeOK, Message
    <3> QED
      BY <3>1, <3>2
  <2>3. control' \in Seq(Message) /\ Len(control') <= Len(control)
    BY <2>1, <2>2, SubSeqProperties
  <2> QED
    BY <1>26, <2>2, <2>3 DEF ClientReads
<1>27. ASSUME NEW f \in ForeignFds, OthersUseDescriptor(f)
      PROVE  TypeOK'
  BY <1>27 DEF OthersUseDescriptor
<1>28. CASE UNCHANGED vars
  BY <1>28 DEF vars
<1> QED
  BY <1>1, <1>2, <1>3, <1>4, <1>5, <1>6, <1>7, <1>8, <1>9, <1>10, <1>11, <1>12, <1>13, <1>14,
     <1>15, <1>16, <1>17, <1>18, <1>19, <1>20, <1>21, <1>22, <1>23, <1>24, <1>25, <1>26, <1>27, <1>28
     DEF Next, HandlerStep, CheckFtp, SetupFtp, ThreadStep, PeerConnects

(* pthread_create succeeds only while there is room for a thread, and a     *)
(* join makes room.                                                        *)
LEMMA ThreadsStep ==
  ASSUME TypeOK, ThreadsBounded, [Next]_vars
  PROVE  ThreadsBounded'
<1> USE ConstantsAssumption DEF ThreadsBounded, ThreadsHeld, Unjoined
<1>1. ASSUME NEW d \in Dir, NEW r \in Requests, StartCommand(d, r)
      PROVE  ThreadsBounded'
  BY <1>1 DEF StartCommand
<1>2. CASE Disconnect
  BY <1>2 DEF Disconnect
<1>3. CASE AnswerOther
  BY <1>3 DEF AnswerOther
<1>4. CASE CheckNothingActive
  BY <1>4 DEF CheckNothingActive
<1>5. CASE CheckCancels
  BY <1>5 DEF CheckCancels
<1>6. CASE CheckCancelsStray
  BY <1>6 DEF CheckCancelsStray
<1>7. CASE JoinReturns
  BY <1>7 DEF JoinReturns, TypeOK, Dir
<1>8. CASE Prepare
  BY <1>8 DEF Prepare
<1>9. CASE RefuseFile
  BY <1>9 DEF RefuseFile
<1>10. CASE SetupReuse
  BY <1>10 DEF SetupReuse
<1>11. CASE SetupListens
  BY <1>11 DEF SetupListens
<1>12. CASE SetupFails
  BY <1>12 DEF SetupFails
<1>13. CASE RaiseFlag
  BY <1>13 DEF RaiseFlag
<1>14. CASE SpawnThread
  BY <1>14 DEF SpawnThread, TypeOK, Dir
<1>15. CASE SpawnFails
  BY <1>15 DEF SpawnFails, TypeOK, Dir
<1>16. CASE Reply
  BY <1>16 DEF Reply
<1>17. ASSUME NEW d \in Dir, ConnectReuse(d)
      PROVE  ThreadsBounded'
  BY <1>17 DEF ConnectReuse
<1>18. ASSUME NEW d \in Dir, ConnectAccepts(d)
      PROVE  ThreadsBounded'
  BY <1>18 DEF ConnectAccepts
<1>19. ASSUME NEW d \in Dir, OpenFile(d)
      PROVE  ThreadsBounded'
  BY <1>19 DEF OpenFile
<1>20. ASSUME NEW d \in Dir, TransferEnds(d)
      PROVE  ThreadsBounded'
  BY <1>20 DEF TransferEnds
<1>21. ASSUME NEW d \in Dir, Finish(d)
      PROVE  ThreadsBounded'
  BY <1>21 DEF Finish
<1>22. ASSUME NEW d \in Dir, Cancelled(d)
      PROVE  ThreadsBounded'
  BY <1>22 DEF Cancelled
<1>23. ASSUME NEW d \in Dir, Accept(d)
      PROVE  ThreadsBounded'
  BY <1>23 DEF Accept
<1>24. ASSUME NEW d \in Dir, AcceptFails(d)
      PROVE  ThreadsBounded'
  BY <1>24 DEF AcceptFails
<1>25. CASE TransferFails
  BY <1>25 DEF TransferFails
<1>26. CASE ClientReads
  BY <1>26 DEF ClientReads
<1>27. ASSUME NEW f \in ForeignFds, OthersUseDescriptor(f)
      PROVE  ThreadsBounded'
  BY <1>27 DEF OthersUseDescriptor
<1>28. CASE UNCHANGED vars
  BY <1>28 DEF vars
<1> QED
  BY <1>1, <1>2, <1>3, <1>4, <1>5, <1>6, <1>7, <1>8, <1>9, <1>10, <1>11, <1>12, <1>13, <1>14,
     <1>15, <1>16, <1>17, <1>18, <1>19, <1>20, <1>21, <1>22, <1>23, <1>24, <1>25, <1>26, <1>27, <1>28
     DEF Next, HandlerStep, CheckFtp, SetupFtp, ThreadStep, PeerConnects

(* The lock has at most the holder the steps say.                          *)
LEMMA LockStep ==
  ASSUME TypeOK, LockHolder, HandlerContext, [Next]_vars
  PROVE  LockHolder'
<1> USE DEF LockHolder, HandlerContext, TypeOK, Dir
<1>1. ASSUME NEW d \in Dir, NEW r \in Requests, StartCommand(d, r)
      PROVE  LockHolder'
  BY <1>1 DEF StartCommand
<1>2. CASE Disconnect
  BY <1>2 DEF Disconnect
<1>3. CASE AnswerOther
  BY <1>3 DEF AnswerOther
<1>4. CASE CheckNothingActive
  BY <1>4 DEF CheckNothingActive, AfterCheck
<1>5. CASE CheckCancels
  BY <1>5 DEF CheckCancels
<1>6. CASE CheckCancelsStray
  BY <1>6 DEF CheckCancelsStray
<1>7. CASE JoinReturns
  BY <1>7 DEF JoinReturns, AfterCheck, CleanFtp, LastTransfer, CloseSockets, Other
<1>8. CASE Prepare
  BY <1>8 DEF Prepare
<1>9. CASE RefuseFile
  BY <1>9 DEF RefuseFile
<1>10. CASE SetupReuse
  BY <1>10 DEF SetupReuse
<1>11. CASE SetupListens
  BY <1>11 DEF SetupListens
<1>12. CASE SetupFails
  BY <1>12 DEF SetupFails
<1>13. CASE RaiseFlag
  BY <1>13 DEF RaiseFlag
<1>14. CASE SpawnThread
  BY <1>14 DEF SpawnThread
<1>15. CASE SpawnFails
  BY <1>15 DEF SpawnFails
<1>16. CASE Reply
  BY <1>16 DEF Reply
<1>17. ASSUME NEW d \in Dir, ConnectReuse(d)
      PROVE  LockHolder'
  BY <1>17 DEF ConnectReuse, Goto
<1>18. ASSUME NEW d \in Dir, ConnectAccepts(d)
      PROVE  LockHolder'
  BY <1>18 DEF ConnectAccepts, Goto
<1>19. ASSUME NEW d \in Dir, OpenFile(d)
      PROVE  LockHolder'
  BY <1>19 DEF OpenFile, Goto
<1>20. ASSUME NEW d \in Dir, TransferEnds(d)
      PROVE  LockHolder'
  BY <1>20 DEF TransferEnds, Goto
<1>21. ASSUME NEW d \in Dir, Finish(d)
      PROVE  LockHolder'
  BY <1>21 DEF Finish, CleanFtp, LastTransfer, CloseSockets, Other, Goto
<1>22. ASSUME NEW d \in Dir, Cancelled(d)
      PROVE  LockHolder'
  BY <1>22 DEF Cancelled, Goto, CancellationPoints
<1>23. ASSUME NEW d \in Dir, Accept(d)
      PROVE  LockHolder'
  BY <1>23 DEF Accept, Goto
<1>24. ASSUME NEW d \in Dir, AcceptFails(d)
      PROVE  LockHolder'
  BY <1>24 DEF AcceptFails, Goto
<1>25. CASE TransferFails
  BY <1>25 DEF TransferFails, Write, Goto
<1>26. CASE ClientReads
  BY <1>26 DEF ClientReads
<1>27. ASSUME NEW f \in ForeignFds, OthersUseDescriptor(f)
      PROVE  LockHolder'
  BY <1>27 DEF OthersUseDescriptor
<1>28. CASE UNCHANGED vars
  BY <1>28 DEF vars
<1> QED
  BY <1>1, <1>2, <1>3, <1>4, <1>5, <1>6, <1>7, <1>8, <1>9, <1>10, <1>11, <1>12, <1>13, <1>14,
     <1>15, <1>16, <1>17, <1>18, <1>19, <1>20, <1>21, <1>22, <1>23, <1>24, <1>25, <1>26, <1>27, <1>28
     DEF Next, HandlerStep, CheckFtp, SetupFtp, ThreadStep, PeerConnects

(* A flag comes down only with its thread gone and its file closed.        *)
LEMMA FlagStep ==
  ASSUME TypeOK, LockHolder, FlagCovers, HandlerContext, [Next]_vars
  PROVE  FlagCovers'
<1> USE DEF FlagCovers, LockHolder, HandlerContext, TypeOK, Dir
<1>1. ASSUME NEW d \in Dir, NEW r \in Requests, StartCommand(d, r)
      PROVE  FlagCovers'
  BY <1>1 DEF StartCommand
<1>2. CASE Disconnect
  BY <1>2 DEF Disconnect
<1>3. CASE AnswerOther
  BY <1>3 DEF AnswerOther
<1>4. CASE CheckNothingActive
  BY <1>4 DEF CheckNothingActive, AfterCheck
<1>5. CASE CheckCancels
  BY <1>5 DEF CheckCancels
<1>6. CASE CheckCancelsStray
  BY <1>6 DEF CheckCancelsStray
<1>7. CASE JoinReturns
  BY <1>7 DEF JoinReturns, AfterCheck, CleanFtp, LastTransfer, CloseSockets, Other
<1>8. CASE Prepare
  BY <1>8 DEF Prepare
<1>9. CASE RefuseFile
  BY <1>9 DEF RefuseFile
<1>10. CASE SetupReuse
  BY <1>10 DEF SetupReuse
<1>11. CASE SetupListens
  BY <1>11 DEF SetupListens
<1>12. CASE SetupFails
  BY <1>12 DEF SetupFails
<1>13. CASE RaiseFlag
  BY <1>13 DEF RaiseFlag
<1>14. CASE SpawnThread
  BY <1>14 DEF SpawnThread
<1>15. CASE SpawnFails
  BY <1>15 DEF SpawnFails
<1>16. CASE Reply
  BY <1>16 DEF Reply
<1>17. ASSUME NEW d \in Dir, ConnectReuse(d)
      PROVE  FlagCovers'
  BY <1>17 DEF ConnectReuse, Goto
<1>18. ASSUME NEW d \in Dir, ConnectAccepts(d)
      PROVE  FlagCovers'
  BY <1>18 DEF ConnectAccepts, Goto
<1>19. ASSUME NEW d \in Dir, OpenFile(d)
      PROVE  FlagCovers'
  BY <1>19 DEF OpenFile, Goto
<1>20. ASSUME NEW d \in Dir, TransferEnds(d)
      PROVE  FlagCovers'
  BY <1>20 DEF TransferEnds, Goto
<1>21. ASSUME NEW d \in Dir, Finish(d)
      PROVE  FlagCovers'
  BY <1>21 DEF Finish, CleanFtp, LastTransfer, CloseSockets, Other, Goto
<1>22. ASSUME NEW d \in Dir, Cancelled(d)
      PROVE  FlagCovers'
  BY <1>22 DEF Cancelled, Goto, CancellationPoints
<1>23. ASSUME NEW d \in Dir, Accept(d)
      PROVE  FlagCovers'
  BY <1>23 DEF Accept, Goto
<1>24. ASSUME NEW d \in Dir, AcceptFails(d)
      PROVE  FlagCovers'
  BY <1>24 DEF AcceptFails, Goto
<1>25. CASE TransferFails
  BY <1>25 DEF TransferFails, Write, Goto
<1>26. CASE ClientReads
  BY <1>26 DEF ClientReads
<1>27. ASSUME NEW f \in ForeignFds, OthersUseDescriptor(f)
      PROVE  FlagCovers'
  BY <1>27 DEF OthersUseDescriptor
<1>28. CASE UNCHANGED vars
  BY <1>28 DEF vars
<1> QED
  BY <1>1, <1>2, <1>3, <1>4, <1>5, <1>6, <1>7, <1>8, <1>9, <1>10, <1>11, <1>12, <1>13, <1>14,
     <1>15, <1>16, <1>17, <1>18, <1>19, <1>20, <1>21, <1>22, <1>23, <1>24, <1>25, <1>26, <1>27, <1>28
     DEF Next, HandlerStep, CheckFtp, SetupFtp, ThreadStep, PeerConnects

(* No step of a transfer thread takes from the handler what it relies on.  *)
LEMMA ContextStep ==
  ASSUME TypeOK, LockHolder, FlagCovers, HandlerContext, CleanupContext, [Next]_vars
  PROVE  HandlerContext'
<1> USE DEF HandlerContext, CleanupContext, FlagCovers, LockHolder, TypeOK, Dir
<1>1. ASSUME NEW d \in Dir, NEW r \in Requests, StartCommand(d, r)
      PROVE  HandlerContext'
  BY <1>1 DEF StartCommand
<1>2. CASE Disconnect
  BY <1>2 DEF Disconnect
<1>3. CASE AnswerOther
  BY <1>3 DEF AnswerOther
<1>4. CASE CheckNothingActive
  BY <1>4 DEF CheckNothingActive, AfterCheck
<1>5. CASE CheckCancels
  BY <1>5 DEF CheckCancels
<1>6. CASE CheckCancelsStray
  BY <1>6 DEF CheckCancelsStray
<1>7. CASE JoinReturns
  BY <1>7 DEF JoinReturns, AfterCheck, CleanFtp, LastTransfer, CloseSockets, Other
<1>8. CASE Prepare
  BY <1>8 DEF Prepare
<1>9. CASE RefuseFile
  BY <1>9 DEF RefuseFile
<1>10. CASE SetupReuse
  BY <1>10 DEF SetupReuse
<1>11. CASE SetupListens
  BY <1>11 DEF SetupListens
<1>12. CASE SetupFails
  BY <1>12 DEF SetupFails
<1>13. CASE RaiseFlag
  BY <1>13 DEF RaiseFlag
<1>14. CASE SpawnThread
  BY <1>14 DEF SpawnThread
<1>15. CASE SpawnFails
  BY <1>15 DEF SpawnFails
<1>16. CASE Reply
  BY <1>16 DEF Reply
<1>17. ASSUME NEW d \in Dir, ConnectReuse(d)
      PROVE  HandlerContext'
  BY <1>17 DEF ConnectReuse, Goto
<1>18. ASSUME NEW d \in Dir, ConnectAccepts(d)
      PROVE  HandlerContext'
  BY <1>18 DEF ConnectAccepts, Goto
<1>19. ASSUME NEW d \in Dir, OpenFile(d)
      PROVE  HandlerContext'
  BY <1>19 DEF OpenFile, Goto
<1>20. ASSUME NEW d \in Dir, TransferEnds(d)
      PROVE  HandlerContext'
  BY <1>20 DEF TransferEnds, Goto
<1>21. ASSUME NEW d \in Dir, Finish(d)
      PROVE  HandlerContext'
  BY <1>21 DEF Finish, CleanFtp, LastTransfer, CloseSockets, Other, Goto
<1>22. ASSUME NEW d \in Dir, Cancelled(d)
      PROVE  HandlerContext'
  BY <1>22 DEF Cancelled, Goto, CancellationPoints
<1>23. ASSUME NEW d \in Dir, Accept(d)
      PROVE  HandlerContext'
  BY <1>23 DEF Accept, Goto
<1>24. ASSUME NEW d \in Dir, AcceptFails(d)
      PROVE  HandlerContext'
  BY <1>24 DEF AcceptFails, Goto
<1>25. CASE TransferFails
  BY <1>25 DEF TransferFails, Write, Goto
<1>26. CASE ClientReads
  BY <1>26 DEF ClientReads
<1>27. ASSUME NEW f \in ForeignFds, OthersUseDescriptor(f)
      PROVE  HandlerContext'
  BY <1>27 DEF OthersUseDescriptor
<1>28. CASE UNCHANGED vars
  BY <1>28 DEF vars
<1> QED
  BY <1>1, <1>2, <1>3, <1>4, <1>5, <1>6, <1>7, <1>8, <1>9, <1>10, <1>11, <1>12, <1>13, <1>14,
     <1>15, <1>16, <1>17, <1>18, <1>19, <1>20, <1>21, <1>22, <1>23, <1>24, <1>25, <1>26, <1>27, <1>28
     DEF Next, HandlerStep, CheckFtp, SetupFtp, ThreadStep, PeerConnects

(* No transfer starts while thread_cleanup is at work.                     *)
LEMMA CleanupStep ==
  ASSUME TypeOK, CleanupContext, HandlerContext, [Next]_vars
  PROVE  CleanupContext'
<1> USE DEF CleanupContext, HandlerContext, TypeOK, Dir
<1>1. ASSUME NEW d \in Dir, NEW r \in Requests, StartCommand(d, r)
      PROVE  CleanupContext'
  BY <1>1 DEF StartCommand
<1>2. CASE Disconnect
  BY <1>2 DEF Disconnect
<1>3. CASE AnswerOther
  BY <1>3 DEF AnswerOther
<1>4. CASE CheckNothingActive
  BY <1>4 DEF CheckNothingActive, AfterCheck
<1>5. CASE CheckCancels
  BY <1>5 DEF CheckCancels
<1>6. CASE CheckCancelsStray
  BY <1>6 DEF CheckCancelsStray
<1>7. CASE JoinReturns
  BY <1>7 DEF JoinReturns, AfterCheck, CleanFtp, LastTransfer, CloseSockets, Other
<1>8. CASE Prepare
  BY <1>8 DEF Prepare
<1>9. CASE RefuseFile
  BY <1>9 DEF RefuseFile
<1>10. CASE SetupReuse
  BY <1>10 DEF SetupReuse
<1>11. CASE SetupListens
  BY <1>11 DEF SetupListens
<1>12. CASE SetupFails
  BY <1>12 DEF SetupFails
<1>13. CASE RaiseFlag
  BY <1>13 DEF RaiseFlag
<1>14. CASE SpawnThread
  BY <1>14 DEF SpawnThread
<1>15. CASE SpawnFails
  BY <1>15 DEF SpawnFails
<1>16. CASE Reply
  BY <1>16 DEF Reply
<1>17. ASSUME NEW d \in Dir, ConnectReuse(d)
      PROVE  CleanupContext'
  BY <1>17 DEF ConnectReuse, Goto
<1>18. ASSUME NEW d \in Dir, ConnectAccepts(d)
      PROVE  CleanupContext'
  BY <1>18 DEF ConnectAccepts, Goto
<1>19. ASSUME NEW d \in Dir, OpenFile(d)
      PROVE  CleanupContext'
  BY <1>19 DEF OpenFile, Goto
<1>20. ASSUME NEW d \in Dir, TransferEnds(d)
      PROVE  CleanupContext'
  BY <1>20 DEF TransferEnds, Goto
<1>21. ASSUME NEW d \in Dir, Finish(d)
      PROVE  CleanupContext'
  BY <1>21 DEF Finish, CleanFtp, LastTransfer, CloseSockets, Other, Goto
<1>22. ASSUME NEW d \in Dir, Cancelled(d)
      PROVE  CleanupContext'
  BY <1>22 DEF Cancelled, Goto, CancellationPoints
<1>23. ASSUME NEW d \in Dir, Accept(d)
      PROVE  CleanupContext'
  BY <1>23 DEF Accept, Goto
<1>24. ASSUME NEW d \in Dir, AcceptFails(d)
      PROVE  CleanupContext'
  BY <1>24 DEF AcceptFails, Goto
<1>25. CASE TransferFails
  BY <1>25 DEF TransferFails, Write, Goto
<1>26. CASE ClientReads
  BY <1>26 DEF ClientReads
<1>27. ASSUME NEW f \in ForeignFds, OthersUseDescriptor(f)
      PROVE  CleanupContext'
  BY <1>27 DEF OthersUseDescriptor
<1>28. CASE UNCHANGED vars
  BY <1>28 DEF vars
<1> QED
  BY <1>1, <1>2, <1>3, <1>4, <1>5, <1>6, <1>7, <1>8, <1>9, <1>10, <1>11, <1>12, <1>13, <1>14,
     <1>15, <1>16, <1>17, <1>18, <1>19, <1>20, <1>21, <1>22, <1>23, <1>24, <1>25, <1>26, <1>27, <1>28
     DEF Next, HandlerStep, CheckFtp, SetupFtp, ThreadStep, PeerConnects

(* The data connection is closed with the last flag and not earlier.       *)
LEMMA ConnectionStep ==
  ASSUME TypeOK, LockHolder, FlagCovers, HandlerContext, DataConnection, [Next]_vars
  PROVE  DataConnection'
<1> USE ConstantsAssumption DEF DataConnection, FlagCovers, LockHolder, HandlerContext, TypeOK, Dir
<1>1. ASSUME NEW d \in Dir, NEW r \in Requests, StartCommand(d, r)
      PROVE  DataConnection'
  BY <1>1 DEF StartCommand
<1>2. CASE Disconnect
  BY <1>2 DEF Disconnect
<1>3. CASE AnswerOther
  BY <1>3 DEF AnswerOther
<1>4. CASE CheckNothingActive
  BY <1>4 DEF CheckNothingActive, AfterCheck
<1>5. CASE CheckCancels
  BY <1>5 DEF CheckCancels
<1>6. CASE CheckCancelsStray
  BY <1>6 DEF CheckCancelsStray
<1>7. CASE JoinReturns
  BY <1>7 DEF JoinReturns, AfterCheck, CleanFtp, LastTransfer, CloseSockets, Other
<1>8. CASE Prepare
  BY <1>8 DEF Prepare
<1>9. CASE RefuseFile
  BY <1>9 DEF RefuseFile
<1>10. CASE SetupReuse
  BY <1>10 DEF SetupReuse
<1>11. CASE SetupListens
  BY <1>11 DEF SetupListens
<1>12. CASE SetupFails
  BY <1>12 DEF SetupFails
<1>13. CASE RaiseFlag
  BY <1>13 DEF RaiseFlag
<1>14. CASE SpawnThread
  BY <1>14 DEF SpawnThread
<1>15. CASE SpawnFails
  BY <1>15 DEF SpawnFails
<1>16. CASE Reply
  BY <1>16 DEF Reply
<1>17. ASSUME NEW d \in Dir, ConnectReuse(d)
      PROVE  DataConnection'
  BY <1>17 DEF ConnectReuse, Goto
<1>18. ASSUME NEW d \in Dir, ConnectAccepts(d)
      PROVE  DataConnection'
  BY <1>18 DEF ConnectAccepts, Goto
<1>19. ASSUME NEW d \in Dir, OpenFile(d)
      PROVE  DataConnection'
  BY <1>19 DEF OpenFile, Goto
<1>20. ASSUME NEW d \in Dir, TransferEnds(d)
      PROVE  DataConnection'
  BY <1>20 DEF TransferEnds, Goto
<1>21. ASSUME NEW d \in Dir, Finish(d)
      PROVE  DataConnection'
  BY <1>21 DEF Finish, CleanFtp, LastTransfer, CloseSockets, Other, Goto
<1>22. ASSUME NEW d \in Dir, Cancelled(d)
      PROVE  DataConnection'
  BY <1>22 DEF Cancelled, Goto, CancellationPoints
<1>23. ASSUME NEW d \in Dir, Accept(d)
      PROVE  DataConnection'
  BY <1>23 DEF Accept, Goto
<1>24. ASSUME NEW d \in Dir, AcceptFails(d)
      PROVE  DataConnection'
  BY <1>24 DEF AcceptFails, Goto
<1>25. CASE TransferFails
  BY <1>25 DEF TransferFails, Write, Goto
<1>26. CASE ClientReads
  BY <1>26 DEF ClientReads
<1>27. ASSUME NEW f \in ForeignFds, OthersUseDescriptor(f)
      PROVE  DataConnection'
  BY <1>27 DEF OthersUseDescriptor
<1>28. CASE UNCHANGED vars
  BY <1>28 DEF vars
<1> QED
  BY <1>1, <1>2, <1>3, <1>4, <1>5, <1>6, <1>7, <1>8, <1>9, <1>10, <1>11, <1>12, <1>13, <1>14,
     <1>15, <1>16, <1>17, <1>18, <1>19, <1>20, <1>21, <1>22, <1>23, <1>24, <1>25, <1>26, <1>27, <1>28
     DEF Next, HandlerStep, CheckFtp, SetupFtp, ThreadStep, PeerConnects

(* The path of a running thread is not overwritten before it is opened.    *)
LEMMA RequestStep ==
  ASSUME TypeOK, LockHolder, FlagCovers, HandlerContext, TransferServesItsRequest, [Next]_vars
  PROVE  TransferServesItsRequest'
<1> USE DEF TransferServesItsRequest, FlagCovers, HandlerContext, LockHolder, TypeOK, Dir
<1>1. ASSUME NEW d \in Dir, NEW r \in Requests, StartCommand(d, r)
      PROVE  TransferServesItsRequest'
  BY <1>1 DEF StartCommand
<1>2. CASE Disconnect
  BY <1>2 DEF Disconnect
<1>3. CASE AnswerOther
  BY <1>3 DEF AnswerOther
<1>4. CASE CheckNothingActive
  BY <1>4 DEF CheckNothingActive, AfterCheck
<1>5. CASE CheckCancels
  BY <1>5 DEF CheckCancels
<1>6. CASE CheckCancelsStray
  BY <1>6 DEF CheckCancelsStray
<1>7. CASE JoinReturns
  BY <1>7 DEF JoinReturns, AfterCheck, CleanFtp, LastTransfer, CloseSockets, Other
<1>8. CASE Prepare
  BY <1>8 DEF Prepare
<1>9. CASE RefuseFile
  BY <1>9 DEF RefuseFile
<1>10. CASE SetupReuse
  BY <1>10 DEF SetupReuse
<1>11. CASE SetupListens
  BY <1>11 DEF SetupListens
<1>12. CASE SetupFails
  BY <1>12 DEF SetupFails
<1>13. CASE RaiseFlag
  BY <1>13 DEF RaiseFlag
<1>14. CASE SpawnThread
  BY <1>14 DEF SpawnThread
<1>15. CASE SpawnFails
  BY <1>15 DEF SpawnFails
<1>16. CASE Reply
  BY <1>16 DEF Reply
<1>17. ASSUME NEW d \in Dir, ConnectReuse(d)
      PROVE  TransferServesItsRequest'
  BY <1>17 DEF ConnectReuse, Goto
<1>18. ASSUME NEW d \in Dir, ConnectAccepts(d)
      PROVE  TransferServesItsRequest'
  BY <1>18 DEF ConnectAccepts, Goto
<1>19. ASSUME NEW d \in Dir, OpenFile(d)
      PROVE  TransferServesItsRequest'
  BY <1>19 DEF OpenFile, Goto
<1>20. ASSUME NEW d \in Dir, TransferEnds(d)
      PROVE  TransferServesItsRequest'
  BY <1>20 DEF TransferEnds, Goto
<1>21. ASSUME NEW d \in Dir, Finish(d)
      PROVE  TransferServesItsRequest'
  BY <1>21 DEF Finish, CleanFtp, LastTransfer, CloseSockets, Other, Goto
<1>22. ASSUME NEW d \in Dir, Cancelled(d)
      PROVE  TransferServesItsRequest'
  BY <1>22 DEF Cancelled, Goto, CancellationPoints
<1>23. ASSUME NEW d \in Dir, Accept(d)
      PROVE  TransferServesItsRequest'
  BY <1>23 DEF Accept, Goto
<1>24. ASSUME NEW d \in Dir, AcceptFails(d)
      PROVE  TransferServesItsRequest'
  BY <1>24 DEF AcceptFails, Goto
<1>25. CASE TransferFails
  BY <1>25 DEF TransferFails, Write, Goto
<1>26. CASE ClientReads
  BY <1>26 DEF ClientReads
<1>27. ASSUME NEW f \in ForeignFds, OthersUseDescriptor(f)
      PROVE  TransferServesItsRequest'
  BY <1>27 DEF OthersUseDescriptor
<1>28. CASE UNCHANGED vars
  BY <1>28 DEF vars
<1> QED
  BY <1>1, <1>2, <1>3, <1>4, <1>5, <1>6, <1>7, <1>8, <1>9, <1>10, <1>11, <1>12, <1>13, <1>14,
     <1>15, <1>16, <1>17, <1>18, <1>19, <1>20, <1>21, <1>22, <1>23, <1>24, <1>25, <1>26, <1>27, <1>28
     DEF Next, HandlerStep, CheckFtp, SetupFtp, ThreadStep, PeerConnects

(* The initial state satisfies the inductive invariant.                    *)
LEMMA InitEstablishes == Init => IInv
<1> SUFFICES ASSUME Init PROVE IInv
  OBVIOUS
<1> USE ConstantsAssumption DEF Init, Dir
<1>1. TypeOK
  <2>1. control \in Seq(Message) /\ Len(control) <= MaxControl
    BY EmptySeq
  <2>2. leaked \in 0..MaxThreads
    OBVIOUS
  <2> QED
    BY <2>1, <2>2 DEF TypeOK, HandlerSteps, ThreadSteps, Descriptors
<1>2. ThreadsBounded
  BY DEF ThreadsBounded, ThreadsHeld, Unjoined
<1>3. LockHolder /\ FlagCovers /\ HandlerContext /\ CleanupContext
  BY DEF LockHolder, FlagCovers, HandlerContext, CleanupContext
<1>4. DataConnection /\ TransferServesItsRequest
  BY DEF DataConnection, TransferServesItsRequest
<1> QED
  BY <1>1, <1>2, <1>3, <1>4 DEF IInv

(* Every step preserves the inductive invariant.                           *)
LEMMA StepPreserves == IInv /\ [Next]_vars => IInv'
BY TypeStep, ThreadsStep, LockStep, FlagStep, ContextStep, CleanupStep,
   ConnectionStep, RequestStep DEF IInv

(* The inductive invariant holds in every reachable state.                 *)
THEOREM Inductive == Spec => []IInv
BY InitEstablishes, StepPreserves, PTL DEF Spec

(* Types are correct, and the bounds on threads and messages are kept.     *)
THEOREM TypeCorrect == Spec => []TypeOK
<1>1. IInv => TypeOK
  BY DEF IInv
<1> QED
  BY <1>1, Inductive, PTL

(* thread_cleanup never frees a connection that a transfer thread still    *)
(* uses, and leaves no data connection and no file open behind it.         *)
THEOREM CleanupIsComplete == Spec => []NoTransferOutlivesConnection
<1>1. IInv => NoTransferOutlivesConnection
  <2> SUFFICES ASSUME IInv, handler = "freed"
               PROVE  NoTransferOutlivesConnection
    BY DEF NoTransferOutlivesConnection
  <2>1. \A d \in Dir : ~active[d] /\ thread[d] = "none" /\ ~ftp_file[d]
    BY DEF IInv, FlagCovers, CleanupContext
  <2>2. ~port_open
    BY <2>1 DEF IInv, DataConnection
  <2>3. \A f \in Fds : fds[f] # "data"
    BY <2>2, ConstantsAssumption DEF IInv, DataConnection
  <2> QED
    BY <2>1, <2>2, <2>3 DEF NoTransferOutlivesConnection
<1> QED
  BY <1>1, Inductive, PTL

(* No transfer loses the data connection while it is using it.             *)
THEOREM TransfersKeepTheirSocket == Spec => []TransferHasItsSocket
<1>1. IInv => TransferHasItsSocket
  BY ConstantsAssumption DEF IInv, DataConnection, TransferHasItsSocket
<1> QED
  BY <1>1, Inductive, PTL

(* Every accepted connection and every opened file can still be closed.    *)
THEOREM NothingIsForgotten == Spec => []NoDataDescriptorLeak
<1>1. IInv => NoDataDescriptorLeak
  BY ConstantsAssumption DEF IInv, DataConnection, FlagCovers, NoDataDescriptorLeak
<1> QED
  BY <1>1, Inductive, PTL

(* A transfer thread opens the file it was spawned for.                    *)
THEOREM RequestsAreServed == Spec => []TransferServesItsRequest
<1>1. IInv => TransferServesItsRequest
  BY DEF IInv
<1> QED
  BY <1>1, Inductive, PTL

(* A direction never has two threads.                                      *)
THEOREM ThreadsAreReplaced == Spec => []OneThreadPerDirection
<1>1. IInv => OneThreadPerDirection
  BY DEF IInv, HandlerContext, OneThreadPerDirection
<1> QED
  BY <1>1, Inductive, PTL

-----------------------------------------------------------------------------
(* The refinement: flags are claims, and a thread uses the connection from *)
(* the moment connect_ftp_server has returned to it.                       *)
Claimed == {d \in Dir : active[d]}
Using   == {d \in Dir : thread[d] \in {"open", "transfer"}}

(* A step that changes neither flags nor port_open and lets no thread      *)
(* start to use the connection is a StopUse step, or a stuttering one.     *)
LEMMA QuietStep ==
  ASSUME Claimed' = Claimed, Using' \subseteq Using, port_open' = port_open
  PROVE  [Channel!Next]_(Channel!channelVars)
<1>1. Using' = Using \ (Using \ Using')
  OBVIOUS
<1>2. Channel!StopUse
  BY <1>1 DEF Channel!StopUse, Claimed, Using
<1> QED
  BY <1>2 DEF Channel!Next

(* The initial states of the engine are initial states of the channel.     *)
LEMMA ChannelInit == Init => Channel!Init
BY DEF Init, Channel!Init, Dir

(* ftp_clean releases the claim of its direction.                          *)
LEMMA CleanReleases ==
  ASSUME IInv, NEW d \in Dir, active[d], d \notin Using,
         CleanFtp(d), Using' = Using
  PROVE  Channel!Release(d)
<1> USE DEF IInv, TypeOK, Dir
<1>1. Claimed' = Claimed \ {d}
  BY DEF CleanFtp, Claimed
<1>2. port_open' = (port_open /\ Claimed' # {})
  <2>1. CASE ~active[Other(d)]
    <3>1. Claimed' = {}
      BY <2>1, <1>1 DEF Claimed, Other
    <3> QED
      BY <2>1, <3>1 DEF CleanFtp, LastTransfer, CloseSockets
  <2>2. CASE active[Other(d)]
    <3>1. Other(d) \in Claimed'
      BY <2>2, <1>1 DEF Claimed, Other
    <3> QED
      BY <2>2, <3>1 DEF CleanFtp, LastTransfer
  <2> QED
    BY <2>1, <2>2
<1>3. d \in Claimed \ Using
  BY DEF Claimed
<1> QED
  BY <1>1, <1>2, <1>3 DEF Channel!Release, Claimed, Using

(* Every step of the engine is a step of the channel, or changes nothing   *)
(* that the channel sees.                                                  *)
LEMMA ChannelStep ==
  ASSUME IInv, [Next]_vars
  PROVE  [Channel!Next]_(Channel!channelVars)
<1> USE DEF IInv, TypeOK, Dir
<1>1. ASSUME NEW d \in Dir, NEW r \in Requests, StartCommand(d, r)
      PROVE  [Channel!Next]_(Channel!channelVars)
  BY <1>1, QuietStep DEF StartCommand, Claimed, Using
<1>2. CASE Disconnect
  BY <1>2, QuietStep DEF Disconnect, Claimed, Using
<1>3. CASE AnswerOther
  BY <1>3, QuietStep DEF AnswerOther, Claimed, Using
<1>4. CASE CheckNothingActive
  BY <1>4, QuietStep DEF CheckNothingActive, Claimed, Using
<1>5. CASE CheckCancels
  BY <1>5, QuietStep DEF CheckCancels, Claimed, Using
<1>6. CASE CheckCancelsStray
  BY <1>6, QuietStep DEF CheckCancelsStray, Claimed, Using
<1>7. CASE JoinReturns
  <2>1. PICK d \in Dir : type = d
    OBVIOUS
  <2>2. Using' = Using /\ d \notin Using /\ active[d]
    BY <1>7, <2>1 DEF JoinReturns, HandlerContext, Using
  <2>3. Channel!Release(d)
    BY <1>7, <2>1, <2>2, CleanReleases DEF JoinReturns
  <2> QED
    BY <2>3 DEF Channel!Next
<1>8. CASE Prepare
  BY <1>8, QuietStep DEF Prepare, Claimed, Using
<1>9. CASE RefuseFile
  BY <1>9, QuietStep DEF RefuseFile, Claimed, Using
<1>10. CASE SetupReuse
  BY <1>10, QuietStep DEF SetupReuse, Claimed, Using
<1>11. CASE SetupListens
  BY <1>11, QuietStep DEF SetupListens, Claimed, Using
<1>12. CASE SetupFails
  BY <1>12, QuietStep DEF SetupFails, Claimed, Using
<1>13. CASE RaiseFlag
  <2>1. PICK d \in Dir : type = d
    OBVIOUS
  <2>2. Claimed' = Claimed \cup {d} /\ Using' = Using
    BY <1>13, <2>1 DEF RaiseFlag, Claimed, Using
  <2>3. d \notin Claimed
    BY <1>13, <2>1 DEF RaiseFlag, HandlerContext, Claimed
  <2>4. Channel!Claim(d)
    BY <1>13, <2>2, <2>3 DEF RaiseFlag, Channel!Claim, Claimed, Using
  <2> QED
    BY <2>4 DEF Channel!Next
<1>14. CASE SpawnThread
  BY <1>14, QuietStep DEF SpawnThread, Claimed, Using
<1>15. CASE SpawnFails
  BY <1>15, QuietStep DEF SpawnFails, Claimed, Using
<1>16. CASE Reply
  BY <1>16, QuietStep DEF Reply, Claimed, Using
<1>17. ASSUME NEW d \in Dir, ConnectReuse(d)
      PROVE  [Channel!Next]_(Channel!channelVars)
  <2>1. Claimed' = Claimed /\ Using' = Using \cup {d} /\ port_open'
    BY <1>17 DEF ConnectReuse, Goto, Claimed, Using
  <2>2. d \in Claimed \ Using
    BY <1>17 DEF ConnectReuse, FlagCovers, Claimed, Using
  <2>3. Channel!Use(d)
    BY <2>1, <2>2 DEF Channel!Use, Claimed, Using
  <2> QED
    BY <2>3 DEF Channel!Next
<1>18. ASSUME NEW d \in Dir, ConnectAccepts(d)
      PROVE  [Channel!Next]_(Channel!channelVars)
  BY <1>18, QuietStep DEF ConnectAccepts, Goto, Claimed, Using
<1>19. ASSUME NEW d \in Dir, OpenFile(d)
      PROVE  [Channel!Next]_(Channel!channelVars)
  BY <1>19, QuietStep DEF OpenFile, Goto, Claimed, Using
<1>20. ASSUME NEW d \in Dir, TransferEnds(d)
      PROVE  [Channel!Next]_(Channel!channelVars)
  BY <1>20, QuietStep DEF TransferEnds, Goto, Claimed, Using
<1>21. ASSUME NEW d \in Dir, Finish(d)
      PROVE  [Channel!Next]_(Channel!channelVars)
  <2>1. Using' = Using /\ d \notin Using /\ active[d]
    BY <1>21 DEF Finish, Goto, Using
  <2>2. Channel!Release(d)
    BY <1>21, <2>1, CleanReleases DEF Finish
  <2> QED
    BY <2>2 DEF Channel!Next
<1>22. ASSUME NEW d \in Dir, Cancelled(d)
      PROVE  [Channel!Next]_(Channel!channelVars)
  BY <1>22, QuietStep DEF Cancelled, Goto, Claimed, Using
<1>23. ASSUME NEW d \in Dir, Accept(d)
      PROVE  [Channel!Next]_(Channel!channelVars)
  <2>1. Claimed' = Claimed /\ Using' = Using \cup {d} /\ port_open'
    BY <1>23 DEF Accept, Goto, Claimed, Using
  <2>2. d \in Claimed \ Using
    BY <1>23 DEF Accept, FlagCovers, Claimed, Using
  <2>3. Channel!Use(d)
    BY <2>1, <2>2 DEF Channel!Use, Claimed, Using
  <2> QED
    BY <2>3 DEF Channel!Next
<1>24. ASSUME NEW d \in Dir, AcceptFails(d)
      PROVE  [Channel!Next]_(Channel!channelVars)
  BY <1>24, QuietStep DEF AcceptFails, Goto, Claimed, Using
<1>25. CASE TransferFails
  BY <1>25, QuietStep DEF TransferFails, Goto, Claimed, Using
<1>26. CASE ClientReads
  BY <1>26, QuietStep DEF ClientReads, Claimed, Using
<1>27. ASSUME NEW f \in ForeignFds, OthersUseDescriptor(f)
      PROVE  [Channel!Next]_(Channel!channelVars)
  BY <1>27, QuietStep DEF OthersUseDescriptor, Claimed, Using
<1>28. CASE UNCHANGED vars
  BY <1>28, QuietStep DEF vars, Claimed, Using
<1> QED
  BY <1>1, <1>2, <1>3, <1>4, <1>5, <1>6, <1>7, <1>8, <1>9, <1>10, <1>11, <1>12, <1>13, <1>14,
     <1>15, <1>16, <1>17, <1>18, <1>19, <1>20, <1>21, <1>22, <1>23, <1>24, <1>25, <1>26, <1>27, <1>28
     DEF Next, HandlerStep, CheckFtp, SetupFtp, ThreadStep, PeerConnects

(* The engine implements the shared connection: in particular the data     *)
(* connection stays open from the moment a transfer starts to use it until *)
(* the last flag comes down, and is closed in that very step.              *)
THEOREM Refinement == Spec => ImplementsSharedChannel
<1>1. Init => Channel!Init
  BY ChannelInit
<1>2. IInv /\ [Next]_vars => [Channel!Next]_(Channel!channelVars)
  BY ChannelStep
<1> QED
  BY <1>1, <1>2, Inductive, PTL DEF Spec, ImplementsSharedChannel, Channel!Spec
=============================================================================
