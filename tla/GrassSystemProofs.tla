------------------------- MODULE GrassSystemProofs -------------------------
(***************************************************************************)
(* The client of GrassSystem is the one of GrassClient: whatever FtpServer *)
(* does with the commands is something that GrassClient expects of a       *)
(* server.  What has been proved of GrassClient then holds with the real   *)
(* server at the other end.                                                *)
(***************************************************************************)
EXTENDS GrassSystem, SequenceTheorems, TLAPS

(* A command that the handler is working on has not been answered yet: for *)
(* GrassClient it is still on its way.                                     *)
Unanswered ==
  IF s_handler = "idle" \/ s_leaving THEN sent
  ELSE <<[kind |-> IF s_type = "SEND" THEN "get" ELSE "put",
          file |-> s_request]>> \o sent

Client == INSTANCE GrassClientProofs WITH sent <- Unanswered

Server == INSTANCE FtpServerProofs WITH
  Fds <- Ports, ForeignFds <- {}, Requests <- Files,
  clean_lock <- s_clean_lock, active <- s_active, port_open <- s_port_open,
  ftp_port <- s_ftp_port, ftp_socket <- s_ftp_socket,
  file_transfer_socket <- s_file_transfer_socket, filepath <- s_filepath,
  ftp_file <- s_ftp_file, thread_id <- s_thread_id, thread <- s_thread,
  serving <- s_serving, leaked <- s_leaked, handler <- s_handler,
  type <- s_type, request <- s_request, leaving <- s_leaving, fds <- s_fds,
  control <- inbox

(* The client runs as GrassClient says, which has no server but only what  *)
(* one may answer, and the server as FtpServer says, which has no client   *)
(* but only what one may ask.                                              *)
ImplementsClient == Client!Spec
ImplementsServer == Server!Spec
PartsRunAsSpecified == ImplementsClient /\ ImplementsServer

-----------------------------------------------------------------------------
(* What the mapping needs: commands that are puts and gets, and a handler  *)
(* that answers nothing once the client is gone.                           *)
IsTransfer(c) == c.kind \in {"put", "get"} /\ c.file \in Files
Asks == {c \in Command : c = Report \/ IsTransfer(c)}

WriterAsks ==
  at["writer"] \in {"check", "join", "store", "lock", "write"} => IsTransfer(command)

HandlerServes ==
  /\ s_type \in Dir /\ s_leaving \in BOOLEAN
  /\ s_request \in Files \cup {Nil} /\ s_ftp_port \in Ports \cup {Nil}
  /\ s_leaving => s_handler \in {"check", "join", "freed", "undefined"}

LeavesLast == s_leaving => at["main"] = "exited"

Mapped ==
  /\ Client!TypeOK
  /\ sent \in Seq(Asks)
  /\ WriterAsks
  /\ HandlerServes
  /\ LeavesLast

handlerVars == <<s_handler, s_type, s_request, s_leaving>>

USE DEF idVars, Client!idVars

-----------------------------------------------------------------------------
LEMMA MappingKeeps ==
  ASSUME UNCHANGED <<sent, handlerVars>>
  PROVE  UNCHANGED Unanswered
BY DEF Unanswered, handlerVars

LEMMA MappingAppends ==
  ASSUME sent \in Seq(Asks), NEW c \in Asks, sent' = Append(sent, c),
         UNCHANGED handlerVars
  PROVE  Unanswered' = Append(Unanswered, c)
<1> DEFINE e == [kind |-> IF s_type = "SEND" THEN "get" ELSE "put", file |-> s_request]
<1>1. <<e>> \o Append(sent, c) = Append(<<e>> \o sent, c)
  OBVIOUS
<1> QED
  BY <1>1 DEF Unanswered, handlerVars

(* A step of the client alone, in terms of the mapped variables.           *)
LEMMA CheckMaps ==
  ASSUME NEW p \in {"writer", "main"}, CheckFtp(p), UNCHANGED handlerVars
  PROVE  Client!CheckFtp(p) /\ UNCHANGED sent
<1> USE DEF netVars, Client!netVars, Goto, Client!Goto, ftpVars, Client!ftpVars,
            threadVars, Client!threadVars, userVars, Client!userVars, sockVars,
            Client!sockVars, AfterCheck, Client!AfterCheck, InUse, Client!InUse
<1>1. UNCHANGED netVars
  BY DEF CheckFtp, CheckNothingActive, CheckCancels, JoinReturns, JoinsNoThread, allButAt
<1>2. UNCHANGED <<sent, Unanswered, inbox>>
  BY <1>1, MappingKeeps
<1>3. CASE CheckNothingActive(p)
  BY <1>2, <1>3 DEF CheckNothingActive, Client!CheckNothingActive, Client!CheckFtp
<1>4. CASE CheckCancels(p)
  BY <1>2, <1>4 DEF CheckCancels, Client!CheckCancels, Client!CheckFtp
<1>5. CASE JoinReturns(p)
  BY <1>2, <1>5 DEF JoinReturns, Client!JoinReturns, Client!CheckFtp, CleanFtp,
     Client!CleanFtp, LastTransfer, Client!LastTransfer, Other, Client!Other, Threads,
     Client!Threads, GivesLockBack, Client!GivesLockBack
<1>6. CASE JoinsNoThread(p)
  BY <1>2, <1>6 DEF JoinsNoThread, Client!JoinsNoThread, Client!CheckFtp, Joinable,
     Client!Joinable, Threads, Client!Threads, allButAt, Client!allButAt
<1> QED
  BY <1>2, <1>3, <1>4, <1>5, <1>6 DEF CheckFtp

LEMMA WriterMaps ==
  ASSUME Mapped, WriterStep, UNCHANGED handlerVars
  PROVE  Client!WriterStep /\ sent' \in Seq(Asks)
<1> USE DEF netVars, Client!netVars, Goto, Client!Goto, ftpVars, Client!ftpVars,
            threadVars, Client!threadVars, userVars, Client!userVars, sockVars,
            Client!sockVars, Client!WriterStep
<1>0. sent \in Seq(Asks)
  BY DEF Mapped
<1>1. CASE CheckFtp("writer")
  BY <1>0, <1>1, CheckMaps
<1>2. CASE Store
  <2>1. UNCHANGED <<sent, Unanswered, inbox>>
    BY <1>2, MappingKeeps DEF Store
  <2> QED
    BY <1>0, <1>2, <2>1 DEF Store, Client!Store
<1>3. CASE Lock
  <2>1. UNCHANGED <<sent, Unanswered, inbox>>
    BY <1>3, MappingKeeps DEF Lock
  <2> QED
    BY <1>0, <1>3, <2>1 DEF Lock, Client!Lock, LockIsFree, Client!LockIsFree
<1>4. CASE Write
  <2>1. command \in Asks
    BY <1>4 DEF Mapped, WriterAsks, Write, Asks, IsTransfer, Client!TypeOK,
       Client!Command, Command
  <2>2. Unanswered' = Append(Unanswered, command)
    BY <1>0, <1>4, <2>1, MappingAppends DEF Write
  <2>3. sent' \in Seq(Asks)
    BY <1>0, <1>4, <2>1, AppendProperties DEF Write
  <2> QED
    BY <1>4, <2>2, <2>3 DEF Write, Client!Write, Blank, Client!Blank
<1> QED
  BY <1>1, <1>2, <1>3, <1>4 DEF WriterStep

LEMMA ReaderMaps ==
  ASSUME ReaderStep, UNCHANGED handlerVars
  PROVE  Client!ReaderStep /\ UNCHANGED sent
<1> USE DEF netVars, Client!netVars, Goto, Client!Goto, ftpVars, Client!ftpVars,
            threadVars, Client!threadVars, userVars, Client!userVars, sockVars,
            Client!sockVars, DirectionOf, Client!DirectionOf, Client!ReaderStep
<1>1. UNCHANGED <<sent, Unanswered>>
  BY MappingKeeps DEF ReaderStep, Read, Flag, Spawn, SpawnFails, Unlock
<1>2. ASSUME NEW k \in 1..Len(inbox), Read(k) PROVE Client!Read(k)
  BY <1>1, <1>2 DEF Read, Client!Read, IsAnswer, Client!IsAnswer
<1>3. CASE Flag
  BY <1>1, <1>3 DEF Flag, Client!Flag
<1>4. CASE Spawn
  BY <1>1, <1>4 DEF Spawn, Client!Spawn, Threads, Client!Threads, StoreId, Client!StoreId
<1>5. CASE SpawnFails
  BY <1>1, <1>5 DEF SpawnFails, Client!SpawnFails
<1>6. CASE Unlock
  BY <1>1, <1>6 DEF Unlock, Client!Unlock, LockAfterMessage, Client!LockAfterMessage,
                    Say, Client!Say
<1> QED
  BY <1>1, <1>2, <1>3, <1>4, <1>5, <1>6 DEF ReaderStep

LEMMA ThreadMaps ==
  ASSUME Mapped, NEW t \in Threads, ThreadStep(t), UNCHANGED handlerVars
  PROVE  Client!ThreadStep(t) /\ sent' \in Seq(Asks)
<1> USE DEF netVars, Client!netVars, Goto, Client!Goto, Move, Client!Move, ftpVars,
            Client!ftpVars, procVars, Client!procVars, userVars, Client!userVars,
            sockVars, Client!sockVars, Client!ThreadStep
<1>0. sent \in Seq(Asks)
  BY DEF Mapped
<1>1. CASE TransferFails(t)
  <2>1. Report \in Asks
    BY DEF Report, Asks, Command
  <2>2. Unanswered' = Append(Unanswered, Report)
    BY <1>0, <1>1, <2>1, MappingAppends DEF TransferFails
  <2>3. sent' \in Seq(Asks)
    BY <1>0, <1>1, <2>1, AppendProperties DEF TransferFails
  <2> QED
    BY <1>1, <2>2, <2>3 DEF TransferFails, Client!TransferFails, Report, Client!Report
<1>2. CASE ~TransferFails(t)
  <2>1. UNCHANGED <<sent, Unanswered>>
    BY <1>2, MappingKeeps DEF ThreadStep, ConnectReuse, ConnectOpens, ConnectRefused,
       OpenFile, TransferEnds, Finish, Cancelled
  <2> SUFFICES Client!ThreadStep(t)
    BY <1>0, <2>1
  <2>2. CASE ConnectReuse(t) \/ ConnectOpens(t) \/ ConnectRefused(t)
    BY <2>1, <2>2 DEF ConnectReuse, Client!ConnectReuse, ConnectOpens,
       Client!ConnectOpens, ConnectRefused, Client!ConnectRefused
  <2>3. CASE OpenFile(t) \/ TransferEnds(t)
    BY <2>1, <2>3 DEF OpenFile, Client!OpenFile, TransferEnds, Client!TransferEnds
  <2>4. CASE Cancelled(t)
    BY <2>1, <2>4 DEF Cancelled, Client!Cancelled
  <2>5. CASE Finish(t)
    BY <2>1, <2>5 DEF Finish, Client!Finish, CleanFtp, Client!CleanFtp, LastTransfer,
                      Client!LastTransfer, Other, Client!Other
  <2> QED
    BY <1>2, <2>2, <2>3, <2>4, <2>5 DEF ThreadStep
<1> QED
  BY <1>1, <1>2

LEMMA MainMaps ==
  ASSUME StopStep, UNCHANGED handlerVars
  PROVE  Client!StopStep /\ UNCHANGED sent
<1>1. CASE StopCancels \/ StopExits
  <2>1. UNCHANGED <<sent, Unanswered>>
    BY <1>1, MappingKeeps DEF StopCancels, StopExits, MainGoes, allButAt, netVars
  <2> QED
    BY <1>1, <2>1 DEF StopCancels, Client!StopCancels, StopExits, Client!StopExits,
       MainGoes, Client!MainGoes, Goto, Client!Goto, allButAt, Client!allButAt, netVars,
       Client!netVars, ftpVars, Client!ftpVars, sockVars, Client!sockVars, threadVars,
       Client!threadVars, userVars, Client!userVars, Client!StopStep
<1>2. CASE CheckFtp("main")
  BY <1>2, CheckMaps DEF Client!StopStep
<1> QED
  BY <1>1, <1>2 DEF StopStep

LEMMA EndMaps ==
  ASSUME Interrupt \/ WriterEnds \/ (\E p \in {"writer", "reader"} : PeerCancelled(p)),
         UNCHANGED handlerVars
  PROVE  Client!End /\ UNCHANGED sent
<1>1. UNCHANGED <<sent, Unanswered>>
  BY MappingKeeps DEF Interrupt, WriterEnds, PeerCancelled, MainGoes, allButAt, netVars
<1> QED
  BY <1>1 DEF Interrupt, Client!Interrupt, WriterEnds, Client!WriterEnds, PeerCancelled,
     Client!PeerCancelled, CancellationPoints, Client!CancellationPoints, StopMain,
     Client!StopMain, MainGoes, Client!MainGoes, Goto, Client!Goto, allButAt,
     Client!allButAt, netVars, Client!netVars, ftpVars, Client!ftpVars, sockVars,
     Client!sockVars, threadVars, Client!threadVars, userVars, Client!userVars, Client!End

(* The user types a command, for a file that Files has.                    *)
LEMMA UserMaps ==
  ASSUME Mapped, UserTypes
  PROVE  /\ \E c \in Client!Typeable : Client!Type(c, Client!Dealt)
         /\ UNCHANGED <<sent, handlerVars>> /\ WriterAsks'
<1>1. PICK kind \in {"put", "get"} :
        Type([kind |-> kind, file |-> typed + 1], Dealt /\ s_handler = "idle")
  BY DEF UserTypes
<1> DEFINE c == [kind |-> kind, file |-> typed + 1]
<1>2. UNCHANGED <<sent, handlerVars, Unanswered>>
  BY <1>1, MappingKeeps DEF UserTypes, Type, serverVars, handlerVars, netVars
<1>3. typed \in Nat
  BY DEF Mapped, Client!TypeOK
<1>4. typed < MaxTransfers
  BY <1>1, <1>3, ConstantsAssumption DEF Type
<1>5. c \in Client!Typeable
  BY <1>3, <1>4, SystemAssumption, ConstantsAssumption DEF Client!Typeable, Client!Command
<1>6. Client!Dealt <=> (Dealt /\ s_handler = "idle")
  <2>1. ~s_leaving /\ sent \in Seq(Asks)
    BY DEF Mapped, LeavesLast, UserTypes
  <2>2. Unanswered = <<>> <=> (sent = <<>> /\ s_handler = "idle")
    BY <2>1 DEF Unanswered
  <2> QED
    BY <2>2 DEF Dealt, Client!Dealt
<1>7. Client!Type(c, Client!Dealt)
  BY <1>1, <1>2, <1>6 DEF Type, Client!Type, Goto, Client!Goto, netVars, Client!netVars,
     ftpVars, Client!ftpVars, sockVars, Client!sockVars, threadVars, Client!threadVars,
     DirectionOf, Client!DirectionOf
<1>8. WriterAsks'
  BY <1>1, <1>3, <1>4, SystemAssumption, ConstantsAssumption
  DEF WriterAsks, Type, IsTransfer
<1> QED
  BY <1>2, <1>5, <1>7, <1>8

-----------------------------------------------------------------------------
(* What the server does without a word to the client: the command it works *)
(* on stays the same.                                                      *)
Quiet ==
  \/ S!CheckFtp \/ S!Prepare \/ S!SetupReuse \/ S!SetupListens \/ S!RaiseFlag
  \/ S!SpawnThread \/ S!Disconnect
  \/ \E d \in Dir : \/ S!ConnectReuse(d) \/ S!ConnectAccepts(d) \/ S!OpenFile(d)
                    \/ S!Finish(d) \/ S!Accept(d) \/ S!AcceptFails(d) \/ S!Cancelled(d)
                    \/ S!TransferEnds(d)

LEMMA QuietMaps ==
  ASSUME HandlerServes, Quiet, UNCHANGED sent
  PROVE  UNCHANGED <<Unanswered, inbox>> /\ HandlerServes'
<1> USE DEF S!ftpVars, S!cleanVars, S!sockVars, S!threadVars, S!idVars, S!handlerVars,
            S!jobVars, HandlerServes, Unanswered, Dir
<1>1. CASE S!CheckFtp
  BY <1>1 DEF S!CheckFtp, S!CheckNothingActive, S!CheckCancels, S!CheckCancelsStray,
     S!JoinReturns, S!AfterCheck, S!CleanFtp, S!CloseSockets
<1>2. CASE S!Prepare \/ S!SetupReuse \/ S!SetupListens \/ S!RaiseFlag
  BY <1>2 DEF S!Prepare, S!SetupReuse, S!SetupListens, S!RaiseFlag
<1>3. CASE S!SpawnThread
  BY <1>3 DEF S!SpawnThread
<1>6. CASE S!Disconnect
  BY <1>6 DEF S!Disconnect
<1>4. ASSUME NEW d \in Dir,
             S!ConnectReuse(d) \/ S!ConnectAccepts(d) \/ S!OpenFile(d) \/ S!Accept(d)
             \/ S!AcceptFails(d) \/ S!Cancelled(d) \/ S!TransferEnds(d)
      PROVE  UNCHANGED <<Unanswered, inbox>> /\ HandlerServes'
  BY <1>4 DEF S!ConnectReuse, S!ConnectAccepts, S!OpenFile, S!Accept, S!AcceptFails,
     S!Cancelled, S!TransferEnds
<1>5. ASSUME NEW d \in Dir, S!Finish(d)
      PROVE  UNCHANGED <<Unanswered, inbox>> /\ HandlerServes'
  BY <1>5 DEF S!Finish, S!CleanFtp, S!CloseSockets
<1> QED
  BY <1>1, <1>2, <1>3, <1>4, <1>5, <1>6 DEF Quiet

(* The parts of a sequence that one read takes, and leaves.                *)
LEMMA FirstAndRest ==
  ASSUME NEW R, NEW s \in Seq(R), NEW e \in R
  PROVE  LET more == <<e>> \o s
         IN /\ more \in Seq(R) /\ 1 \in 1..Len(more)
            /\ SubSeq(more, 1, 1) = <<e>> /\ SubSeq(more, 2, Len(more)) = s
<1> DEFINE more == <<e>> \o s
           rest == SubSeq(more, 2, Len(more))
<1>1. /\ more \in Seq(R) /\ Len(more) = Len(s) + 1 /\ Len(s) \in Nat
      /\ more[1] = e /\ \A i \in 1..Len(s) : more[i + 1] = s[i]
  OBVIOUS
<1>2. rest \in Seq(R) /\ Len(rest) = Len(s) /\ \A i \in 1..Len(s) : rest[i] = s[i]
  <2>1. \A i \in 2..Len(more) : more[i] \in R
    BY <1>1, ElementOfSeq
  <2> HIDE DEF more
  <2> QED
    BY <1>1, <2>1, SubSeqProperties
<1>3. rest = s
  <2> HIDE DEF rest
  <2> QED
    BY <1>2, SeqEqual
<1>4. SubSeq(more, 1, 1) = <<e>>
  <2>1. \A i \in 1..1 : more[i] \in R
    BY <1>1
  <2>2. /\ SubSeq(more, 1, 1) \in Seq(R) /\ Len(SubSeq(more, 1, 1)) = 1
        /\ SubSeq(more, 1, 1)[1] = e
    <3> HIDE DEF more
    <3> QED
      BY <1>1, <2>1, SubSeqProperties
  <2>3. <<e>> \in Seq(R) /\ Len(<<e>>) = 1 /\ <<e>>[1] = e
    OBVIOUS
  <2> DEFINE first == SubSeq(more, 1, 1)
             only == <<e>>
  <2>4. \A i \in 1..Len(first) : first[i] = only[i]
    BY <2>2, <2>3
  <2> HIDE DEF first, only
  <2> QED
    BY <2>2, <2>3, <2>4, SeqEqual DEF first, only
<1> QED
  BY <1>1, <1>3, <1>4

LEMMA WholeOfParts ==
  ASSUME NEW R, NEW s \in Seq(R), Len(s) >= 1
  PROVE  s[1] \in R /\ Head(s) = s[1] /\ s = <<s[1]>> \o SubSeq(s, 2, Len(s))
  OBVIOUS

(* The handler is done with a command, and has written at most one message. *)
LEMMA HandlerAnswers ==
  ASSUME Mapped, s_handler # "idle", ~s_leaving,
         s_handler' = "idle", UNCHANGED <<s_leaving, clientVars>>,
         LET c == [kind |-> IF s_type = "SEND" THEN "get" ELSE "put", file |-> s_request]
         IN \E a \in Client!Answers(<<c>>) : inbox' = inbox \o a
  PROVE  Client!ServerStep
<1> DEFINE c == [kind |-> IF s_type = "SEND" THEN "get" ELSE "put", file |-> s_request]
<1>1. sent \in Seq(Command) /\ c \in Command
  <2>1. sent \in Seq(Asks) /\ Asks \subseteq Command
    BY DEF Mapped, Asks
  <2>2. s_request \in Files \cup {Nil}
    BY DEF Mapped, HandlerServes
  <2> QED
    BY <2>1, <2>2, SeqMonotonic DEF Command
<1>2. Unanswered = <<c>> \o sent /\ Unanswered' = sent
  BY DEF Unanswered, clientVars
<1>3. /\ 1 \in 1..Len(Unanswered) /\ SubSeq(Unanswered, 1, 1) = <<c>>
      /\ Unanswered' = SubSeq(Unanswered, 1 + 1, Len(Unanswered))
  BY <1>1, <1>2, FirstAndRest
<1>a. PICK a \in Client!Answers(<<c>>) : inbox' = inbox \o a
  OBVIOUS
<1>n. Unanswered[1].kind # "names" /\ careless \in BOOLEAN
  BY <1>1, <1>2 DEF Mapped, Client!TypeOK
<1>u. careless' = (careless \/ (Unanswered[1].kind = "names" /\ a \in Client!Posing))
  BY <1>n DEF clientVars, userVars
<1>4. Client!ServerAnswers(1)
  BY <1>3, <1>a, <1>u DEF Client!ServerAnswers, clientVars, procVars, Client!procVars, ftpVars,
     Client!ftpVars, sockVars, Client!sockVars, threadVars, Client!threadVars, userVars,
     Client!userVars
<1> QED
  BY <1>3, <1>4 DEF Client!ServerStep

LEMMA AnswersToOne ==
  ASSUME NEW kind \in {"put", "get"}, NEW file
  PROVE  LET c == [kind |-> kind, file |-> file]
         IN /\ {<<>>, <<Say("text")>>} \subseteq Client!Answers(<<c>>)
            /\ \A port \in Ports \cup {Nil} :
                 <<[kind |-> kind, port |-> port, file |-> file]>> \in Client!Answers(<<c>>)
<1> DEFINE c == [kind |-> kind, file |-> file]
<1>1. Head(<<c>>) = c /\ c # Client!Report
  BY DEF Client!Report
<1> QED
  BY <1>1 DEF Client!Answers, Client!Say, Say

LEMMA InboxGrows ==
  ASSUME Mapped
  PROVE  inbox \o <<>> = inbox /\ \A m \in Message : inbox \o <<m>> = Append(inbox, m)
<1>1. inbox \in Seq(Client!Message)
  BY DEF Mapped, Client!TypeOK
<1> QED
  BY <1>1 DEF Message, Client!Message

(* The steps of the server, with what they do to what the client sees.     *)
ServerMaps ==
  /\ UNCHANGED Client!vars \/ Client!ServerStep \/ Client!ServerReportsFailure
  /\ HandlerServes' /\ sent' \in Seq(Asks) /\ WriterAsks'

LEMMA SameForClient ==
  ASSUME UNCHANGED <<procVars, ftpVars, threadVars, userVars, inbox, Unanswered>>
  PROVE  UNCHANGED Client!vars
BY DEF procVars, Client!procVars, ftpVars, Client!ftpVars, sockVars,
     Client!sockVars, threadVars, Client!threadVars, userVars, Client!userVars,
     Client!netVars, Client!vars

LEMMA SilentSteps ==
  ASSUME Mapped, Quiet, UNCHANGED clientVars
  PROVE  ServerMaps
<1>1. UNCHANGED <<sent, at, command>>
  BY DEF clientVars, procVars
<1>2. UNCHANGED <<Unanswered, inbox>> /\ HandlerServes'
  BY <1>1, QuietMaps DEF Mapped
<1>3. UNCHANGED Client!vars
  BY <1>2, SameForClient DEF clientVars
<1> QED
  BY <1>1, <1>2, <1>3 DEF ServerMaps, Mapped, WriterAsks

LEMMA ReadingStep ==
  ASSUME Mapped, HandlerReads
  PROVE  ServerMaps
<1>0. sent \in Seq(Asks) /\ HandlerServes /\ Asks \subseteq Command
  BY DEF Mapped, Asks
<1>1. PICK k \in 1..Len(sent) :
        LET c == Head(sent)
            commands == {i \in 1..k : sent[i] # Report}
        IN /\ sent' = SubSeq(sent, k + 1, Len(sent))
           /\ \/ /\ k = 1 /\ c # Report
                 /\ S!StartCommand(Other(DirectionOf(c.kind)), c.file)
                 /\ UNCHANGED killed
              \/ /\ S!AnswerOther
                 /\ inbox' = Append(inbox, Say(IF commands = {} THEN "failed" ELSE "text"))
           /\ UNCHANGED <<procVars, ftpVars, threadVars, userVars>>
  BY DEF HandlerReads
<1>2. Len(sent) \in Nat /\ Len(sent) >= 1 /\ sent[1] \in Asks /\ Head(sent) = sent[1]
      /\ sent = <<sent[1]>> \o SubSeq(sent, 2, Len(sent))
  BY <1>0, <1>1, WholeOfParts
<1>3. sent' \in Seq(Asks) /\ WriterAsks'
  <2>1. sent' \in Seq(Asks)
    BY <1>0, <1>1, <1>2
  <2> QED
    BY <1>1, <2>1 DEF Mapped, WriterAsks, procVars
<1>4. s_handler = "idle" /\ ~s_leaving
  BY <1>0, <1>1 DEF HandlerServes, S!StartCommand, S!AnswerOther
<1>5. ASSUME k = 1, sent[1] # Report,
             S!StartCommand(Other(DirectionOf(sent[1].kind)), sent[1].file)
      PROVE  ServerMaps
  <2> DEFINE c == sent[1]
  <2>1. c \in Command /\ c.kind \in {"put", "get"} /\ c.file \in Files \cup {Nil}
    BY <1>2, <1>5 DEF Asks, IsTransfer, Command
  <2>2. /\ s_handler' = "check" /\ s_leaving' = s_leaving /\ s_ftp_port' = s_ftp_port
        /\ s_type' = Other(DirectionOf(c.kind)) /\ s_request' = c.file /\ inbox' = inbox
    BY <1>5 DEF S!StartCommand, S!ftpVars, S!cleanVars, S!sockVars
  <2>3. c = [kind |-> IF s_type' = "SEND" THEN "get" ELSE "put", file |-> s_request']
    BY <2>1, <2>2 DEF Command, Other, DirectionOf
  <2>4. UNCHANGED Unanswered
    BY <1>1, <1>2, <1>4, <1>5, <2>2, <2>3 DEF Unanswered
  <2>5. HandlerServes'
    BY <1>0, <1>4, <2>1, <2>2 DEF HandlerServes, Other, DirectionOf, Dir
  <2>6. UNCHANGED Client!vars
    BY <1>1, <2>2, <2>4, SameForClient
  <2> QED
    BY <1>3, <2>5, <2>6 DEF ServerMaps
<1>6. ASSUME S!AnswerOther,
             LET commands == {i \in 1..k : sent[i] # Report}
             IN inbox' = Append(inbox, Say(IF commands = {} THEN "failed" ELSE "text"))
      PROVE  ServerMaps
  <2> DEFINE commands == {i \in 1..k : sent[i] # Report}
             m == Say(IF commands = {} THEN "failed" ELSE "text")
             read == SubSeq(sent, 1, k)
  <2>1. UNCHANGED <<s_handler, s_type, s_request, s_leaving, s_ftp_port>>
    BY <1>6 DEF S!AnswerOther, S!ftpVars, S!cleanVars, S!sockVars, S!handlerVars,
                S!jobVars
  <2>2. Unanswered = sent /\ Unanswered' = SubSeq(Unanswered, k + 1, Len(Unanswered))
    BY <1>1, <1>4, <2>1 DEF Unanswered
  <2>3. <<m>> \in Client!Answers(read)
    <3>1. /\ DOMAIN read = 1..k /\ Head(read) = sent[1]
          /\ \A i \in 1..k : read[i] = sent[i]
      BY <1>0, <1>1, <1>2
    <3>2. {i \in DOMAIN read : read[i] # Client!Report} = commands
      BY <3>1 DEF Report, Client!Report
    <3>3. sent[1] # Report => commands # {}
      BY <1>1
    <3> HIDE DEF read, commands
    <3> QED
      BY <3>1, <3>2, <3>3 DEF Client!Answers, Report, Client!Report, Say, Client!Say
  <2>4. inbox' = inbox \o <<m>>
    <3>1. m \in Message
      BY DEF Say, Message
    <3> QED
      BY <1>6, <3>1, InboxGrows
  <2>5. Client!ServerAnswers(k)
    <3> HIDE DEF m, read
    <3>1. Unanswered[1].kind # "names" /\ careless \in BOOLEAN
      BY <1>0, <1>2, <2>2 DEF Asks, IsTransfer, Report, Mapped, Client!TypeOK
    <3>2. careless' =
            (careless \/ (Unanswered[1].kind = "names" /\ <<m>> \in Client!Posing))
      BY <1>1, <3>1 DEF userVars
    <3> QED
      BY <1>1, <2>2, <2>3, <2>4, <3>2 DEF Client!ServerAnswers, read, procVars,
         Client!procVars, ftpVars, Client!ftpVars, sockVars, Client!sockVars, threadVars,
         Client!threadVars, userVars, Client!userVars
  <2>6. HandlerServes'
    BY <1>0, <2>1 DEF HandlerServes
  <2> QED
    BY <1>1, <1>3, <2>2, <2>5, <2>6 DEF ServerMaps, Client!ServerStep
<1> QED
  BY <1>1, <1>2, <1>5, <1>6

LEMMA AnsweringStep ==
  ASSUME Mapped, S!RefuseFile \/ S!Reply \/ (S!SetupFails /\ UNCHANGED inbox),
         UNCHANGED clientVars
  PROVE  ServerMaps
<1> DEFINE kind == IF s_type = "SEND" THEN "get" ELSE "put"
           c == [kind |-> kind, file |-> s_request]
<1>1. HandlerServes /\ UNCHANGED <<sent, at, command>>
  BY DEF Mapped, clientVars, procVars
<1>2. /\ s_handler \in {"prepare", "reply", "setup"} /\ s_handler' = "idle"
      /\ UNCHANGED <<s_type, s_request, s_leaving, s_ftp_port>>
  BY DEF S!RefuseFile, S!Refused, S!Reply, S!SetupFails, S!sockVars, S!jobVars, S!ftpVars,
         S!cleanVars
<1>3. ~s_leaving /\ HandlerServes'
  BY <1>1, <1>2 DEF HandlerServes
<1>4. \E a \in Client!Answers(<<c>>) : inbox' = inbox \o a
  <2>0. kind \in {"put", "get"}
    OBVIOUS
  <2>1. CASE S!RefuseFile
    <3>1. inbox' = Append(inbox, Say("text")) /\ Say("text") \in Message
      BY <2>1 DEF S!RefuseFile, S!Say, S!Write, Say, Message
    <3> HIDE DEF kind
    <3> QED
      BY <2>0, <3>1, InboxGrows, AnswersToOne
  <2>2. CASE S!Reply
    <3> DEFINE m == [kind |-> kind, port |-> s_ftp_port, file |-> s_request]
    <3>1. inbox' = Append(inbox, m)
      BY <2>2 DEF S!Reply, S!Write
    <3>2. m \in Message /\ s_ftp_port \in Ports \cup {Nil}
      BY <1>1 DEF HandlerServes, Message
    <3>3. inbox' = inbox \o <<m>>
      BY <3>1, <3>2, InboxGrows
    <3> HIDE DEF kind
    <3> QED
      BY <2>0, <3>2, <3>3, AnswersToOne
  <2>3. CASE S!SetupFails /\ UNCHANGED inbox
    <3> HIDE DEF kind
    <3> QED
      BY <2>0, <2>3, InboxGrows, AnswersToOne
  <2> QED
    BY <2>1, <2>2, <2>3
<1>5. Client!ServerStep
  BY <1>2, <1>3, <1>4, HandlerAnswers
<1> QED
  BY <1>1, <1>3, <1>5 DEF ServerMaps, Mapped, WriterAsks

(* A receiver of the server gets its file, or says that it has not.        *)
LEMMA ReceivingStep ==
  ASSUME Mapped, ServerReceives
  PROVE  ServerMaps
<1>1. UNCHANGED <<procVars, ftpVars, threadVars, sent, typed, early, careless>>
  BY DEF ServerReceives
<1>2. HandlerServes /\ WriterAsks' /\ sent' \in Seq(Asks)
  BY <1>1 DEF Mapped, WriterAsks, procVars
<1>3. CASE S!TransferEnds("RECV") /\ UNCHANGED failures
  <2>1. Quiet
    BY <1>3 DEF Quiet, Dir
  <2>2. UNCHANGED <<Unanswered, inbox>> /\ HandlerServes'
    BY <1>1, <1>2, <2>1, QuietMaps
  <2>3. UNCHANGED Client!vars
    BY <1>1, <1>3, <2>2, SameForClient DEF userVars
  <2> QED
    BY <1>2, <2>2, <2>3 DEF ServerMaps
<1>4. CASE S!TransferFails /\ failures < MaxFailures /\ failures' = failures + 1
  <2>1. UNCHANGED <<handlerVars, s_ftp_port>> /\ inbox' = Append(inbox, Say("failed"))
    BY <1>4 DEF S!TransferFails, S!Say, S!Write, Say, S!handlerVars, S!jobVars,
                S!ftpVars, S!cleanVars, S!sockVars, handlerVars
  <2>2. UNCHANGED Unanswered /\ HandlerServes'
    BY <1>1, <1>2, <2>1, MappingKeeps DEF HandlerServes, handlerVars
  <2>3. Client!ServerReportsFailure
    BY <1>1, <1>4, <2>1, <2>2 DEF Client!ServerReportsFailure, Say, Client!Say, procVars,
       Client!procVars, ftpVars, Client!ftpVars, sockVars, Client!sockVars, threadVars,
       Client!threadVars
  <2> QED
    BY <1>2, <2>2, <2>3 DEF ServerMaps
<1> QED
  BY <1>3, <1>4 DEF ServerReceives

LEMMA ServerStepMaps ==
  ASSUME Mapped, ServerHandler \/ \E d \in Dir : ServerThread(d)
  PROVE  ServerMaps
<1>1. CASE HandlerReads
  BY <1>1, ReadingStep
<1>2. CASE HandlerLeaves \/ ServerListens
           \/ ServerOnly(S!CheckFtp \/ S!Prepare \/ S!SetupReuse \/ S!RaiseFlag
                         \/ S!SpawnThread)
  <2>1. Quiet /\ UNCHANGED clientVars
    BY <1>2 DEF HandlerLeaves, ServerListens, ServerOnly, Quiet
  <2> QED
    BY <2>1, SilentSteps
<1>3. CASE SetupFails \/ ToClient(S!RefuseFile \/ S!Reply)
  <2>1. /\ S!RefuseFile \/ S!Reply \/ (S!SetupFails /\ UNCHANGED inbox)
        /\ UNCHANGED clientVars
    BY <1>3 DEF SetupFails, ToClient
  <2> QED
    BY <2>1, AnsweringStep
<1>4. ASSUME NEW d \in Dir, ServerThread(d)
      PROVE  ServerMaps
  <2>1. CASE d = "RECV" /\ ServerReceives
    BY <2>1, ReceivingStep
  <2>2. CASE ~(d = "RECV" /\ ServerReceives)
    <3>1. Quiet /\ UNCHANGED clientVars
      BY <1>4, <2>2 DEF ServerThread, ServerOnly, ServerAccepts, AcceptFails,
         ServerCancelled, ServerSends, Quiet, Dir
    <3> QED
      BY <3>1, SilentSteps
  <2> QED
    BY <2>1, <2>2
<1> QED
  BY <1>1, <1>2, <1>3, <1>4 DEF ServerHandler

-----------------------------------------------------------------------------
(* The steps of the client.                                                *)
ClientMaps ==
  /\ Client!Running
  /\ \/ \E c \in Client!Typeable : Client!Type(c, Client!Dealt)
     \/ Client!WriterStep \/ Client!ReaderStep \/ Client!StopStep \/ Client!End
     \/ \E t \in Client!Threads : Client!ThreadStep(t)

(* Only the user gives the writer a command.                               *)
LEMMA WriterKeepsAsking ==
  ASSUME Mapped, WriterStep \/ ReaderStep \/ StopStep \/ Interrupt \/ WriterEnds
                 \/ (\E p \in {"writer", "reader"} : PeerCancelled(p))
                 \/ \E t \in Threads : ThreadStep(t)
  PROVE  WriterAsks'
<1> USE DEF WriterAsks, Goto
<1>0. /\ WriterAsks
      /\ at \in [writer : {"type", "check", "join", "store", "lock", "write", "done"},
                reader : {"read", "flag", "spawn", "unlock", "done"},
                main : {"wait", "stop", "check", "join", "exit", "exited", "undefined"}]
  BY DEF Mapped, Client!TypeOK
<1>1. ASSUME NEW p \in {"writer", "main"}, CheckFtp(p) PROVE WriterAsks'
  BY <1>0, <1>1 DEF CheckFtp, CheckNothingActive, CheckCancels, JoinReturns, JoinsNoThread,
     AfterCheck, allButAt
<1>2. CASE Store \/ Lock \/ Write
  BY <1>0, <1>2 DEF Store, Lock, Write
<1>3. CASE ReaderStep
  BY <1>0, <1>3 DEF ReaderStep, Read, Flag, Spawn, SpawnFails, Unlock
<1>4. CASE StopCancels \/ StopExits \/ Interrupt \/ WriterEnds
           \/ \E p \in {"writer", "reader"} : PeerCancelled(p)
  BY <1>0, <1>4 DEF StopCancels, StopExits, Interrupt, WriterEnds, PeerCancelled, StopMain,
     MainGoes, allButAt
<1>5. ASSUME NEW t \in Threads, ThreadStep(t) PROVE WriterAsks'
  BY <1>0, <1>5 DEF ThreadStep, ConnectReuse, ConnectOpens, ConnectRefused, OpenFile,
     TransferEnds, TransferFails, Finish, Cancelled, procVars
<1> QED
  BY <1>1, <1>2, <1>3, <1>4, <1>5 DEF WriterStep, StopStep

LEMMA ClientStepMaps ==
  ASSUME Mapped, Running,
         UserTypes \/ ClientWriter \/ ClientReader \/ ClientMain \/ ClientEnds
         \/ \E t \in Threads : ClientThread(t)
  PROVE  ClientMaps /\ sent' \in Seq(Asks) /\ WriterAsks' /\ HandlerServes'
<1>0. sent \in Seq(Asks) /\ HandlerServes /\ Client!Running
  BY DEF Mapped, Running, Client!Running
<1>1. UNCHANGED serverVars
  BY DEF UserTypes, ClientWriter, ClientReader, ClientMain, ClientEnds, ClientThread,
         ClientOnly, Connects, IsRefused, ClientSends, ClientReceives, ClientCancelled
<1>2. UNCHANGED handlerVars /\ HandlerServes'
  BY <1>0, <1>1 DEF serverVars, handlerVars, HandlerServes
<1>3. CASE UserTypes
  BY <1>0, <1>2, <1>3, UserMaps DEF ClientMaps
<1>4. CASE ClientWriter
  <2>1. WriterStep
    BY <1>4 DEF ClientWriter, ClientOnly
  <2> QED
    BY <1>0, <1>2, <2>1, WriterMaps, WriterKeepsAsking DEF ClientMaps
<1>5. CASE ClientReader
  <2>1. ReaderStep
    BY <1>5 DEF ClientReader, ClientOnly, ReaderStep
  <2> QED
    BY <1>0, <1>2, <2>1, ReaderMaps, WriterKeepsAsking DEF ClientMaps
<1>6. CASE ClientMain
  <2>1. StopStep
    BY <1>6 DEF ClientMain, ClientOnly
  <2> QED
    BY <1>0, <1>2, <2>1, MainMaps, WriterKeepsAsking DEF ClientMaps
<1>7. CASE ClientEnds
  <2>1. Interrupt \/ WriterEnds \/ \E p \in {"writer", "reader"} : PeerCancelled(p)
    BY <1>7 DEF ClientEnds, ClientOnly
  <2> QED
    BY <1>0, <1>2, <2>1, EndMaps, WriterKeepsAsking DEF ClientMaps
<1>8. ASSUME NEW t \in Threads, ClientThread(t)
      PROVE  ClientMaps /\ sent' \in Seq(Asks) /\ WriterAsks'
  <2>1. ThreadStep(t)
    BY <1>8 DEF ClientThread, ClientOnly, Connects, IsRefused, ClientSends,
       ClientReceives, ClientCancelled, ThreadStep
  <2>2. t \in Client!Threads
    BY DEF Threads, Client!Threads
  <2> QED
    BY <1>0, <1>2, <2>1, <2>2, ThreadMaps, WriterKeepsAsking DEF ClientMaps
<1> QED
  BY <1>2, <1>3, <1>4, <1>5, <1>6, <1>7, <1>8

-----------------------------------------------------------------------------
LEMMA InitMaps == SystemInit => Client!Init /\ Mapped
<1> SUFFICES ASSUME SystemInit PROVE Client!Init /\ Mapped
  OBVIOUS
<1>1. Init /\ S!Init
  BY DEF SystemInit
<1>2. sent = <<>> /\ Unanswered = <<>> /\ <<>> \in Seq(Asks)
  BY <1>1 DEF Init, S!Init, Unanswered
<1>3. Client!Init
  BY <1>1, <1>2 DEF Init, Client!Init, Blank, Client!Blank, Say, Client!Say, Dir,
     Client!Dir, Threads, Client!Threads, Unborn, Client!Unborn
<1>4. Client!TypeOK
  <2>1. Client!IInv
    BY <1>3, Client!InitIInv, ConstantsAssumption, Zenon DEF Client!InitIInv
  <2> QED
    BY <2>1 DEF Client!IInv
<1>5. WriterAsks /\ HandlerServes /\ LeavesLast
  BY <1>1 DEF Init, S!Init, WriterAsks, HandlerServes, LeavesLast, Dir
<1> QED
  BY <1>2, <1>3, <1>4, <1>5 DEF Mapped

(* The handler leaves when the client has exited, and the client stays so. *)
LEMMA LeavesLastStep ==
  ASSUME Mapped, [SystemNext]_systemVars
  PROVE  LeavesLast'
<1>0. LeavesLast /\ (s_leaving => ~Running)
  BY DEF Mapped, LeavesLast, Running
<1>1. CASE UNCHANGED systemVars
  BY <1>0, <1>1 DEF LeavesLast, systemVars, clientVars, procVars, serverVars
<1>2. CASE /\ Running
           /\ UserTypes \/ ClientWriter \/ ClientReader \/ ClientMain \/ ClientEnds
              \/ \E t \in Threads : ClientThread(t)
  <2>1. UNCHANGED serverVars
    BY <1>2 DEF UserTypes, ClientWriter, ClientReader, ClientMain, ClientEnds,
       ClientThread, ClientOnly, Connects, IsRefused, ClientSends, ClientReceives,
       ClientCancelled
  <2> QED
    BY <1>0, <1>2, <2>1 DEF LeavesLast, serverVars
<1>3. CASE ServerHandler \/ \E d \in Dir : ServerThread(d)
  <2>1. UNCHANGED at
    BY <1>3 DEF ServerHandler, HandlerReads, HandlerLeaves, ServerListens, SetupFails,
       ToClient, ServerOnly, ServerThread, ServerAccepts, AcceptFails, ServerSends,
       ServerReceives, ServerCancelled, clientVars, procVars
  <2>2. CASE HandlerLeaves
    BY <2>1, <2>2 DEF HandlerLeaves, LeavesLast
  <2>3. CASE ~HandlerLeaves
    <3>1. UNCHANGED s_leaving
      <4> USE DEF S!ftpVars, S!cleanVars, S!sockVars, S!threadVars, S!idVars,
                  S!handlerVars, S!jobVars
      <4>1. CASE HandlerReads
        BY <4>1 DEF HandlerReads, S!StartCommand, S!AnswerOther
      <4>2. CASE ServerListens \/ SetupFails \/ ToClient(S!RefuseFile \/ S!Reply)
        BY <4>2 DEF ServerListens, SetupFails, ToClient, S!SetupListens, S!SetupFails,
           S!RefuseFile, S!Reply
      <4>3. CASE S!CheckFtp \/ S!Prepare \/ S!SetupReuse \/ S!RaiseFlag \/ S!SpawnThread
        BY <4>3 DEF S!CheckFtp, S!CheckNothingActive, S!CheckCancels,
           S!CheckCancelsStray, S!JoinReturns, S!AfterCheck, S!Prepare, S!SetupReuse,
           S!RaiseFlag, S!SpawnThread
      <4>4. ASSUME NEW d \in Dir, ServerThread(d) PROVE UNCHANGED s_leaving
        <5>1. S!ThreadStep(d) \/ S!PeerConnects(d) \/ S!TransferFails
              \/ (\E e \in Dir : S!TransferEnds(e))
          BY <4>4 DEF ServerThread, ServerOnly, ServerAccepts, AcceptFails,
             ServerCancelled, ServerSends, ServerReceives, S!ThreadStep, S!PeerConnects,
             Dir
        <5> QED
          BY <5>1 DEF S!ThreadStep, S!PeerConnects, S!ConnectReuse, S!ConnectAccepts,
             S!OpenFile, S!TransferEnds, S!Finish, S!Cancelled, S!Accept, S!AcceptFails,
             S!TransferFails
      <4> QED
        BY <1>3, <2>3, <4>1, <4>2, <4>3, <4>4 DEF ServerHandler, ServerOnly
    <3> QED
      BY <1>0, <2>1, <3>1 DEF LeavesLast
  <2> QED
    BY <2>2, <2>3
<1> QED
  BY <1>1, <1>2, <1>3 DEF SystemNext, ClientRuns, ServerRuns

LEMMA StepMaps ==
  ASSUME Mapped, [SystemNext]_systemVars
  PROVE  [Client!Next]_Client!vars /\ Mapped'
<1>1. [Client!Next]_Client!vars /\ sent' \in Seq(Asks) /\ WriterAsks' /\ HandlerServes'
  <2>1. CASE UNCHANGED systemVars
    <3>1. UNCHANGED <<sent, handlerVars, clientVars, inbox, s_ftp_port>>
      BY <2>1 DEF systemVars, clientVars, serverVars, handlerVars
    <3>2. UNCHANGED Unanswered
      BY <3>1, MappingKeeps
    <3>3. UNCHANGED Client!vars
      BY <3>1, <3>2, SameForClient DEF clientVars
    <3> QED
      BY <3>1, <3>3 DEF Mapped, WriterAsks, HandlerServes, handlerVars, clientVars, procVars
  <2>2. CASE SystemNext
    <3>1. \/ /\ Running
             /\ UserTypes \/ ClientWriter \/ ClientReader \/ ClientMain \/ ClientEnds
                \/ \E t \in Threads : ClientThread(t)
          \/ ServerHandler \/ \E d \in Dir : ServerThread(d)
      BY <2>2 DEF SystemNext, ClientRuns, ServerRuns
    <3> QED
      BY <3>1, ClientStepMaps, ServerStepMaps DEF ClientMaps, ServerMaps, Client!Next
  <2> QED
    BY <2>1, <2>2
<1>2. Client!TypeOK'
  <2>1. Client!TypeOK
    BY DEF Mapped
  <2> QED
    BY <1>1, <2>1, Client!TypeStep, ConstantsAssumption, Zenon DEF Client!TypeStep
<1> QED
  BY <1>1, <1>2, LeavesLastStep DEF Mapped

(* With FtpServer at the other end, client.cpp runs as GrassClient says.   *)
THEOREM SystemImplementsClient == SystemSpec => ImplementsClient
<1>1. SystemInit => Client!Init /\ Mapped
  BY InitMaps
<1>2. Mapped /\ [SystemNext]_systemVars => [Client!Next]_Client!vars /\ Mapped'
  BY StepMaps
<1> QED
  BY <1>1, <1>2, PTL DEF SystemSpec, ImplementsClient, Client!Spec

(* What GrassClient promises a user who waits holds with the real server.  *)
THEOREM ClientIsServed ==
  SystemSpec => [](ThreadsAreKnown /\ OpensTheFileAskedFor /\ JoinsAStartedThread)
<1>1. Client!Spec => []Client!ThreadsAreKnown
  BY Client!EveryThreadIsKnown, ConstantsAssumption, Zenon DEF Client!EveryThreadIsKnown
<1>2. Client!Spec => []Client!OpensTheFileAskedFor
  BY Client!EveryThreadOpensItsFile, ConstantsAssumption, Zenon
  DEF Client!EveryThreadOpensItsFile
<1>3. Client!Spec => []Client!JoinsAStartedThread
  BY Client!NoJoinIsInVain, ConstantsAssumption, Zenon DEF Client!NoJoinIsInVain
<1>4. Client!ThreadsAreKnown => ThreadsAreKnown
  BY DEF Client!ThreadsAreKnown, ThreadsAreKnown, Client!Calm, Calm, Client!Dir, Dir,
         Client!RunningThreads, RunningThreads, Client!Threads, Threads
<1>5. Client!OpensTheFileAskedFor => OpensTheFileAskedFor
  BY DEF Client!OpensTheFileAskedFor, OpensTheFileAskedFor, Client!Calm, Calm,
         Client!Threads, Threads
<1>6. Client!JoinsAStartedThread => JoinsAStartedThread
  BY DEF Client!JoinsAStartedThread, JoinsAStartedThread, Client!Calm, Calm,
         Client!Joinable, Joinable, Client!Threads, Threads
<1> QED
  BY <1>1, <1>2, <1>3, <1>4, <1>5, <1>6, SystemImplementsClient, PTL DEF ImplementsClient

-----------------------------------------------------------------------------
(* The server: its environment is the client, which reads what has         *)
(* arrived, asks for files, and leaves.                                    *)
LEMMA ClientIsEnvironment ==
  ASSUME UserTypes \/ ClientWriter \/ ClientReader \/ ClientMain \/ ClientEnds
         \/ \E t \in Threads : ClientThread(t)
  PROVE  [S!Next]_S!vars
<1>1. UNCHANGED serverVars
  BY DEF UserTypes, ClientWriter, ClientReader, ClientMain, ClientEnds, ClientThread,
         ClientOnly, Connects, IsRefused, ClientSends, ClientReceives, ClientCancelled
<1>2. UNCHANGED inbox \/ \E k \in 1..Len(inbox) : inbox' = SubSeq(inbox, k + 1, Len(inbox))
  <2>1. CASE UserTypes
    BY <2>1 DEF UserTypes, Type, netVars
  <2>2. ASSUME NEW p \in {"writer", "main"}, CheckFtp(p) PROVE UNCHANGED inbox
    BY <2>2 DEF CheckFtp, CheckNothingActive, CheckCancels, JoinReturns, JoinsNoThread,
       allButAt, netVars
  <2>3. CASE ClientWriter
    BY <2>2, <2>3 DEF ClientWriter, ClientOnly, WriterStep, Store, Lock, Write, netVars
  <2>4. CASE ClientReader
    BY <2>4 DEF ClientReader, ClientOnly, Read, Flag, Spawn, Unlock, netVars
  <2>5. CASE ClientMain
    BY <2>2, <2>5 DEF ClientMain, ClientOnly, StopStep, StopCancels, StopExits, MainGoes,
       allButAt, netVars
  <2>6. CASE ClientEnds
    BY <2>6 DEF ClientEnds, ClientOnly, Interrupt, WriterEnds, PeerCancelled, MainGoes,
       allButAt, netVars
  <2>7. ASSUME NEW t \in Threads, ClientThread(t) PROVE UNCHANGED inbox
    BY <2>7 DEF ClientThread, ClientOnly, Connects, IsRefused, ClientSends,
       ClientReceives, ClientCancelled, ConnectReuse, ConnectOpens, ConnectRefused,
       OpenFile, TransferEnds, TransferFails, Finish, Cancelled, netVars
  <2> QED
    BY <2>1, <2>3, <2>4, <2>5, <2>6, <2>7
<1>3. CASE UNCHANGED inbox
  BY <1>1, <1>3 DEF serverVars, S!vars, S!ftpVars, S!cleanVars, S!sockVars, S!threadVars,
     S!idVars, S!handlerVars, S!jobVars
<1>4. CASE \E k \in 1..Len(inbox) : inbox' = SubSeq(inbox, k + 1, Len(inbox))
  <2>1. S!ClientReads
    BY <1>1, <1>4 DEF S!ClientReads, serverVars, S!ftpVars, S!cleanVars, S!sockVars,
       S!threadVars, S!idVars, S!handlerVars, S!jobVars
  <2> QED
    BY <2>1 DEF S!Next
<1> QED
  BY <1>2, <1>3, <1>4

LEMMA ServerTakesItsSteps ==
  ASSUME Mapped, ServerHandler \/ \E d \in Dir : ServerThread(d)
  PROVE  S!Next
<1>1. CASE HandlerReads
  <2>1. PICK k \in 1..Len(sent) :
          \/ /\ Head(sent) # Report
             /\ S!StartCommand(Other(DirectionOf(Head(sent).kind)), Head(sent).file)
          \/ S!AnswerOther
    BY <1>1 DEF HandlerReads
  <2>2. Head(sent) \in Asks
    BY WholeOfParts, ConstantsAssumption DEF Mapped
  <2>3. Head(sent) # Report => Head(sent).file \in Files
    BY <2>2 DEF Asks, IsTransfer
  <2>4. Other(DirectionOf(Head(sent).kind)) \in S!Dir
    BY DEF Other, DirectionOf, S!Dir
  <2> QED
    BY <2>1, <2>3, <2>4 DEF S!Next
<1>2. CASE HandlerLeaves \/ ServerListens \/ SetupFails
           \/ ToClient(S!RefuseFile \/ S!Reply)
           \/ ServerOnly(S!CheckFtp \/ S!Prepare \/ S!SetupReuse \/ S!RaiseFlag
                         \/ S!SpawnThread)
  BY <1>2 DEF HandlerLeaves, ServerListens, SetupFails, ToClient, ServerOnly, S!Next,
     S!HandlerStep, S!SetupFtp
<1>3. ASSUME NEW d \in Dir, ServerThread(d)
      PROVE  S!Next
  <2>1. d \in S!Dir /\ "RECV" \in S!Dir
    BY DEF Dir, S!Dir
  <2>2. S!ThreadStep(d) \/ S!PeerConnects(d) \/ S!TransferFails
    BY <1>3 DEF ServerThread, ServerOnly, ServerAccepts, AcceptFails, ServerCancelled,
       ServerSends, ServerReceives, S!ThreadStep, S!PeerConnects
  <2> QED
    BY <2>1, <2>2 DEF S!Next
<1> QED
  BY <1>1, <1>2, <1>3 DEF ServerHandler

(* Server is S, with what has been proved of it.                           *)
LEMMA SameServer ==
  /\ S!Init => Server!Init
  /\ [S!Next]_S!vars => [Server!Next]_Server!vars
BY DEF
  S!Dir, Server!Dir, S!Other, Server!Other, S!sockVars, Server!sockVars,
  S!cleanVars, Server!cleanVars, S!idVars, Server!idVars,
  S!threadVars, Server!threadVars, S!jobVars, Server!jobVars,
  S!handlerVars, Server!handlerVars, S!ftpVars, Server!ftpVars,
  S!vars, Server!vars, S!Init, Server!Init, S!Write, Server!Write,
  S!Say, Server!Say, S!LastTransfer, Server!LastTransfer, S!InUse, Server!InUse,
  S!CloseSockets, Server!CloseSockets, S!CleanFtp, Server!CleanFtp,
  S!StartCommand, Server!StartCommand, S!Disconnect, Server!Disconnect,
  S!AfterCheck, Server!AfterCheck, S!CheckNothingActive, Server!CheckNothingActive,
  S!CheckCancels, Server!CheckCancels,
  S!CheckCancelsStray, Server!CheckCancelsStray, S!Gone, Server!Gone,
  S!JoinReturns, Server!JoinReturns, S!Prepare, Server!Prepare,
  S!AnswerOther, Server!AnswerOther, S!RefuseFile, Server!RefuseFile,
  S!Refused, Server!Refused,
  S!SetupReuse, Server!SetupReuse, S!SetupListens, Server!SetupListens,
  S!SetupFails, Server!SetupFails, S!RaiseFlag, Server!RaiseFlag,
  S!Unjoined, Server!Unjoined, S!ThreadsHeld, Server!ThreadsHeld,
  S!SpawnThread, Server!SpawnThread, S!SpawnFails, Server!SpawnFails,
  S!Reply, Server!Reply, S!Goto, Server!Goto, S!ConnectReuse, Server!ConnectReuse,
  S!ConnectAccepts, Server!ConnectAccepts, S!Accept, Server!Accept,
  S!AcceptFails, Server!AcceptFails, S!OpenFile, Server!OpenFile,
  S!TransferEnds, Server!TransferEnds, S!TransferFails, Server!TransferFails,
  S!GivesLockBack, Server!GivesLockBack, S!Finish, Server!Finish,
  S!CancellationPoints, Server!CancellationPoints, S!Cancelled, Server!Cancelled,
  S!ClientReads, Server!ClientReads,
  S!OthersUseDescriptor, Server!OthersUseDescriptor, S!CheckFtp, Server!CheckFtp,
  S!SetupFtp, Server!SetupFtp, S!HandlerStep, Server!HandlerStep,
  S!PeerConnects, Server!PeerConnects, S!ThreadStep, Server!ThreadStep,
  S!Next, Server!Next

(* With the client of client.cpp at the other end, the server runs as      *)
(* FtpServer says.                                                         *)
THEOREM SystemImplementsServer == SystemSpec => ImplementsServer
<1>1. SystemInit => Server!Init /\ Mapped
  BY InitMaps, SameServer DEF SystemInit
<1>2. Mapped /\ [SystemNext]_systemVars => [Server!Next]_Server!vars /\ Mapped'
  <2> SUFFICES ASSUME Mapped, [SystemNext]_systemVars
               PROVE  [Server!Next]_Server!vars /\ Mapped'
    OBVIOUS
  <2>1. [S!Next]_S!vars
    <3>1. CASE UNCHANGED systemVars
      BY <3>1 DEF systemVars, serverVars, S!vars, S!ftpVars, S!cleanVars, S!sockVars,
         S!threadVars, S!idVars, S!handlerVars, S!jobVars
    <3>2. CASE SystemNext
      BY <3>2, ClientIsEnvironment, ServerTakesItsSteps
      DEF SystemNext, ClientRuns, ServerRuns
    <3> QED
      BY <3>1, <3>2
  <2> QED
    BY <2>1, SameServer, StepMaps
<1> QED
  BY <1>1, <1>2, PTL DEF SystemSpec, ImplementsServer, Server!Spec

(* Each process runs as its own module says, whatever the other one does.  *)
THEOREM PartsRunAsTheyShould == SystemSpec => PartsRunAsSpecified
BY SystemImplementsClient, SystemImplementsServer, PTL DEF PartsRunAsSpecified

(* FtpServer's constants, as the system has them, are what it assumes.     *)
LEMMA ServerAssumption ==
  /\ {} \subseteq Ports /\ Nil \notin Ports \cup Files
  /\ MaxThreads \in Nat \ {0} /\ MaxControl \in Nat \ {0}
BY ConstantsAssumption, SystemAssumption

(* The invariants of FtpServer hold with the real client.                  *)
THEOREM ServerIsUsed ==
  SystemSpec => [](/\ S!NoTransferOutlivesConnection /\ S!TransferHasItsSocket
                   /\ S!NoDataDescriptorLeak /\ S!TransferServesItsRequest
                   /\ S!OneThreadPerDirection)
<1>1. Server!Spec => []Server!NoTransferOutlivesConnection
  BY Server!CleanupIsComplete, ServerAssumption, Zenon DEF Server!CleanupIsComplete
<1>2. Server!Spec => []Server!TransferHasItsSocket
  BY Server!TransfersKeepTheirSocket, ServerAssumption, Zenon
  DEF Server!TransfersKeepTheirSocket
<1>3. Server!Spec => []Server!NoDataDescriptorLeak
  BY Server!NothingIsForgotten, ServerAssumption, Zenon DEF Server!NothingIsForgotten
<1>4. Server!Spec => []Server!TransferServesItsRequest
  BY Server!RequestsAreServed, ServerAssumption, Zenon DEF Server!RequestsAreServed
<1>5. Server!Spec => []Server!OneThreadPerDirection
  BY Server!ThreadsAreReplaced, ServerAssumption, Zenon DEF Server!ThreadsAreReplaced
<1>6. /\ Server!NoTransferOutlivesConnection => S!NoTransferOutlivesConnection
      /\ Server!TransferHasItsSocket => S!TransferHasItsSocket
      /\ Server!NoDataDescriptorLeak => S!NoDataDescriptorLeak
      /\ Server!TransferServesItsRequest => S!TransferServesItsRequest
      /\ Server!OneThreadPerDirection => S!OneThreadPerDirection
  BY DEF S!NoTransferOutlivesConnection, Server!NoTransferOutlivesConnection,
     S!TransferHasItsSocket, Server!TransferHasItsSocket, S!NoDataDescriptorLeak,
     Server!NoDataDescriptorLeak, S!TransferServesItsRequest,
     Server!TransferServesItsRequest, S!OneThreadPerDirection,
     Server!OneThreadPerDirection, S!Dir, Server!Dir
<1> QED
  BY <1>1, <1>2, <1>3, <1>4, <1>5, <1>6, SystemImplementsServer, PTL
  DEF ImplementsServer
=============================================================================
