------------------------- MODULE GrassClientProofs -------------------------
(***************************************************************************)
(* Proofs about GrassClient, for any files, ports and number of commands:  *)
(* its type invariant, that few commands are under way, and what the       *)
(* client promises to a user who waits until a command has been dealt with. *)
(***************************************************************************)
EXTENDS GrassClient, SequenceTheorems, FiniteSetTheorems, TLAPS

Transfers == {"put", "get"}

(* A sequence of commands or messages with a put or get in it, with one of *)
(* them at most, and with that of a file.                                  *)
HasOne(s) == \E i \in 1..Len(s) : s[i].kind \in Transfers
Once(s) == \A i, j \in 1..Len(s) :
  s[i].kind \in Transfers /\ s[j].kind \in Transfers => i = j
Holds(s, kind, file) == \E i \in 1..Len(s) : s[i].kind = kind /\ s[i].file = file

(* Where a put or get can be, from the moment it is typed until its thread *)
(* exists: with the writer, on its way to the server, on its way back, or  *)
(* with the reader; in one of these places only, and there once.           *)
WriterHasOne == at["writer"] \in {"check", "join", "store", "lock", "write"}
ReaderHasOne == at["reader"] \in {"flag", "spawn"}
UnderWay == WriterHasOne \/ HasOne(sent) \/ HasOne(inbox) \/ ReaderHasOne

(* stop_and_clean has begun: main looks at both directions, whatever the   *)
(* reader is at, and nothing is under way that the user has typed since.   *)
Late == at["main"] \notin {"wait", "stop"}

OneAtATime ==
  /\ WriterHasOne => ~HasOne(sent) /\ ~HasOne(inbox) /\ ~ReaderHasOne
  /\ HasOne(sent) => ~HasOne(inbox) /\ ~ReaderHasOne
  /\ HasOne(inbox) => ~ReaderHasOne
  /\ Once(sent) /\ Once(inbox)

(* What writer and reader are at is a transfer, in the direction that the  *)
(* writer looks at.                                                        *)
HandsAreFull ==
  /\ at["writer"] \in {"check", "join", "store"} => command.kind \in Transfers
  /\ WriterHasOne /\ command.kind \in Transfers =>
       dir["writer"] = DirectionOf(command.kind)
  /\ ReaderHasOne => message.kind \in Transfers

(* A transfer whose path has been stored and whose thread does not exist.  *)
Asked(kind, file) ==
  \/ at["writer"] \in {"lock", "write"} /\ command.kind = kind /\ command.file = file
  \/ Holds(sent, kind, file) \/ Holds(inbox, kind, file)
  \/ ReaderHasOne /\ message.kind = kind /\ message.file = file

(* Its direction has no thread left, its flag is up only when the reader   *)
(* has raised it for this one, and its path is still there unless main has *)
(* cleaned up behind the flag.                                             *)
RequestsArePrepared ==
  \A kind \in Transfers, file \in Files \cup {Nil} : Asked(kind, file) =>
    LET d == DirectionOf(kind)
    IN /\ RunningThreads(d) = {}
       /\ active[d] => at["reader"] = "spawn"
       /\ filepath[d] = file \/ (at["reader"] = "spawn" /\ Late /\ ~active[d])

(* Between check_ftp and the new path the writer's direction is at rest.   *)
WriterMayStore ==
  at["writer"] = "store" =>
    ~active[dir["writer"]] /\ RunningThreads(dir["writer"]) = {}

(* A flag that is up belongs to a thread, to one about to be created, or   *)
(* to one that could not be.                                               *)
FlagsHaveThreads ==
  /\ \A d \in Dir : active[d] =>
       \/ at["reader"] = "spawn" /\ DirectionOf(message.kind) = d
       \/ unstarted[d]
       \/ \E t \in Threads : thread_id[d] = t /\ thread[t].dir = d
                             /\ thread[t].where \notin {"none", "joined"}
  /\ at["reader"] = "spawn" => active[DirectionOf(message.kind)] \/ Late

(* Who joins holds the lock and has seen the flag, and an id that is       *)
(* stored is that of a thread of its direction.                            *)
JoinsAreLocked ==
  \A p \in {"writer", "main"} : at[p] = "join" => clean_lock = p /\ active[dir[p]]
IdsAreOfThreads ==
  \A d \in Dir : \A t \in Threads :
    thread_id[d] = t => thread[t].dir = d /\ thread[t].where # "none"

PathsAreKept ==
  \A t \in Threads : thread[t].where \in {"connect", "refused", "open"} =>
    filepath[thread[t].dir] = thread[t].want \/ ~active[thread[t].dir]

(* A thread that runs is the one its direction knows, and has the file it  *)
(* was spawned for, unless main has taken the flag of its direction away   *)
(* before the thread was there.                                            *)
ThreadsAreTheLatest ==
  \A d \in Dir : \A t \in RunningThreads(d) :
    thread_id[d] = t /\ (active[d] \/ (Late /\ ~UnderWay))
FilesAreTheirOwn ==
  \A t \in Threads : thread[t].where = "transfer" =>
    thread[t].file = thread[t].want \/ ~active[thread[t].dir]

Orderly == /\ OneAtATime /\ HandsAreFull /\ RequestsArePrepared /\ WriterMayStore
           /\ ThreadsAreTheLatest /\ FlagsHaveThreads /\ JoinsAreLocked
           /\ IdsAreOfThreads /\ PathsAreKept /\ FilesAreTheirOwn

(* For any user: a command or answer under way, the writer about to write, *)
(* the reader with a message and the lock when it is free are one token,   *)
(* and every read without an answer makes one more.                        *)
One(b) == IF b THEN 1 ELSE 0
Tokens ==
  HowMany(sent, {"put", "get", "names", "other"}) + HowMany(inbox, {"put", "get", "text"})
    + One(at["writer"] = "write") + One(at["reader"] \in {"flag", "spawn", "unlock"})
    + One(~lock) <= 1 + early

(* A report is not a command that somebody has typed.                      *)
ReportsOnly ==
  /\ command.kind # "report"
  /\ \A i \in 1..Len(sent) : sent[i].kind = "report" => sent[i] = Report

IInv == TypeOK /\ Tokens /\ ReportsOnly /\ (~careless => Orderly)

-----------------------------------------------------------------------------
USE DEF procVars, sockVars, ftpVars, idVars, threadVars, netVars, userVars, allButAt

(* What is left of a sequence behind its first k elements.                 *)
LEMMA RestHolds ==
  ASSUME NEW S, NEW s \in Seq(S), NEW k \in 1..Len(s)
  PROVE  LET rest == SubSeq(s, k + 1, Len(s))
         IN /\ rest \in Seq(S)
            /\ HasOne(rest) => HasOne(s)
            /\ Once(s) => Once(rest)
            /\ \A kind, file : Holds(rest, kind, file) => Holds(s, kind, file)
            /\ Once(s) /\ (\E i \in 1..k : s[i].kind \in Transfers) => ~HasOne(rest)
<1> DEFINE rest == SubSeq(s, k + 1, Len(s))
<1>1. Len(s) \in Nat /\ \A i \in 1..Len(s) : s[i] \in S
  BY LenProperties, ElementOfSeq
<1>2. k \in Nat /\ k >= 1 /\ k <= Len(s)
  BY <1>1
<1>3. \A i \in (k + 1)..Len(s) : s[i] \in S
  BY <1>1, <1>2
<1>4. /\ rest \in Seq(S)
      /\ Len(rest) = IF k + 1 <= Len(s) THEN Len(s) - (k + 1) + 1 ELSE 0
      /\ \A i \in 1..(Len(s) - (k + 1) + 1) : rest[i] = s[k + 1 + i - 1]
  BY <1>1, <1>2, <1>3, SubSeqProperties
<1>5. Len(rest) = Len(s) - k
  BY <1>1, <1>2, <1>4
<1>6. \A i \in 1..Len(rest) : k + i \in 1..Len(s) /\ k + i > k /\ rest[i] = s[k + i]
  BY <1>1, <1>2, <1>4, <1>5
<1> HIDE DEF rest
<1>7. \A i, j \in 1..Len(rest) : k + i = k + j => i = j
  BY <1>1, <1>2, <1>5
<1>8. HasOne(rest) => HasOne(s)
  BY <1>6 DEF HasOne
<1>9. Once(s) => Once(rest)
  BY <1>6, <1>7 DEF Once
<1>10. \A kind, file : Holds(rest, kind, file) => Holds(s, kind, file)
  BY <1>6 DEF Holds
<1>11. \A i \in 1..k : i \in 1..Len(s) /\ i <= k
  BY <1>1, <1>2
<1>12. ASSUME Once(s), NEW i \in 1..k, s[i].kind \in Transfers
       PROVE  ~HasOne(rest)
  BY <1>1, <1>2, <1>6, <1>11, <1>12 DEF HasOne, Once
<1> QED
  BY <1>4, <1>8, <1>9, <1>10, <1>12 DEF rest

(* What an element behind a sequence adds to it.                           *)
LEMMA AppendHolds ==
  ASSUME NEW S, NEW s \in Seq(S), NEW e \in S
  PROVE  LET more == Append(s, e)
         IN /\ more \in Seq(S)
            /\ HasOne(more) <=> HasOne(s) \/ e.kind \in Transfers
            /\ Once(s) /\ ~(HasOne(s) /\ e.kind \in Transfers) => Once(more)
            /\ \A kind, file : Holds(more, kind, file) =>
                 Holds(s, kind, file) \/ (e.kind = kind /\ e.file = file)
<1> DEFINE more == Append(s, e)
<1>1. Len(s) \in Nat
  BY LenProperties
<1>2. /\ more \in Seq(S) /\ Len(more) = Len(s) + 1
      /\ \A i \in 1..Len(s) : more[i] = s[i]
      /\ more[Len(s) + 1] = e
  BY AppendProperties
<1> HIDE DEF more
<1>3. \A i : i \in 1..Len(more) <=> i \in 1..Len(s) \/ i = Len(s) + 1
  BY <1>1, <1>2
<1>4. HasOne(more) <=> HasOne(s) \/ e.kind \in Transfers
  BY <1>2, <1>3 DEF HasOne
<1>5. Once(s) /\ ~(HasOne(s) /\ e.kind \in Transfers) => Once(more)
  BY <1>2, <1>3 DEF HasOne, Once
<1>6. \A kind, file : Holds(more, kind, file) =>
        Holds(s, kind, file) \/ (e.kind = kind /\ e.file = file)
  BY <1>2, <1>3 DEF Holds
<1> QED
  BY <1>2, <1>4, <1>5, <1>6 DEF more

(* The server's answer is at most one message, and one with a port answers *)
(* the first of the commands it has read.                                  *)
LEMMA AnswerIsOneMessage ==
  ASSUME TypeOK, NEW k \in 1..Len(sent), ServerAnswers(k)
  PROVE  /\ sent' = SubSeq(sent, k + 1, Len(sent))
         /\ \/ inbox' = inbox
            \/ \E m \in Message :
                 /\ inbox' = Append(inbox, m)
                 /\ m.kind \in Transfers /\ ~careless' =>
                      m.kind = sent[1].kind /\ m.file = sent[1].file
<1> DEFINE s == SubSeq(sent, 1, k)
<1>1. sent \in Seq(Command) /\ inbox \in Seq(Message) /\ Len(sent) \in Nat
  BY LenProperties DEF TypeOK
<1>2. sent[1] \in Command /\ Head(s) = sent[1]
  <2>1. 1 \in 1..Len(sent)
    BY <1>1
  <2> QED
    BY <1>1, <2>1, ElementOfSeq, HeadTailOfSubSeq
<1> HIDE DEF s
<1>3. PICK a \in Answers(s) :
        /\ inbox' = inbox \o a
        /\ careless' = (careless \/ (sent[1].kind = "names" /\ a \in Posing))
  BY DEF ServerAnswers, s
<1>4. \/ a = <<>>
      \/ \E m \in Message :
           /\ a = <<m>>
           /\ m.kind \in Transfers /\ ~careless' =>
                m.kind = sent[1].kind /\ m.file = sent[1].file
  <2>1. CASE sent[1].kind = "names" /\ a \in Posing
    <3>1. PICK name \in TransferNames : a = <<Say(name)>>
      BY <2>1 DEF Posing
    <3>2. name \in {"put", "get"}
      BY ConstantsAssumption
    <3>3. Say(name) \in Message
      BY <3>2 DEF Say, Message
    <3> QED
      BY <1>3, <2>1, <3>1, <3>3
  <2>2. CASE ~(sent[1].kind = "names" /\ a \in Posing)
    BY <1>2, <2>2 DEF Answers, Say, Message, Command, Report, Transfers
  <2> QED
    BY <2>1, <2>2
<1>5. inbox \o <<>> = inbox /\ \A m \in Message : inbox \o <<m>> = Append(inbox, m)
  BY <1>1, ConcatEmptySeq, AppendIsConcat
<1> QED
  BY <1>3, <1>4, <1>5 DEF ServerAnswers

-----------------------------------------------------------------------------
(* Types.                                                                  *)
Steps == {"none", "connect", "refused", "open", "transfer", "finish", "ended", "joined"}

LEMMA MovedThread ==
  ASSUME thread \in [Threads -> Transfer], NEW t \in Threads
  PROVE  \A step \in Steps, file \in Files \cup {Nil} :
           /\ [thread EXCEPT ![t].where = step] \in [Threads -> Transfer]
           /\ [thread EXCEPT ![t].where = step, ![t].file = file] \in [Threads -> Transfer]
<1> SUFFICES ASSUME NEW step \in Steps, NEW file \in Files \cup {Nil}
             PROVE  /\ [thread EXCEPT ![t].where = step] \in [Threads -> Transfer]
                    /\ [thread EXCEPT ![t].where = step, ![t].file = file]
                         \in [Threads -> Transfer]
  OBVIOUS
<1>1. /\ [thread[t] EXCEPT !.where = step] \in Transfer
      /\ [thread[t] EXCEPT !.where = step, !.file = file] \in Transfer
  BY DEF Transfer, Steps
<1> QED
  BY <1>1

(* What a thread does to the table of threads.                             *)
LEMMA ThreadMoves ==
  ASSUME NEW t \in Threads, ThreadStep(t)
  PROVE  \/ thread' = thread
         \/ \E step \in Steps :
              \/ thread' = [thread EXCEPT ![t].where = step]
              \/ thread' = [thread EXCEPT ![t].where = step,
                                          ![t].file = filepath[thread[t].dir]]
BY DEF ThreadStep, ConnectReuse, ConnectOpens, ConnectRefused, OpenFile,
       TransferEnds, TransferFails, Finish, Cancelled, Move, Steps

LEMMA CheckKeepsTypes ==
  ASSUME TypeOK, NEW p \in {"writer", "main"}, CheckFtp(p)
  PROVE  TypeOK'
<1> USE DEF TypeOK, AfterCheck, Goto, Dir
<1>1. CASE CheckNothingActive(p)
  BY <1>1 DEF CheckNothingActive
<1>2. CASE CheckCancels(p)
  BY <1>2 DEF CheckCancels
<1>3. CASE JoinReturns(p)
  <2>1. thread' \in [Threads -> Transfer]
    <3>1. PICK t \in Threads : thread' = [thread EXCEPT ![t].where = "joined"]
      BY <1>3 DEF JoinReturns
    <3>2. Nil \in Files \cup {Nil} /\ "joined" \in Steps
      BY DEF Steps
    <3> QED
      BY <3>1, <3>2, MovedThread
  <2>2. /\ active' \in [Dir -> BOOLEAN] /\ filepath' \in [Dir -> Files \cup {Nil}]
        /\ port_open' \in BOOLEAN /\ ftp_port' \in Ports \cup {Nil}
        /\ file_transfer_socket' \in Threads \cup {Nil}
    BY <1>3 DEF JoinReturns, CleanFtp
  <2> QED
    BY <1>3, <2>1, <2>2 DEF JoinReturns, GivesLockBack
<1>4. CASE JoinsNoThread(p)
  BY <1>4 DEF JoinsNoThread
<1> QED
  BY <1>1, <1>2, <1>3, <1>4 DEF CheckFtp

LEMMA WriterKeepsTypes ==
  ASSUME TypeOK, Store \/ Lock \/ Write \/ \E c \in Typeable : Type(c, Dealt)
  PROVE  TypeOK'
<1> USE DEF TypeOK, Goto, Dir
<1>1. CASE Store
  <2>1. command.file \in Files \cup {Nil}
    BY DEF Command
  <2> QED
    BY <1>1, <2>1 DEF Store
<1>2. CASE Lock
  BY <1>2 DEF Lock
<1>3. CASE Write
  <2>1. sent' \in Seq(Command)
    BY <1>3, AppendProperties DEF Write
  <2> QED
    BY <1>3, <2>1 DEF Write, Blank, Command
<1>4. ASSUME NEW c \in Typeable, Type(c, Dealt) PROVE TypeOK'
  BY <1>4 DEF Type, Typeable, DirectionOf
<1> QED
  BY <1>1, <1>2, <1>3, <1>4

LEMMA ReaderKeepsTypes ==
  ASSUME TypeOK, ReaderStep
  PROVE  TypeOK'
<1> USE DEF TypeOK, Goto, Dir
<1>1. ASSUME NEW k \in 1..Len(inbox), Read(k) PROVE TypeOK'
  <2>1. 1 \in 1..Len(inbox) /\ inbox' \in Seq(Message)
    BY <1>1, LenProperties, RestHolds DEF Read
  <2>2. inbox[1] \in Message
    BY <2>1, ElementOfSeq
  <2>3. early' \in Nat
    BY <1>1 DEF Read
  <2> QED
    BY <1>1, <2>1, <2>2, <2>3 DEF Read
<1>2. CASE Flag
  BY <1>2 DEF Flag, DirectionOf, Message
<1>3. CASE Spawn
  <2> DEFINE e == DirectionOf(message.kind)
  <2>1. PICK t \in Threads :
          /\ thread' = [thread EXCEPT ![t] = [dir |-> e, where |-> "connect",
                                             want |-> message.file, file |-> Nil]]
          /\ thread_id' = [thread_id EXCEPT ![e] = t]
          /\ unstarted' = [unstarted EXCEPT ![e] = FALSE]
    BY <1>3 DEF Spawn, StoreId
  <2>2. e \in Dir /\ message.file \in Files \cup {Nil}
    BY DEF DirectionOf, Message
  <2>3. [dir |-> e, where |-> "connect", want |-> message.file, file |-> Nil] \in Transfer
    BY <2>2 DEF Transfer
  <2> HIDE DEF e
  <2>4. /\ thread' \in [Threads -> Transfer] /\ thread_id' \in [Dir -> Threads \cup {Nil}]
        /\ unstarted' \in [Dir -> BOOLEAN]
    BY <2>1, <2>3
  <2> QED
    BY <1>3, <2>4 DEF Spawn
<1>4. CASE SpawnFails
  BY <1>4 DEF SpawnFails, DirectionOf, Message
<1>5. CASE Unlock
  BY <1>5 DEF Unlock, LockAfterMessage, Say, Message
<1> QED
  BY <1>1, <1>2, <1>3, <1>4, <1>5 DEF ReaderStep

LEMMA ThreadKeepsTypes ==
  ASSUME TypeOK, NEW t \in Threads, ThreadStep(t)
  PROVE  TypeOK'
<1> USE DEF TypeOK
<1>1. thread' \in [Threads -> Transfer]
  <2>1. filepath[thread[t].dir] \in Files \cup {Nil}
    BY DEF Transfer
  <2> QED
    <3>1. thread \in [Threads -> Transfer]
      OBVIOUS
    <3>2. \A step \in Steps :
            /\ [thread EXCEPT ![t].where = step] \in [Threads -> Transfer]
            /\ [thread EXCEPT ![t].where = step, ![t].file = filepath[thread[t].dir]]
                 \in [Threads -> Transfer]
      BY <2>1, <3>1, MovedThread
    <3>3. \/ thread' = thread
          \/ \E step \in Steps :
               \/ thread' = [thread EXCEPT ![t].where = step]
               \/ thread' = [thread EXCEPT ![t].where = step,
                                           ![t].file = filepath[thread[t].dir]]
      BY ThreadMoves
    <3>4. PICK step \in Steps :
            \/ thread' = thread
            \/ thread' = [thread EXCEPT ![t].where = step]
            \/ thread' = [thread EXCEPT ![t].where = step,
                                        ![t].file = filepath[thread[t].dir]]
      BY <3>3, Zenon DEF Steps
    <3> QED
      BY <3>1, <3>2, <3>4, Zenon
<1>2. CASE ConnectReuse(t) \/ ConnectRefused(t) \/ TransferEnds(t) \/ Cancelled(t)
           \/ OpenFile(t)
  BY <1>1, <1>2 DEF ConnectReuse, ConnectRefused, TransferEnds, Cancelled, OpenFile
<1>3. CASE ConnectOpens(t)
  BY <1>1, <1>3 DEF ConnectOpens
<1>4. CASE TransferFails(t)
  <2>1. Report \in Command
    BY DEF Report, Command
  <2>2. sent' \in Seq(Command)
    BY <1>4, <2>1, AppendProperties DEF TransferFails
  <2> QED
    BY <1>1, <1>4, <2>2 DEF TransferFails
<1>5. CASE Finish(t)
  <2>1. /\ active' \in [Dir -> BOOLEAN] /\ filepath' \in [Dir -> Files \cup {Nil}]
        /\ port_open' \in BOOLEAN /\ ftp_port' \in Ports \cup {Nil}
        /\ file_transfer_socket' \in Threads \cup {Nil}
    BY <1>5 DEF Finish, CleanFtp
  <2> QED
    BY <1>1, <1>5, <2>1 DEF Finish, Goto
<1> QED
  BY <1>2, <1>3, <1>4, <1>5 DEF ThreadStep

LEMMA ServerKeepsTypes ==
  ASSUME TypeOK, ServerStep \/ ServerReportsFailure
  PROVE  TypeOK'
<1>1. ASSUME NEW k \in 1..Len(sent), ServerAnswers(k) PROVE TypeOK'
  <2>0. /\ sent' = SubSeq(sent, k + 1, Len(sent))
        /\ inbox' = inbox \/ \E m \in Message : inbox' = Append(inbox, m)
    BY <1>1, AnswerIsOneMessage
  <2>1. sent' \in Seq(Command)
    BY <1>1, <2>0, RestHolds DEF TypeOK
  <2>2. inbox' \in Seq(Message)
    <3>1. inbox \in Seq(Message)
      BY DEF TypeOK
    <3>2. \A m \in Message : Append(inbox, m) \in Seq(Message)
      BY <3>1, AppendProperties
    <3> QED
      BY <2>0, <3>1, <3>2
  <2>3. careless' \in BOOLEAN
    BY <1>1 DEF TypeOK, ServerAnswers
  <2> QED
    BY <1>1, <2>1, <2>2, <2>3 DEF TypeOK, ServerAnswers
<1>2. CASE ServerReportsFailure
  <2>1. Say("failed") \in Message
    BY DEF Say, Message
  <2>2. inbox' \in Seq(Message)
    BY <1>2, <2>1, AppendProperties DEF TypeOK, ServerReportsFailure
  <2> QED
    BY <1>2, <2>2 DEF TypeOK, ServerReportsFailure
<1> QED
  BY <1>1, <1>2 DEF ServerStep

LEMMA TypeStep ==
  ASSUME TypeOK, [Next]_vars
  PROVE  TypeOK'
<1>1. CASE UNCHANGED vars
  BY <1>1 DEF vars, TypeOK
<1>2. CASE StopCancels \/ StopExits \/ End
  BY <1>2 DEF TypeOK, StopCancels, StopExits, End, WriterEnds, ReaderEnds, Interrupt,
              PeerCancelled, MainGoes, StopMain, Goto
<1> QED
  BY <1>1, <1>2, CheckKeepsTypes, WriterKeepsTypes, ReaderKeepsTypes, ThreadKeepsTypes,
     ServerKeepsTypes DEF Next, WriterStep, StopStep

-----------------------------------------------------------------------------
(* The steps of a client, with those apart that only end a part of it.     *)
Stops ==
  /\ at'["writer"] \in {at["writer"], "done"}
  /\ at'["reader"] = at["reader"] \/ (at["reader"] = "read" /\ at'["reader"] = "done")
  /\ at'["main"] # "join" \/ at["main"] = "join"
  /\ Late => Late'
  /\ UNCHANGED allButAt

ClientStep ==
  \/ \E c \in Typeable : Type(c, Dealt)
  \/ \E p \in {"writer", "main"} : CheckNothingActive(p) \/ CheckCancels(p) \/ JoinReturns(p)
  \/ Store \/ Lock \/ Write
  \/ \E k \in 1..Len(inbox) : Read(k)
  \/ Flag \/ Spawn \/ SpawnFails \/ Unlock
  \/ \E t \in Threads : ThreadStep(t)
  \/ \E k \in 1..Len(sent) : ServerAnswers(k)
  \/ ServerReportsFailure
  \/ Stops

LEMMA NextSteps ==
  ASSUME TypeOK, [Next]_vars
  PROVE  ClientStep
<1>0. at \in [writer : {"type", "check", "join", "store", "lock", "write", "done"},
              reader : {"read", "flag", "spawn", "unlock", "done"},
              main : {"wait", "stop", "check", "join", "exit", "exited", "undefined"}]
  BY DEF TypeOK
<1>1. CASE UNCHANGED vars
  <2>1. Stops
    BY <1>1 DEF vars, Stops, Late
  <2> QED
    BY <2>1 DEF ClientStep
<1>2. ASSUME NEW p \in {"writer", "main"}, JoinsNoThread(p) PROVE Stops
  BY <1>0, <1>2 DEF JoinsNoThread, Goto, Stops, Late
<1>3. CASE CheckFtp("writer") \/ CheckFtp("main")
  BY <1>2, <1>3 DEF CheckFtp, ClientStep
<1>4. CASE StopCancels \/ StopExits \/ Interrupt
  <2>1. Stops
    BY <1>0, <1>4 DEF StopCancels, StopExits, Interrupt, MainGoes, Goto, Stops, Late
  <2> QED
    BY <2>1 DEF ClientStep
<1>5. CASE End
  <2>1. CASE WriterEnds \/ ReaderEnds
    <3>1. Stops
      BY <1>0, <2>1 DEF WriterEnds, ReaderEnds, StopMain, Stops, Late
    <3> QED
      BY <3>1 DEF ClientStep
  <2>2. ASSUME NEW p \in {"writer", "reader"}, PeerCancelled(p) PROVE Stops
    BY <1>0, <2>2 DEF PeerCancelled, CancellationPoints, Goto, Stops, Late
  <2>3. CASE \E p \in {"writer", "reader"} : PeerCancelled(p)
    BY <2>2, <2>3 DEF ClientStep
  <2> QED
    BY <1>4, <1>5, <2>1, <2>3 DEF End
<1> QED
  BY <1>1, <1>3, <1>4, <1>5
  DEF Next, WriterStep, ReaderStep, StopStep, ServerStep, ClientStep

(* What a thread that takes a step leaves of itself.                       *)
LEMMA ThreadEffects ==
  ASSUME TypeOK, NEW t \in Threads, ThreadStep(t)
  PROVE  /\ \A u \in Threads : u # t => thread'[u] = thread[u]
         /\ thread'[t].dir = thread[t].dir /\ thread'[t].want = thread[t].want
         /\ thread[t].where \notin {"none", "ended", "joined"}
         /\ thread'[t].where \notin {"none", "joined"}
         /\ UNCHANGED <<lock, dir, command, message, clean_lock, idVars, inbox,
                        typed, early, careless>>
         /\ at' = at \/ at' = [at EXCEPT !["main"] = "undefined"]
         /\ sent' = sent \/ sent' = Append(sent, Report)
<1>1. thread \in [Threads -> Transfer]
  BY DEF TypeOK
<1>2. CASE ConnectReuse(t) \/ ConnectOpens(t) \/ ConnectRefused(t)
  BY <1>1, <1>2 DEF ConnectReuse, ConnectOpens, ConnectRefused, Move, Transfer
<1>3. CASE OpenFile(t) \/ Cancelled(t)
  BY <1>1, <1>3 DEF OpenFile, Cancelled, Move, Transfer
<1>4. CASE TransferEnds(t) \/ TransferFails(t)
  BY <1>1, <1>4 DEF TransferEnds, TransferFails, Move, Transfer
<1>5. CASE Finish(t)
  BY <1>1, <1>5 DEF Finish, Move, Goto, Transfer
<1> QED
  BY <1>2, <1>3, <1>4, <1>5 DEF ThreadStep

(* What check_ftp leaves alone, whoever calls it.                          *)
LEMMA CheckEffects ==
  ASSUME TypeOK, NEW p \in {"writer", "main"},
         CheckNothingActive(p) \/ CheckCancels(p) \/ JoinReturns(p)
  PROVE  /\ UNCHANGED <<lock, command, message, idVars, netVars, userVars>>
         /\ UNCHANGED at \/ \E step : at' = [at EXCEPT ![p] = step]
         /\ p = "writer" => /\ UNCHANGED dir /\ at'["main"] = at["main"]
                            /\ at["writer"] \in {"check", "join"}
                            /\ at'["writer"] \in {"join", "store"}
         /\ p = "main" => /\ dir'["writer"] = dir["writer"]
                          /\ at'["writer"] = at["writer"]
                          /\ at["main"] \in {"check", "join"}
                          /\ at'["main"] \in {"check", "join", "exit"}
         /\ at'["reader"] = at["reader"]
<1>1. CASE CheckNothingActive(p)
  BY <1>1 DEF TypeOK, CheckNothingActive, AfterCheck, Goto
<1>2. CASE CheckCancels(p)
  BY <1>2 DEF TypeOK, CheckCancels, Goto
<1>3. CASE JoinReturns(p)
  BY <1>3 DEF TypeOK, JoinReturns, AfterCheck, Goto
<1> QED
  BY <1>1, <1>2, <1>3

(* Nothing undoes the end of the client, or what the user has done.        *)
LEMMA Onward ==
  ASSUME TypeOK, ClientStep
  PROVE  /\ Late => Late'
         /\ careless => careless'
<1>1. CASE \E p \in {"writer", "main"} :
             CheckNothingActive(p) \/ CheckCancels(p) \/ JoinReturns(p)
  BY <1>1, CheckEffects DEF Late, userVars, Type, TypeOK
<1>2. CASE \E t \in Threads : ThreadStep(t)
  BY <1>2, ThreadEffects DEF Late, Type, TypeOK
<1>3. CASE Stops
  BY <1>3 DEF Stops, allButAt, userVars, Type
<1> QED
  BY <1>1, <1>2, <1>3
  DEF ClientStep, Type, Store, Lock, Write, Read, Flag, Spawn, SpawnFails, Unlock, ServerAnswers,
      ServerReportsFailure, Goto, Late, TypeOK, procVars, userVars

LEMMA NothingInEmpty == ~HasOne(<<>>) /\ Once(<<>>)
  BY DEF HasOne, Once

LEMMA OneStep ==
  ASSUME TypeOK, ~careless', OneAtATime, HandsAreFull, ClientStep
  PROVE  OneAtATime' /\ HandsAreFull'
<1> USE DEF OneAtATime, HandsAreFull, WriterHasOne, ReaderHasOne
<1>0. /\ at \in [writer : {"type", "check", "join", "store", "lock", "write", "done"},
                  reader : {"read", "flag", "spawn", "unlock", "done"},
                  main : {"wait", "stop", "check", "join", "exit", "exited", "undefined"}]
      /\ dir \in [writer : Dir, main : Dir]
      /\ sent \in Seq(Command) /\ inbox \in Seq(Message)
      /\ command \in Command
  BY DEF TypeOK
<1>r. Report \in Command /\ Report.kind \notin Transfers
  BY DEF Report, Command, Transfers
<1>s. Say("failed") \in Message /\ Say("failed").kind \notin Transfers
  BY DEF Say, Message, Transfers
<1>1. ASSUME NEW c \in Typeable, Type(c, Dealt) PROVE OneAtATime' /\ HandsAreFull'
  <2>1. sent = <<>> /\ inbox = <<>> /\ at["reader"] = "read"
    BY <1>1 DEF Type, Dealt
  <2>2. c.kind \in {"put", "get", "names", "other"}
    BY DEF Typeable, Command
  <2> QED
    BY <1>0, <1>1, <2>1, <2>2, NothingInEmpty DEF Type, Goto, Transfers
<1>2. ASSUME NEW p \in {"writer", "main"},
             CheckNothingActive(p) \/ CheckCancels(p) \/ JoinReturns(p)
      PROVE  OneAtATime' /\ HandsAreFull'
  BY <1>0, <1>2, CheckEffects DEF netVars
<1>3. CASE Store \/ Lock
  BY <1>0, <1>3 DEF Store, Lock, Goto
<1>4. CASE Write
  <2>1. Once(sent') /\ at' = [at EXCEPT !["writer"] = "type"] /\ UNCHANGED <<inbox, message>>
    BY <1>0, <1>4, AppendHolds DEF Write, Goto
  <2> QED
    BY <1>0, <1>4, <2>1 DEF Write
<1>5. ASSUME NEW k \in 1..Len(inbox), Read(k) PROVE OneAtATime' /\ HandsAreFull'
  <2>1. Len(inbox) \in Nat
    BY <1>0, LenProperties
  <2>2. 1 \in 1..Len(inbox) /\ 1 \in 1..k
    BY <2>1
  <2>3. /\ HasOne(inbox') => HasOne(inbox)
        /\ Once(inbox')
        /\ inbox[1].kind \in Transfers => HasOne(inbox) /\ ~HasOne(inbox')
    <3>1. inbox' = SubSeq(inbox, k + 1, Len(inbox))
      BY <1>5 DEF Read
    <3>2. inbox[1].kind \in Transfers => HasOne(inbox)
      BY <2>2 DEF HasOne
    <3> QED
      BY <1>0, <2>2, <3>1, <3>2, RestHolds
  <2> QED
    BY <1>0, <1>5, <2>3 DEF Read, Goto, Transfers
<1>6. CASE Flag \/ Spawn \/ SpawnFails \/ Unlock
  BY <1>0, <1>6 DEF Flag, Spawn, SpawnFails, Unlock, Goto
<1>7. ASSUME NEW t \in Threads, ThreadStep(t) PROVE OneAtATime' /\ HandsAreFull'
  <2>1. (HasOne(sent') => HasOne(sent)) /\ Once(sent')
    <3>1. sent' = sent \/ sent' = Append(sent, Report)
      BY <1>7, ThreadEffects
    <3>2. CASE sent' = Append(sent, Report)
      BY <1>0, <1>r, <3>2, AppendHolds
    <3> QED
      BY <3>1, <3>2
  <2>2. /\ at'["writer"] = at["writer"] /\ at'["reader"] = at["reader"]
        /\ UNCHANGED <<dir, command, message, inbox>>
    BY <1>0, <1>7, ThreadEffects
  <2> QED
    BY <2>1, <2>2
<1>8. ASSUME NEW k \in 1..Len(sent), ServerAnswers(k) PROVE OneAtATime' /\ HandsAreFull'
  <2>1. Len(sent) \in Nat
    BY <1>0, LenProperties
  <2>2. 1 \in 1..Len(sent) /\ 1 \in 1..k
    BY <2>1
  <2>3. sent[1].kind \in Transfers => HasOne(sent)
    BY <2>2 DEF HasOne
  <2>4. /\ HasOne(sent') => HasOne(sent)
        /\ Once(sent')
        /\ sent[1].kind \in Transfers => ~HasOne(sent')
    <3>1. sent' = SubSeq(sent, k + 1, Len(sent))
      BY <1>8 DEF ServerAnswers
    <3> QED
      BY <1>0, <2>2, <3>1, RestHolds
  <2>5. UNCHANGED <<at, dir, command, message>>
    BY <1>8 DEF ServerAnswers
  <2>6. CASE inbox' = inbox
    BY <2>4, <2>5, <2>6
  <2>7. ASSUME NEW m \in Message, inbox' = Append(inbox, m),
               m.kind \in Transfers /\ ~careless' => m.kind = sent[1].kind
        PROVE  OneAtATime' /\ HandsAreFull'
    <3>1. /\ HasOne(inbox') <=> HasOne(inbox) \/ m.kind \in Transfers
          /\ ~(HasOne(inbox) /\ m.kind \in Transfers) => Once(inbox')
      BY <1>0, <2>7, AppendHolds
    <3> QED
      BY <2>3, <2>4, <2>5, <2>7, <3>1
  <2> QED
    BY <1>8, <2>6, <2>7, AnswerIsOneMessage
<1>9. CASE ServerReportsFailure
  <2>1. (HasOne(inbox') => HasOne(inbox)) /\ Once(inbox')
    BY <1>0, <1>9, <1>s, AppendHolds DEF ServerReportsFailure
  <2> QED
    BY <1>9, <2>1 DEF ServerReportsFailure
<1>10. CASE Stops
  <2>1. UNCHANGED <<dir, command, message, sent, inbox>>
    BY <1>10 DEF Stops
  <2> QED
    BY <1>0, <1>10, <2>1 DEF Stops
<1> QED
  BY <1>1, <1>2, <1>3, <1>4, <1>5, <1>6, <1>7, <1>8, <1>9, <1>10 DEF ClientStep

(* A sequence that holds a transfer has one.                               *)
LEMMA HeldIsOne ==
  \A s, file : \A kind \in Transfers : Holds(s, kind, file) => HasOne(s)
  BY DEF Holds, HasOne

(* While the writer prepares a transfer no other is under way.             *)
LEMMA NothingAsked ==
  ASSUME OneAtATime, at["writer"] \in {"check", "join", "store"},
         NEW kind \in Transfers, NEW file
  PROVE  ~Asked(kind, file)
  BY HeldIsOne DEF OneAtATime, WriterHasOne, Asked

(* A transfer is asked for when its path has been stored; every other step *)
(* hands on the one there is.                                              *)
LEMMA AskedStep ==
  ASSUME TypeOK, ~careless', OneAtATime, HandsAreFull, ClientStep, ~Store,
         NEW kind \in Transfers, NEW file, Asked(kind, file)'
  PROVE  Asked(kind, file)
<1> USE DEF Asked, ReaderHasOne
<1>0. /\ at \in [writer : {"type", "check", "join", "store", "lock", "write", "done"},
                  reader : {"read", "flag", "spawn", "unlock", "done"},
                  main : {"wait", "stop", "check", "join", "exit", "exited", "undefined"}]
      /\ sent \in Seq(Command) /\ inbox \in Seq(Message)
      /\ command \in Command
  BY DEF TypeOK
<1>r. Report \in Command /\ Report.kind \notin Transfers
  BY DEF Report, Command, Transfers
<1>s. Say("failed") \in Message /\ Say("failed").kind \notin Transfers
  BY DEF Say, Message, Transfers
<1>1. ASSUME NEW c \in Typeable, Type(c, Dealt) PROVE Asked(kind, file)
  BY <1>0, <1>1 DEF Type, Goto, Transfers
<1>2. ASSUME NEW p \in {"writer", "main"},
             CheckNothingActive(p) \/ CheckCancels(p) \/ JoinReturns(p)
      PROVE  Asked(kind, file)
  BY <1>0, <1>2, CheckEffects DEF netVars
<1>3. CASE Lock
  BY <1>0, <1>3 DEF Lock, Goto
<1>4. CASE Write
  <2>1. /\ at["writer"] = "write" /\ at' = [at EXCEPT !["writer"] = "type"]
        /\ sent' = Append(sent, command) /\ UNCHANGED <<inbox, message>>
    BY <1>4 DEF Write, Goto
  <2>2. Holds(sent', kind, file) =>
          Holds(sent, kind, file) \/ (command.kind = kind /\ command.file = file)
    BY <1>0, <2>1, AppendHolds
  <2> QED
    BY <1>0, <2>1, <2>2
<1>5. ASSUME NEW k \in 1..Len(inbox), Read(k) PROVE Asked(kind, file)
  <2>1. Len(inbox) \in Nat
    BY <1>0, LenProperties
  <2>2. 1 \in 1..Len(inbox)
    BY <2>1
  <2>3. inbox' = SubSeq(inbox, k + 1, Len(inbox)) /\ message' = inbox[1]
        /\ UNCHANGED <<command, sent>> /\ at'["writer"] = at["writer"]
    BY <1>0, <1>5 DEF Read, Goto
  <2>4. Holds(inbox', kind, file) => Holds(inbox, kind, file)
    BY <1>0, <2>3, RestHolds
  <2>5. message'.kind = kind /\ message'.file = file => Holds(inbox, kind, file)
    BY <2>2, <2>3 DEF Holds
  <2> QED
    BY <2>3, <2>4, <2>5
<1>6. CASE Flag \/ Spawn \/ SpawnFails \/ Unlock
  BY <1>0, <1>6 DEF Flag, Spawn, SpawnFails, Unlock, Goto
<1>7. ASSUME NEW t \in Threads, ThreadStep(t) PROVE Asked(kind, file)
  <2>1. sent' = sent \/ sent' = Append(sent, Report)
    BY <1>7, ThreadEffects
  <2>2. Holds(sent', kind, file) => Holds(sent, kind, file)
    <3>1. CASE sent' = Append(sent, Report)
      BY <1>0, <1>r, <3>1, AppendHolds
    <3> QED
      BY <2>1, <3>1
  <2>3. /\ at'["writer"] = at["writer"] /\ at'["reader"] = at["reader"]
        /\ UNCHANGED <<command, message, inbox>>
    BY <1>0, <1>7, ThreadEffects
  <2> QED
    BY <2>2, <2>3
<1>8. ASSUME NEW k \in 1..Len(sent), ServerAnswers(k) PROVE Asked(kind, file)
  <2>1. Len(sent) \in Nat
    BY <1>0, LenProperties
  <2>2. 1 \in 1..Len(sent)
    BY <2>1
  <2>3. sent' = SubSeq(sent, k + 1, Len(sent)) /\ UNCHANGED <<at, command, message>>
    BY <1>8 DEF ServerAnswers
  <2>4. Holds(sent', kind, file) => Holds(sent, kind, file)
    BY <1>0, <2>3, RestHolds
  <2>5. CASE inbox' = inbox
    BY <2>3, <2>4, <2>5
  <2>6. ASSUME NEW m \in Message, inbox' = Append(inbox, m),
               m.kind \in Transfers /\ ~careless' =>
                 m.kind = sent[1].kind /\ m.file = sent[1].file
        PROVE  Asked(kind, file)
    <3>1. Holds(inbox', kind, file) =>
            Holds(inbox, kind, file) \/ (m.kind = kind /\ m.file = file)
      BY <1>0, <2>6, AppendHolds
    <3>2. m.kind = kind /\ m.file = file => Holds(sent, kind, file)
      BY <2>2, <2>6 DEF Holds
    <3> QED
      BY <2>3, <2>4, <3>1, <3>2
  <2> QED
    BY <1>8, <2>5, <2>6, AnswerIsOneMessage
<1>9. CASE ServerReportsFailure
  <2>1. inbox' = Append(inbox, Say("failed")) /\ UNCHANGED <<at, command, message, sent>>
    BY <1>9 DEF ServerReportsFailure
  <2>2. Holds(inbox', kind, file) => Holds(inbox, kind, file)
    BY <1>0, <1>s, <2>1, AppendHolds
  <2> QED
    BY <2>1, <2>2
<1>10. CASE Stops
  <2>1. UNCHANGED <<command, message, sent, inbox>>
    BY <1>10 DEF Stops
  <2> QED
    BY <1>0, <1>10, <2>1 DEF Stops
<1> QED
  BY <1>1, <1>2, <1>3, <1>4, <1>5, <1>6, <1>7, <1>8, <1>9, <1>10 DEF ClientStep

(* Once main has begun to stop the others, nothing more is under way.      *)
LEMMA UnderWayStep ==
  ASSUME TypeOK, ~careless', Late, ClientStep, UnderWay'
  PROVE  UnderWay
<1> USE DEF UnderWay, WriterHasOne, ReaderHasOne
<1>0. /\ at \in [writer : {"type", "check", "join", "store", "lock", "write", "done"},
                  reader : {"read", "flag", "spawn", "unlock", "done"},
                  main : {"wait", "stop", "check", "join", "exit", "exited", "undefined"}]
      /\ sent \in Seq(Command) /\ inbox \in Seq(Message)
      /\ command \in Command
  BY DEF TypeOK
<1>r. Report \in Command /\ Report.kind \notin Transfers
  BY DEF Report, Command, Transfers
<1>s. Say("failed") \in Message /\ Say("failed").kind \notin Transfers
  BY DEF Say, Message, Transfers
<1>1. ASSUME NEW c \in Typeable, Type(c, Dealt) PROVE FALSE
  BY <1>1 DEF Type, Dealt, Late
<1>2. ASSUME NEW p \in {"writer", "main"},
             CheckNothingActive(p) \/ CheckCancels(p) \/ JoinReturns(p)
      PROVE  UnderWay
  BY <1>0, <1>2, CheckEffects DEF netVars
<1>3. CASE Store \/ Lock \/ Write
  BY <1>3 DEF Store, Lock, Write
<1>5. ASSUME NEW k \in 1..Len(inbox), Read(k) PROVE UnderWay
  <2>1. Len(inbox) \in Nat
    BY <1>0, LenProperties
  <2>2. 1 \in 1..Len(inbox)
    BY <2>1
  <2>3. inbox[1].kind \in Transfers => HasOne(inbox)
    BY <2>2 DEF HasOne
  <2>4. HasOne(inbox') => HasOne(inbox)
    BY <1>0, <1>5, RestHolds DEF Read
  <2> QED
    BY <1>0, <1>5, <2>3, <2>4 DEF Read, Goto, Transfers
<1>6. CASE Flag \/ Spawn \/ SpawnFails \/ Unlock
  BY <1>0, <1>6 DEF Flag, Spawn, SpawnFails, Unlock, Goto
<1>7. ASSUME NEW t \in Threads, ThreadStep(t) PROVE UnderWay
  <2>1. HasOne(sent') => HasOne(sent)
    <3>1. sent' = sent \/ sent' = Append(sent, Report)
      BY <1>7, ThreadEffects
    <3>2. CASE sent' = Append(sent, Report)
      BY <1>0, <1>r, <3>2, AppendHolds
    <3> QED
      BY <3>1, <3>2
  <2>2. /\ at'["writer"] = at["writer"] /\ at'["reader"] = at["reader"]
        /\ UNCHANGED inbox
    BY <1>0, <1>7, ThreadEffects
  <2> QED
    BY <2>1, <2>2
<1>8. ASSUME NEW k \in 1..Len(sent), ServerAnswers(k) PROVE UnderWay
  <2>1. Len(sent) \in Nat
    BY <1>0, LenProperties
  <2>2. 1 \in 1..Len(sent)
    BY <2>1
  <2>3. sent[1].kind \in Transfers => HasOne(sent)
    BY <2>2 DEF HasOne
  <2>4. HasOne(sent') => HasOne(sent)
    BY <1>0, <1>8, RestHolds DEF ServerAnswers
  <2>5. UNCHANGED at
    BY <1>8 DEF ServerAnswers
  <2>6. ASSUME NEW m \in Message, inbox' = Append(inbox, m),
               m.kind \in Transfers /\ ~careless' => m.kind = sent[1].kind
        PROVE  UnderWay
    <3>1. HasOne(inbox') <=> HasOne(inbox) \/ m.kind \in Transfers
      BY <1>0, <2>6, AppendHolds
    <3> QED
      BY <2>3, <2>4, <2>5, <2>6, <3>1
  <2> QED
    BY <1>8, <2>4, <2>5, <2>6, AnswerIsOneMessage
<1>9. CASE ServerReportsFailure
  <2>1. HasOne(inbox') => HasOne(inbox)
    BY <1>0, <1>9, <1>s, AppendHolds DEF ServerReportsFailure
  <2> QED
    BY <1>9, <2>1 DEF ServerReportsFailure
<1>10. CASE Stops
  BY <1>0, <1>10 DEF Stops
<1> QED
  BY <1>1, <1>2, <1>3, <1>5, <1>6, <1>7, <1>8, <1>9, <1>10 DEF ClientStep

(* No step but Spawn adds a thread that runs.                              *)
LEMMA OnlySpawnAdds ==
  ASSUME TypeOK, ClientStep, ~Spawn, NEW d \in Dir
  PROVE  RunningThreads(d)' \subseteq RunningThreads(d)
<1>1. thread \in [Threads -> Transfer]
  BY DEF TypeOK
<1>2. ASSUME NEW t \in Threads, ThreadStep(t)
      PROVE  RunningThreads(d)' \subseteq RunningThreads(d)
  BY <1>2, ThreadEffects DEF RunningThreads
<1>3. ASSUME NEW p \in {"writer", "main"}, JoinReturns(p)
      PROVE  RunningThreads(d)' \subseteq RunningThreads(d)
  BY <1>1, <1>3 DEF JoinReturns, RunningThreads, Transfer
<1>4. ASSUME thread' = thread
      PROVE  RunningThreads(d)' \subseteq RunningThreads(d)
  BY <1>4 DEF RunningThreads
<1> QED
  BY <1>2, <1>3, <1>4
  DEF ClientStep, Type, CheckNothingActive, CheckCancels, Store, Lock, Write, Read, Flag,
      SpawnFails, Unlock, ServerAnswers, ServerReportsFailure, Stops

(* A thread that ends in its check_ftp takes flag and path of its          *)
(* direction with it; without the flag nothing but the thread changes.     *)
LEMMA FinishEffects ==
  ASSUME TypeOK, ThreadsAreTheLatest, NEW t \in Threads, Finish(t)
  PROVE  LET d == thread[t].dir
         IN /\ d \in Dir /\ t \in RunningThreads(d) /\ thread_id[d] = t
            /\ clean_lock = "free"
            /\ active' = [active EXCEPT ![d] = FALSE]
            /\ \A e \in Dir : e # d => filepath'[e] = filepath[e]
            /\ ~active[d] => filepath' = filepath
            /\ active[d] => thread' = [thread EXCEPT ![t].where = "ended"]
            /\ UNCHANGED thread_id
            /\ at'["reader"] = at["reader"] /\ UNCHANGED message
<1>1. thread[t].dir \in Dir /\ thread[t].where \in {"refused", "finish"}
  BY DEF TypeOK, Transfer, Finish
<1>2. t \in RunningThreads(thread[t].dir)
  BY <1>1 DEF RunningThreads
<1>3. thread_id[thread[t].dir] = t
  BY <1>1, <1>2 DEF ThreadsAreTheLatest
<1>4. active \in [Dir -> BOOLEAN] /\ filepath \in [Dir -> Files \cup {Nil}]
  BY DEF TypeOK
<1>5. at'["reader"] = at["reader"]
  BY DEF Finish, Goto, TypeOK
<1> QED
  BY <1>1, <1>2, <1>3, <1>4, <1>5 DEF Finish, CleanFtp, Move

(* The thread of a direction has been joined.                              *)
LEMMA JoinEffects ==
  ASSUME TypeOK, Orderly, NEW p \in {"writer", "main"}, JoinReturns(p)
  PROVE  LET d == dir[p]
         IN /\ d \in Dir /\ at[p] = "join" /\ clean_lock = p /\ active[d]
            /\ active' = [active EXCEPT ![d] = FALSE]
            /\ filepath' = [filepath EXCEPT ![d] = Nil]
            /\ \E t \in Threads :
                 /\ t = thread_id[d] /\ thread[t].dir = d /\ thread[t].where = "ended"
                 /\ thread' = [thread EXCEPT ![t].where = "joined"]
            /\ \A e \in Dir : e = d => RunningThreads(e)' = {}
            /\ UNCHANGED thread_id
<1>1. dir[p] \in Dir /\ at[p] = "join" /\ clean_lock = p /\ active[dir[p]]
  BY DEF TypeOK, JoinReturns, Orderly, JoinsAreLocked
<1>2. PICK t \in Threads :
        /\ t = thread_id[dir[p]] /\ thread[t].where = "ended"
        /\ thread' = [thread EXCEPT ![t].where = "joined"]
  BY DEF JoinReturns
<1>3. thread[t].dir = dir[p]
  BY <1>1, <1>2 DEF Orderly, IdsAreOfThreads
<1>4. \A d \in Dir : d = dir[p] => RunningThreads(d)' = {}
  <2>1. thread \in [Threads -> Transfer]
    BY DEF TypeOK
  <2>2. \A u \in Threads : thread'[u].dir = dir[p] /\ thread'[u].where \notin {"none", "ended", "joined"}
          => u \in RunningThreads(dir[p]) /\ u # t
    BY <1>2, <2>1 DEF RunningThreads, Transfer
  <2>3. \A u \in RunningThreads(dir[p]) : u = t
    BY <1>1, <1>2 DEF Orderly, ThreadsAreTheLatest
  <2>4. \A u \in Threads :
          ~(thread'[u].dir = dir[p] /\ thread'[u].where \notin {"none", "ended", "joined"})
    BY <2>2, <2>3
  <2> QED
    BY <2>4 DEF RunningThreads
<1> QED
  BY <1>1, <1>2, <1>3, <1>4 DEF JoinReturns, CleanFtp

(* Steps that leave flags, paths and the ids of threads alone, and those   *)
(* that do not.                                                            *)
LEMMA FlagsAndPaths ==
  ASSUME ClientStep
  PROVE  \/ UNCHANGED <<active, filepath, thread_id>>
         \/ \E p \in {"writer", "main"} : JoinReturns(p)
         \/ Store \/ Flag \/ Spawn \/ SpawnFails
         \/ \E t \in Threads : Finish(t)
  BY DEF ClientStep, Type, CheckNothingActive, CheckCancels, Lock, Write, Read, Unlock,
         Stops, ServerAnswers, ServerReportsFailure, ThreadStep, ConnectReuse,
         ConnectOpens, ConnectRefused, OpenFile, TransferEnds, TransferFails, Cancelled

(* Only Spawn and its failure take the reader from where it creates a      *)
(* thread.                                                                 *)
LEMMA ReaderSpawns ==
  ASSUME TypeOK, ClientStep, ~Spawn, ~SpawnFails
  PROVE  at["reader"] = "spawn" => at'["reader"] = "spawn" /\ message' = message
<1>1. CASE \E p \in {"writer", "main"} :
             CheckNothingActive(p) \/ CheckCancels(p) \/ JoinReturns(p)
  BY <1>1, CheckEffects
<1>2. CASE \E t \in Threads : ThreadStep(t)
  BY <1>2, ThreadEffects DEF TypeOK
<1>3. CASE Stops
  BY <1>3 DEF Stops
<1> QED
  BY <1>1, <1>2, <1>3
  DEF TypeOK, ClientStep, Type, Store, Lock, Write, Read, Flag, Unlock, ServerAnswers,
      ServerReportsFailure, Goto

LEMMA PreparedStep ==
  ASSUME TypeOK, ~careless', Orderly, ClientStep
  PROVE  RequestsArePrepared'
<1> SUFFICES ASSUME NEW kind \in Transfers, NEW file \in Files \cup {Nil},
                    Asked(kind, file)', NEW d \in Dir, d = DirectionOf(kind)
             PROVE  /\ RunningThreads(d)' = {}
                    /\ active'[d] => at'["reader"] = "spawn"
                    /\ \/ filepath'[d] = file
                       \/ at'["reader"] = "spawn" /\ Late' /\ ~active'[d]
  BY DEF RequestsArePrepared, DirectionOf, Dir
<1>1. active \in [Dir -> BOOLEAN] /\ filepath \in [Dir -> Files \cup {Nil}]
  BY DEF TypeOK
<1>2. CASE Store
  <2>1. ~Asked(kind, file)
    BY <1>2, NothingAsked DEF Store, Orderly
  <2>2. at["writer"] = "store" /\ at' = [at EXCEPT !["writer"] = "lock"]
        /\ UNCHANGED <<command, message, sent, inbox, active, thread>>
        /\ filepath' = [filepath EXCEPT ![dir["writer"]] = command.file]
    BY <1>2 DEF Store, Goto
  <2>3. at \in [writer : {"type", "check", "join", "store", "lock", "write", "done"},
               reader : {"read", "flag", "spawn", "unlock", "done"},
               main : {"wait", "stop", "check", "join", "exit", "exited", "undefined"}]
    BY DEF TypeOK
  <2>4. command.kind = kind /\ command.file = file
    BY <2>1, <2>2, <2>3 DEF Asked, ReaderHasOne
  <2>5. dir["writer"] = d
    BY <2>2, <2>4 DEF Orderly, HandsAreFull, WriterHasOne
  <2>6. ~active[d] /\ RunningThreads(d) = {}
    BY <2>2, <2>5 DEF Orderly, WriterMayStore
  <2> QED
    BY <1>1, <2>2, <2>4, <2>5, <2>6 DEF RunningThreads
<1>3. ASSUME ~Store PROVE Asked(kind, file)
  BY <1>3, AskedStep DEF Orderly
<1>4. CASE Spawn \/ SpawnFails
  <2>1. at["reader"] = "spawn" /\ at' = [at EXCEPT !["reader"] = "unlock"] /\ ~Store
        /\ UNCHANGED <<command, sent, inbox>>
    BY <1>4 DEF Spawn, SpawnFails, Goto, Store, TypeOK
  <2>2. ~WriterHasOne /\ ~HasOne(sent) /\ ~HasOne(inbox)
    BY <2>1 DEF Orderly, OneAtATime, ReaderHasOne
  <2>3. at'["writer"] = at["writer"] /\ at'["reader"] = "unlock"
    BY <2>1 DEF TypeOK
  <2>4. FALSE
    BY <2>1, <2>2, <2>3, HeldIsOne DEF Asked, WriterHasOne, ReaderHasOne
  <2> QED
    BY <2>4
<1>5. CASE ~Store /\ ~Spawn /\ ~SpawnFails
  <2>1. /\ RunningThreads(d) = {}
        /\ active[d] => at["reader"] = "spawn"
        /\ filepath[d] = file \/ (at["reader"] = "spawn" /\ Late /\ ~active[d])
    BY <1>3, <1>5 DEF Orderly, RequestsArePrepared
  <2>2. RunningThreads(d)' = {}
    BY <1>1, <1>5, <2>1, OnlySpawnAdds
  <2>3. at["reader"] = "spawn" => at'["reader"] = "spawn"
    BY <1>5, ReaderSpawns
  <2>4. CASE UNCHANGED <<active, filepath, thread_id>>
    BY <2>1, <2>2, <2>3, <2>4, Onward
  <2>5. ASSUME NEW p \in {"writer", "main"}, JoinReturns(p)
        PROVE  /\ active'[d] => at'["reader"] = "spawn"
               /\ \/ filepath'[d] = file
                  \/ at'["reader"] = "spawn" /\ Late' /\ ~active'[d]
    <3>1. CASE p = "writer"
      BY <1>3, <1>5, <2>5, <3>1, JoinEffects, NothingAsked DEF Orderly
    <3>2. CASE p = "main"
      BY <1>1, <2>1, <2>3, <2>5, <3>2, JoinEffects, Onward DEF Late
    <3> QED
      BY <3>1, <3>2
  <2>6. CASE Flag
    BY <2>1, <2>2, <2>6, Onward DEF Flag, Goto, TypeOK
  <2>7. ASSUME NEW t \in Threads, Finish(t)
        PROVE  /\ active'[d] => at'["reader"] = "spawn"
               /\ \/ filepath'[d] = file
                  \/ at'["reader"] = "spawn" /\ Late' /\ ~active'[d]
    <3>1. d # thread[t].dir
      BY <2>1, <2>7, FinishEffects DEF Orderly
    <3> QED
      BY <1>1, <2>1, <2>3, <2>7, <3>1, FinishEffects, Onward DEF Orderly
  <2> QED
    BY <1>5, <2>2, <2>4, <2>5, <2>6, <2>7, FlagsAndPaths
<1> QED
  BY <1>2, <1>4, <1>5

(* The thread that the reader creates is the first of its direction.       *)
LEMMA SpawnEffects ==
  ASSUME TypeOK, Orderly, Spawn
  PROVE  LET d == DirectionOf(message.kind)
         IN /\ d \in Dir /\ (active[d] \/ Late) /\ RunningThreads(d) = {}
            /\ filepath[d] = message.file \/ ~active[d]
            /\ at["reader"] = "spawn" /\ at' = [at EXCEPT !["reader"] = "unlock"]
            /\ \E t \in Threads :
                 /\ thread[t].where = "none"
                 /\ thread' = [thread EXCEPT ![t] = [dir |-> d, where |-> "connect",
                                                    want |-> message.file, file |-> Nil]]
                 /\ thread_id' = [thread_id EXCEPT ![d] = t]
            /\ UNCHANGED <<dir, message, active, filepath, clean_lock>>
            /\ ~UnderWay'
<1> DEFINE d == DirectionOf(message.kind)
<1>1. at["reader"] = "spawn" /\ d \in Dir /\ message.file \in Files \cup {Nil}
  BY DEF Spawn, DirectionOf, Dir, TypeOK, Message
<1>2. message.kind \in Transfers /\ (active[d] \/ Late)
  BY <1>1 DEF Orderly, HandsAreFull, ReaderHasOne, FlagsHaveThreads
<1>3. Asked(message.kind, message.file)
  BY <1>1 DEF Asked, ReaderHasOne
<1>4. (filepath[d] = message.file \/ ~active[d]) /\ RunningThreads(d) = {}
  BY <1>1, <1>2, <1>3 DEF Orderly, RequestsArePrepared
<1>5. ~UnderWay'
  <2>1. ~WriterHasOne /\ ~HasOne(sent) /\ ~HasOne(inbox)
    BY <1>1 DEF Orderly, OneAtATime, ReaderHasOne
  <2> QED
    BY <2>1 DEF Spawn, Goto, TypeOK, UnderWay, WriterHasOne, ReaderHasOne
<1> QED
  BY <1>1, <1>2, <1>4, <1>5 DEF Spawn, StoreId, Goto

(* When the thread cannot be created, no other has the id that is lost.    *)
LEMMA SpawnFailsEffects ==
  ASSUME TypeOK, Orderly, SpawnFails
  PROVE  LET d == DirectionOf(message.kind)
         IN /\ d \in Dir /\ RunningThreads(d) = {}
            /\ at["reader"] = "spawn" /\ at' = [at EXCEPT !["reader"] = "unlock"]
            /\ \E id \in {thread_id[d], Nil} : thread_id' = [thread_id EXCEPT ![d] = id]
            /\ unstarted' = [unstarted EXCEPT ![d] = TRUE]
            /\ UNCHANGED <<dir, message, active, filepath, clean_lock, thread>>
            /\ ~UnderWay'
<1> DEFINE d == DirectionOf(message.kind)
<1>1. at["reader"] = "spawn" /\ d \in Dir /\ message.file \in Files \cup {Nil}
  BY DEF SpawnFails, DirectionOf, Dir, TypeOK, Message
<1>2. message.kind \in Transfers
  BY <1>1 DEF Orderly, HandsAreFull, ReaderHasOne
<1>3. Asked(message.kind, message.file)
  BY <1>1 DEF Asked, ReaderHasOne
<1>4. RunningThreads(d) = {}
  BY <1>1, <1>2, <1>3 DEF Orderly, RequestsArePrepared
<1>5. ~UnderWay'
  <2>1. ~WriterHasOne /\ ~HasOne(sent) /\ ~HasOne(inbox)
    BY <1>1 DEF Orderly, OneAtATime, ReaderHasOne
  <2> QED
    BY <2>1 DEF SpawnFails, Goto, TypeOK, UnderWay, WriterHasOne, ReaderHasOne
<1> QED
  BY <1>1, <1>4, <1>5 DEF SpawnFails, Goto

LEMMA LatestStep ==
  ASSUME TypeOK, ~careless', Orderly, ClientStep
  PROVE  ThreadsAreTheLatest'
<1> SUFFICES ASSUME NEW d \in Dir, NEW t \in RunningThreads(d)'
             PROVE  thread_id'[d] = t /\ (active'[d] \/ (Late' /\ ~UnderWay'))
  BY DEF ThreadsAreTheLatest
<1>0. /\ thread \in [Threads -> Transfer] /\ active \in [Dir -> BOOLEAN]
      /\ thread_id \in [Dir -> Threads \cup {Nil}] /\ t \in Threads
  BY DEF TypeOK, RunningThreads
<1>1. CASE Spawn
  <2> DEFINE e == DirectionOf(message.kind)
  <2>1. PICK u \in Threads :
          /\ thread[u].where = "none"
          /\ thread' = [thread EXCEPT ![u] = [dir |-> e, where |-> "connect",
                                             want |-> message.file, file |-> Nil]]
          /\ thread_id' = [thread_id EXCEPT ![e] = u]
    BY <1>1, SpawnEffects
  <2>2. /\ e \in Dir /\ (active[e] \/ Late) /\ RunningThreads(e) = {} /\ UNCHANGED active
        /\ ~UnderWay' /\ (Late => Late')
    BY <1>1, SpawnEffects, Onward
  <2> HIDE DEF e
  <2>3. CASE t = u
    BY <1>0, <2>1, <2>2, <2>3 DEF RunningThreads
  <2>4. CASE t # u
    <3>1. t \in RunningThreads(d)
      BY <1>0, <2>1, <2>4 DEF RunningThreads
    <3>2. (active[d] \/ Late) /\ thread_id[d] = t /\ d # e
      BY <2>2, <3>1 DEF Orderly, ThreadsAreTheLatest
    <3> QED
      BY <1>0, <2>1, <2>2, <3>2
  <2> QED
    BY <2>3, <2>4
<1>2. CASE SpawnFails
  <2> DEFINE e == DirectionOf(message.kind)
  <2>1. t \in RunningThreads(d) /\ e \in Dir /\ RunningThreads(e) = {}
        /\ UNCHANGED active /\ ~UnderWay' /\ (Late => Late')
        /\ \E id \in {thread_id[e], Nil} : thread_id' = [thread_id EXCEPT ![e] = id]
    BY <1>2, SpawnFailsEffects, Onward DEF RunningThreads
  <2> HIDE DEF e
  <2>2. thread_id[d] = t /\ (active[d] \/ Late) /\ d # e
    BY <2>1 DEF Orderly, ThreadsAreTheLatest
  <2> QED
    BY <1>0, <2>1, <2>2
<1>3. CASE ~Spawn /\ ~SpawnFails
  <2>1. t \in RunningThreads(d) /\ thread_id[d] = t /\ (active[d] \/ (Late /\ ~UnderWay))
    BY <1>3, OnlySpawnAdds DEF Orderly, ThreadsAreTheLatest
  <2>2. Late /\ ~UnderWay => Late' /\ ~UnderWay'
    BY UnderWayStep, Onward
  <2>3. CASE UNCHANGED <<active, filepath, thread_id>>
    BY <2>1, <2>2, <2>3
  <2>4. ASSUME NEW p \in {"writer", "main"}, JoinReturns(p)
        PROVE  thread_id'[d] = t /\ (active'[d] \/ (Late' /\ ~UnderWay'))
    <3>1. d # dir[p]
      BY <2>4, JoinEffects
    <3> QED
      BY <1>0, <2>1, <2>2, <2>4, <3>1, JoinEffects
  <2>5. CASE Store \/ Flag
    BY <1>0, <2>1, <2>2, <2>5 DEF Store, Flag
  <2>6. ASSUME NEW u \in Threads, Finish(u)
        PROVE  thread_id'[d] = t /\ (active'[d] \/ (Late' /\ ~UnderWay'))
    <3>1. /\ thread[u].dir \in Dir /\ thread_id[thread[u].dir] = u
          /\ active' = [active EXCEPT ![thread[u].dir] = FALSE]
          /\ active[thread[u].dir] => thread' = [thread EXCEPT ![u].where = "ended"]
          /\ UNCHANGED thread_id
      BY <2>6, FinishEffects DEF Orderly
    <3>2. CASE thread[u].dir = d
      <4>1. u = t
        BY <2>1, <3>1, <3>2
      <4>2. thread'[t].where # "ended"
        BY DEF RunningThreads
      <4>3. ~active[d]
        BY <1>0, <3>1, <3>2, <4>1, <4>2 DEF Transfer
      <4> QED
        BY <2>1, <2>2, <3>1, <4>3
    <3>3. CASE thread[u].dir # d
      BY <1>0, <2>1, <2>2, <3>1, <3>3
    <3> QED
      BY <3>2, <3>3
  <2> QED
    BY <1>3, <2>3, <2>4, <2>5, <2>6, FlagsAndPaths
<1> QED
  BY <1>1, <1>3, <1>2

LEMMA ThreadChanges ==
  ASSUME ClientStep
  PROVE  UNCHANGED thread \/ Spawn \/ (\E p \in {"writer", "main"} : JoinReturns(p))
         \/ \E t \in Threads : ThreadStep(t)
  BY DEF ClientStep, Type, CheckNothingActive, CheckCancels, Store, Lock, Write, Read,
         Flag, SpawnFails, Unlock, ServerAnswers, ServerReportsFailure, Stops

(* The reader comes to the creation of a thread by raising a flag.         *)
LEMMA ReaderFlags ==
  ASSUME TypeOK, ClientStep, at'["reader"] = "spawn"
  PROVE  Flag \/ (at["reader"] = "spawn" /\ ~Spawn /\ ~SpawnFails)
<1>1. CASE \E p \in {"writer", "main"} :
             CheckNothingActive(p) \/ CheckCancels(p) \/ JoinReturns(p)
  <2>1. at["reader"] = "spawn" /\ at'["reader"] = "spawn"
    BY <1>1, CheckEffects
  <2>2. ~Spawn /\ ~SpawnFails
    BY <2>1 DEF Spawn, SpawnFails, Goto, TypeOK
  <2> QED
    BY <2>1, <2>2
<1>2. CASE \E t \in Threads : ThreadStep(t)
  BY <1>2, ThreadEffects DEF TypeOK, Spawn, SpawnFails, Goto
<1>3. CASE Stops
  BY <1>3 DEF Stops, Spawn, SpawnFails, Goto, TypeOK
<1> QED
  BY <1>1, <1>2, <1>3
  DEF TypeOK, ClientStep, Type, Store, Lock, Write, Read, Flag, Spawn, SpawnFails, Unlock,
      ServerAnswers, ServerReportsFailure, Goto

LEMMA UnstartedStep ==
  ASSUME ClientStep
  PROVE  Spawn \/ SpawnFails \/ UNCHANGED unstarted
  BY DEF ClientStep, Type, CheckNothingActive, CheckCancels, JoinReturns, Store, Lock,
         Write, Read, Flag, Unlock, ServerAnswers, ServerReportsFailure, Stops,
         ThreadStep, ConnectReuse, ConnectOpens, ConnectRefused, OpenFile, TransferEnds,
         TransferFails, Finish, Cancelled

LEMMA FlagsStep ==
  ASSUME TypeOK, Orderly, ClientStep
  PROVE  FlagsHaveThreads'
<1>0. /\ thread \in [Threads -> Transfer] /\ active \in [Dir -> BOOLEAN]
      /\ thread_id \in [Dir -> Threads \cup {Nil}] /\ unstarted \in [Dir -> BOOLEAN]
  BY DEF TypeOK
<1> DEFINE e == DirectionOf(message.kind)
           Known(d, t) == thread_id[d] = t /\ thread[t].dir = d
                          /\ thread[t].where \notin {"none", "joined"}
<1>1. ASSUME NEW d \in Dir, active'[d]
      PROVE  \/ at'["reader"] = "spawn" /\ DirectionOf(message'.kind) = d
             \/ unstarted'[d] \/ \E t \in Threads : Known(d, t)'
  <2>1. active[d] => \/ at["reader"] = "spawn" /\ e = d
                     \/ unstarted[d] \/ \E t \in Threads : Known(d, t)
    BY DEF Orderly, FlagsHaveThreads
  <2>u. Spawn \/ SpawnFails \/ UNCHANGED unstarted
    BY UnstartedStep
  <2>s. CASE SpawnFails
    <3>1. /\ e \in Dir /\ UNCHANGED <<active, thread>>
          /\ unstarted' = [unstarted EXCEPT ![e] = TRUE]
          /\ \E id \in {thread_id[e], Nil} : thread_id' = [thread_id EXCEPT ![e] = id]
      BY <2>s, SpawnFailsEffects
    <3> HIDE DEF e
    <3> QED
      BY <1>0, <1>1, <2>1, <3>1
  <2>2. CASE Spawn
    <3>1. PICK u \in Threads :
            /\ thread[u].where = "none"
            /\ thread' = [thread EXCEPT ![u] = [dir |-> e, where |-> "connect",
                                               want |-> message.file, file |-> Nil]]
            /\ thread_id' = [thread_id EXCEPT ![e] = u]
      BY <2>2, SpawnEffects
    <3>2. e \in Dir /\ UNCHANGED active
      BY <2>2, SpawnEffects
    <3>3. CASE d = e
      BY <1>0, <3>1, <3>3
    <3>4. CASE d # e
      <4>0. unstarted'[d] = unstarted[d]
        BY <1>0, <2>2, <3>2, <3>4 DEF Spawn
      <4>1. CASE unstarted[d]
        BY <4>0, <4>1
      <4>2. ASSUME NEW t \in Threads, Known(d, t) PROVE Known(d, t)'
        <5> HIDE DEF e
        <5> QED
          BY <1>0, <3>1, <3>2, <3>4, <4>2
      <4> QED
        BY <1>1, <2>1, <3>2, <3>4, <4>1, <4>2
    <3> QED
      BY <3>3, <3>4
  <2>3. CASE ~Spawn /\ ~SpawnFails /\ ~active[d]
    <3>1. Flag
      BY <1>0, <1>1, <2>3, FlagsAndPaths, JoinEffects, FinishEffects DEF Orderly, Store
    <3> QED
      BY <1>0, <1>1, <2>3, <3>1 DEF Flag, Goto, TypeOK
  <2>4. CASE ~Spawn /\ ~SpawnFails /\ active[d]
    <3>1. CASE at["reader"] = "spawn" /\ e = d
      BY <2>4, <3>1, ReaderSpawns
    <3>2. ASSUME NEW t \in Threads, Known(d, t) PROVE Known(d, t)'
      <4>1. UNCHANGED thread_id
        BY <2>4, FlagsAndPaths, JoinEffects, FinishEffects DEF Orderly, Store, Flag
      <4>2. thread'[t].dir = d /\ thread'[t].where \notin {"none", "joined"}
        <5>1. ASSUME NEW p \in {"writer", "main"}, JoinReturns(p)
              PROVE  thread'[t].dir = d /\ thread'[t].where \notin {"none", "joined"}
          <6>1. d # dir[p] /\ dir[p] \in Dir
            BY <1>0, <1>1, <5>1, JoinEffects
          <6> QED
            BY <1>0, <3>2, <5>1, <6>1, JoinEffects
        <5>2. ASSUME NEW u \in Threads, ThreadStep(u)
              PROVE  thread'[t].dir = d /\ thread'[t].where \notin {"none", "joined"}
          BY <3>2, <5>2, ThreadEffects
        <5> QED
          BY <2>4, <3>2, <5>1, <5>2, ThreadChanges
      <4> QED
        BY <3>2, <4>1, <4>2
    <3> QED
      BY <2>1, <2>u, <2>4, <3>1, <3>2
  <2> QED
    BY <2>s, <2>2, <2>3, <2>4
<1>2. ASSUME at'["reader"] = "spawn" PROVE active'[DirectionOf(message'.kind)] \/ Late'
  <2>1. e \in Dir
    BY DEF DirectionOf, Dir
  <2>2. CASE Flag
    BY <1>0, <2>1, <2>2 DEF Flag
  <2>3. CASE ~Flag
    <3>1. at["reader"] = "spawn" /\ ~Spawn /\ ~SpawnFails /\ message' = message
      BY <1>2, <2>3, ReaderFlags, ReaderSpawns
    <3>2. message.kind \in Transfers /\ message.file \in Files \cup {Nil}
          /\ (active[e] \/ Late)
      BY <3>1 DEF Orderly, HandsAreFull, ReaderHasOne, FlagsHaveThreads, TypeOK, Message
    <3>3. Asked(message.kind, message.file)
      BY <3>1 DEF Asked, ReaderHasOne
    <3>4. RunningThreads(e) = {}
      BY <3>2, <3>3 DEF Orderly, RequestsArePrepared
    <3>5. ASSUME NEW p \in {"writer", "main"}, JoinReturns(p) PROVE Late
      BY <3>1, <3>5, JoinEffects DEF Orderly, OneAtATime, WriterHasOne, ReaderHasOne, Late
    <3>6. ASSUME NEW t \in Threads, Finish(t) PROVE active'[e] = active[e]
      <4>1. thread[t].dir # e
        BY <3>4, <3>6, FinishEffects DEF Orderly
      <4> QED
        BY <1>0, <2>1, <3>6, <4>1, FinishEffects DEF Orderly
    <3> QED
      BY <2>3, <3>1, <3>2, <3>5, <3>6, FlagsAndPaths, Onward DEF Store
  <2> QED
    BY <2>2, <2>3
<1> QED
  BY <1>1, <1>2 DEF FlagsHaveThreads

(* The lock is taken for a join, and kept until the join returns; nobody   *)
(* takes a flag away, or looks at another direction, in the meantime.      *)
LEMMA JoinsStep ==
  ASSUME TypeOK, Orderly, ClientStep
  PROVE  JoinsAreLocked'
<1> SUFFICES ASSUME NEW p \in {"writer", "main"}, at'[p] = "join"
             PROVE  clean_lock' = p /\ active'[dir'[p]]
  BY DEF JoinsAreLocked
<1>0. /\ at \in [writer : {"type", "check", "join", "store", "lock", "write", "done"},
                 reader : {"read", "flag", "spawn", "unlock", "done"},
                 main : {"wait", "stop", "check", "join", "exit", "exited", "undefined"}]
      /\ dir \in [writer : Dir, main : Dir] /\ active \in [Dir -> BOOLEAN]
  BY DEF TypeOK
<1>1. CASE CheckCancels(p)
  BY <1>1 DEF CheckCancels, InUse
<1>2. CASE ~CheckCancels(p)
  <2>1. ASSUME NEW q \in {"writer", "main"},
               CheckNothingActive(q) \/ CheckCancels(q) \/ JoinReturns(q)
        PROVE  clean_lock' = p /\ active'[dir'[p]]
    <3>1. q # p
      <4>1. ASSUME q = p PROVE ~JoinReturns(q) /\ ~CheckNothingActive(q)
        BY <1>0, <4>1 DEF JoinReturns, CheckNothingActive, AfterCheck, Goto
      <4> QED
        BY <1>2, <2>1, <4>1
    <3>2. at[p] = "join" /\ dir'[p] = dir[p]
      BY <1>0, <2>1, <3>1 DEF CheckNothingActive, CheckCancels, JoinReturns, AfterCheck, Goto
    <3>3. clean_lock = p /\ active[dir[p]] /\ clean_lock # "free"
      BY <3>2 DEF Orderly, JoinsAreLocked
    <3>4. ~JoinReturns(q)
      BY <3>1, <3>3, JoinEffects
    <3> QED
      BY <2>1, <3>3, <3>4 DEF CheckNothingActive, CheckCancels
  <2>2. ASSUME ~\E q \in {"writer", "main"} :
                  CheckNothingActive(q) \/ CheckCancels(q) \/ JoinReturns(q)
        PROVE  clean_lock' = p /\ active'[dir'[p]]
    <3>1. at[p] = "join" /\ dir'[p] = dir[p] /\ UNCHANGED clean_lock
      <4>1. CASE \E t \in Threads : ThreadStep(t)
        BY <1>0, <4>1, ThreadEffects
      <4>2. CASE Stops
        BY <1>0, <4>2 DEF Stops
      <4> QED
        BY <1>0, <2>2, <4>1, <4>2
        DEF ClientStep, Type, Store, Lock, Write, Read, Flag, Spawn, SpawnFails, Unlock, ServerAnswers,
            ServerReportsFailure, Goto
    <3>2. clean_lock = p /\ active[dir[p]] /\ dir[p] \in Dir
      BY <1>0, <3>1 DEF Orderly, JoinsAreLocked
    <3>3. \A t \in Threads : ~Finish(t)
      BY <3>2, FinishEffects DEF Orderly
    <3>4. UNCHANGED active \/ Store \/ Flag \/ Spawn \/ SpawnFails
      BY <2>2, <3>3, FlagsAndPaths
    <3> QED
      BY <1>0, <3>1, <3>2, <3>4 DEF Store, Flag, Spawn, SpawnFails
  <2> QED
    BY <2>1, <2>2
<1> QED
  BY <1>1, <1>2

LEMMA IdsStep ==
  ASSUME TypeOK, Orderly, ClientStep
  PROVE  IdsAreOfThreads'
<1> SUFFICES ASSUME NEW d \in Dir, NEW t \in Threads, thread_id'[d] = t
             PROVE  thread'[t].dir = d /\ thread'[t].where # "none"
  BY DEF IdsAreOfThreads
<1>0. /\ thread \in [Threads -> Transfer] /\ thread_id \in [Dir -> Threads \cup {Nil}]
  BY DEF TypeOK
<1>1. thread_id[d] = t => thread[t].dir = d /\ thread[t].where # "none"
  BY DEF Orderly, IdsAreOfThreads
<1>2. CASE Spawn
  <2> DEFINE e == DirectionOf(message.kind)
  <2>1. PICK u \in Threads :
          /\ thread[u].where = "none"
          /\ thread' = [thread EXCEPT ![u] = [dir |-> e, where |-> "connect",
                                             want |-> message.file, file |-> Nil]]
          /\ thread_id' = [thread_id EXCEPT ![e] = u]
    BY <1>2, SpawnEffects
  <2> QED
    BY <1>0, <1>1, <2>1
<1>3. CASE SpawnFails
  <2> DEFINE e == DirectionOf(message.kind)
  <2>1. /\ UNCHANGED thread /\ t # Nil
        /\ \E id \in {thread_id[e], Nil} : thread_id' = [thread_id EXCEPT ![e] = id]
    BY <1>3, SpawnFailsEffects, ConstantsAssumption DEF Threads
  <2> HIDE DEF e
  <2> QED
    BY <1>0, <1>1, <2>1
<1>4. CASE ~Spawn /\ ~SpawnFails
  <2>1. UNCHANGED thread_id
    BY <1>4, FlagsAndPaths, JoinEffects, FinishEffects DEF Orderly, Store, Flag
  <2>2. ASSUME NEW p \in {"writer", "main"}, JoinReturns(p)
        PROVE  thread'[t].dir = d /\ thread'[t].where # "none"
    <3>1. PICK u \in Threads : thread' = [thread EXCEPT ![u].where = "joined"]
      BY <2>2, JoinEffects
    <3> QED
      BY <1>0, <1>1, <2>1, <3>1
  <2>3. ASSUME NEW u \in Threads, ThreadStep(u)
        PROVE  thread'[t].dir = d /\ thread'[t].where # "none"
    BY <1>1, <2>1, <2>3, ThreadEffects
  <2> QED
    BY <1>1, <1>4, <2>1, <2>2, <2>3, ThreadChanges
<1> QED
  BY <1>2, <1>4, <1>3

LEMMA WriterStores ==
  ASSUME TypeOK, ClientStep, at'["writer"] = "store"
  PROVE  \/ CheckNothingActive("writer") \/ JoinReturns("writer")
         \/ at["writer"] = "store" /\ ~Store /\ UNCHANGED <<dir["writer"], command>>
<1>0. at \in [writer : {"type", "check", "join", "store", "lock", "write", "done"},
              reader : {"read", "flag", "spawn", "unlock", "done"},
              main : {"wait", "stop", "check", "join", "exit", "exited", "undefined"}]
  BY DEF TypeOK
<1>1. ASSUME NEW p \in {"writer", "main"},
             CheckNothingActive(p) \/ CheckCancels(p) \/ JoinReturns(p)
      PROVE  \/ CheckNothingActive("writer") \/ JoinReturns("writer")
             \/ at["writer"] = "store" /\ ~Store /\ UNCHANGED <<dir["writer"], command>>
  <2>1. ~CheckCancels("writer")
    BY <1>0 DEF CheckCancels, Goto
  <2>2. CASE p = "main"
    <3>1. at["writer"] = "store" /\ UNCHANGED <<dir["writer"], command>>
      BY <1>1, <2>2, CheckEffects
    <3>2. ~Store
      BY <1>0 DEF Store, Goto
    <3> QED
      BY <3>1, <3>2
  <2> QED
    BY <1>1, <2>1, <2>2
<1>2. CASE \E t \in Threads : ThreadStep(t)
  <2>1. at["writer"] = "store" /\ UNCHANGED <<dir["writer"], command>>
    BY <1>0, <1>2, ThreadEffects
  <2> QED
    BY <1>0, <2>1 DEF Store, Goto
<1>3. CASE Stops
  BY <1>0, <1>3 DEF Stops, Store, Goto
<1> QED
  BY <1>0, <1>1, <1>2, <1>3
  DEF ClientStep, Type, Store, Lock, Write, Read, Flag, Spawn, SpawnFails, Unlock, ServerAnswers,
      ServerReportsFailure, Goto

LEMMA StoreStep ==
  ASSUME TypeOK, Orderly, ClientStep
  PROVE  WriterMayStore'
<1> SUFFICES ASSUME at'["writer"] = "store", NEW d \in Dir, dir'["writer"] = d
             PROVE  ~active'[d] /\ RunningThreads(d)' = {}
  <2>1. at'["writer"] = "store" => dir'["writer"] \in Dir
    BY CheckEffects, WriterStores DEF TypeOK
  <2> QED
    BY <2>1 DEF WriterMayStore
<1>0. active \in [Dir -> BOOLEAN]
  BY DEF TypeOK
<1>1. CASE CheckNothingActive("writer")
  <2>1. ~active[d] /\ UNCHANGED <<active, thread, dir>> /\ dir["writer"] = d
    BY <1>1 DEF CheckNothingActive, InUse, AfterCheck
  <2>2. UnderWay
    BY <1>1 DEF CheckNothingActive, UnderWay, WriterHasOne
  <2>3. RunningThreads(d) = {}
    BY <1>0, <2>1, <2>2 DEF Orderly, ThreadsAreTheLatest
  <2> QED
    BY <2>1, <2>3 DEF RunningThreads
<1>2. CASE JoinReturns("writer")
  <2>1. dir["writer"] = d
    BY <1>2, CheckEffects
  <2> QED
    BY <1>0, <1>2, <2>1, JoinEffects
<1>3. CASE at["writer"] = "store" /\ ~Store /\ UNCHANGED <<dir["writer"], command>>
  <2>1. dir["writer"] = d /\ ~active[d] /\ RunningThreads(d) = {}
    BY <1>3 DEF Orderly, WriterMayStore
  <2>2. ~Flag /\ ~Spawn /\ ~SpawnFails
    BY <1>3 DEF Orderly, OneAtATime, WriterHasOne, ReaderHasOne, Flag, Spawn, SpawnFails
  <2>3. ~active'[d]
    BY <1>0, <1>3, <2>1, <2>2, FlagsAndPaths, JoinEffects, FinishEffects DEF Orderly
  <2> QED
    BY <2>1, <2>2, <2>3, OnlySpawnAdds
<1> QED
  BY <1>1, <1>2, <1>3, WriterStores

(* A path is changed only where no thread has yet to open it, and a flag   *)
(* is raised only where no thread runs.                                    *)
LEMMA PathsStep ==
  ASSUME TypeOK, Orderly, ClientStep
  PROVE  PathsAreKept' /\ FilesAreTheirOwn'
<1> DEFINE Early == {"connect", "refused", "open"}
           Kept(t) ==
             /\ thread[t].where \in Early =>
                  filepath[thread[t].dir] = thread[t].want \/ ~active[thread[t].dir]
             /\ thread[t].where = "transfer" =>
                  thread[t].file = thread[t].want \/ ~active[thread[t].dir]
<1>0. /\ thread \in [Threads -> Transfer] /\ filepath \in [Dir -> Files \cup {Nil}]
      /\ active \in [Dir -> BOOLEAN]
  BY DEF TypeOK
<1>1. ASSUME NEW t \in Threads PROVE Kept(t)'
  <2>0. thread[t].dir \in Dir
    BY <1>0 DEF Transfer
  <2>1. Kept(t)
    BY DEF Orderly, PathsAreKept, FilesAreTheirOwn
  <2>2. thread[t].where \in Early \cup {"transfer"} =>
          t \in RunningThreads(thread[t].dir) /\ thread_id[thread[t].dir] = t
    BY <2>0 DEF Orderly, ThreadsAreTheLatest, RunningThreads
  <2>3. CASE Spawn
    BY <1>0, <2>1, <2>3, SpawnEffects
  <2>f. CASE SpawnFails
    BY <2>1, <2>f, SpawnFailsEffects
  <2>4. ASSUME NEW p \in {"writer", "main"}, JoinReturns(p) PROVE Kept(t)'
    <3>1. /\ filepath' = [filepath EXCEPT ![dir[p]] = Nil]
          /\ active' = [active EXCEPT ![dir[p]] = FALSE]
          /\ \E u \in Threads : thread' = [thread EXCEPT ![u].where = "joined"]
      BY <2>4, JoinEffects
    <3> QED
      BY <1>0, <2>0, <2>1, <3>1 DEF Transfer
  <2>5. CASE Store
    <3>1. thread[t].where \in Early => thread[t].dir # dir["writer"]
      BY <2>2, <2>5 DEF Store, Orderly, WriterMayStore
    <3> QED
      BY <1>0, <2>0, <2>1, <2>5, <3>1 DEF Store
  <2>6. CASE Flag
    <3> DEFINE e == DirectionOf(message.kind)
    <3>1. /\ active' = [active EXCEPT ![e] = TRUE] /\ at["reader"] = "flag"
          /\ UNCHANGED <<thread, filepath>>
      BY <2>6 DEF Flag
    <3>2. message.kind \in Transfers /\ message.file \in Files \cup {Nil}
      BY <3>1 DEF Orderly, HandsAreFull, ReaderHasOne, TypeOK, Message
    <3>3. Asked(message.kind, message.file)
      BY <3>1 DEF Asked, ReaderHasOne
    <3>4. RunningThreads(e) = {}
      BY <3>2, <3>3 DEF Orderly, RequestsArePrepared
    <3>5. thread[t].where \in Early \cup {"transfer"} => thread[t].dir # e
      BY <2>2, <3>4
    <3> HIDE DEF e
    <3> QED
      BY <1>0, <2>0, <2>1, <3>1, <3>5
  <2>7. ASSUME NEW u \in Threads, ThreadStep(u) PROVE Kept(t)'
    <3>1. UNCHANGED <<active, filepath>> \/ Finish(u)
      BY <2>7 DEF ThreadStep, ConnectReuse, ConnectOpens, ConnectRefused, OpenFile,
         TransferEnds, TransferFails, Cancelled
    <3>2. CASE u # t
      <4>1. thread'[t] = thread[t]
        BY <2>7, <3>2, ThreadEffects
      <4>2. CASE Finish(u)
        <5>1. /\ active' = [active EXCEPT ![thread[u].dir] = FALSE] /\ thread[u].dir \in Dir
              /\ \A e \in Dir : e # thread[u].dir => filepath'[e] = filepath[e]
          BY <4>2, FinishEffects DEF Orderly
        <5> QED
          BY <1>0, <2>0, <2>1, <4>1, <5>1
      <4> QED
        BY <2>1, <3>1, <4>1, <4>2
    <3>3. CASE u = t /\ Finish(t)
      <4>1. ~active'[thread[t].dir]
        BY <1>0, <3>3, FinishEffects DEF Orderly
      <4>2. thread'[t].dir = thread[t].dir
        BY <2>7, <3>3, ThreadEffects
      <4> QED
        BY <4>1, <4>2
    <3>4. CASE u = t /\ ~Finish(u)
      BY <1>0, <2>1, <2>7, <3>1, <3>4
      DEF ThreadStep, ConnectReuse, ConnectOpens, ConnectRefused, OpenFile, TransferEnds,
          TransferFails, Cancelled, Move, Transfer
    <3> QED
      BY <3>2, <3>3, <3>4
  <2>8. CASE UNCHANGED <<thread, filepath, active>>
    BY <2>1, <2>8
  <2> QED
    BY <2>3, <2>f, <2>4, <2>5, <2>6, <2>7, <2>8, ThreadChanges, FlagsAndPaths DEF ThreadStep
<1> QED
  BY <1>1 DEF PathsAreKept, FilesAreTheirOwn

-----------------------------------------------------------------------------
(* How many elements of some kinds a sequence has, with one more at its    *)
(* end and without its first k.                                            *)
Places(s, kinds) == {i \in 1..Len(s) : s[i].kind \in kinds}

LEMMA ManyPlaces ==
  ASSUME NEW S, NEW s \in Seq(S), NEW kinds
  PROVE  /\ IsFiniteSet(Places(s, kinds)) /\ HowMany(s, kinds) \in Nat
         /\ HowMany(s, kinds) = Cardinality(Places(s, kinds))
<1>1. Len(s) \in Nat
  BY LenProperties
<1>2. IsFiniteSet(1..Len(s)) /\ Places(s, kinds) \in SUBSET (1..Len(s))
  BY <1>1, FS_Interval DEF Places
<1>3. IsFiniteSet(Places(s, kinds))
  BY <1>2, FS_Subset
<1>4. HowMany(s, kinds) = Cardinality(Places(s, kinds))
  BY DEF HowMany, Places
<1> QED
  BY <1>3, <1>4, FS_CardinalityType

LEMMA ManyAppended ==
  ASSUME NEW S, NEW s \in Seq(S), NEW e \in S, NEW kinds
  PROVE  HowMany(Append(s, e), kinds) = HowMany(s, kinds) + One(e.kind \in kinds)
<1> DEFINE more == Append(s, e)
<1>1. Len(s) \in Nat
  BY LenProperties
<1>2. /\ more \in Seq(S) /\ Len(more) = Len(s) + 1
      /\ \A i \in 1..Len(s) : more[i] = s[i]
      /\ more[Len(s) + 1] = e
  BY AppendProperties
<1> HIDE DEF more
<1>3. Len(s) + 1 \notin Places(s, kinds)
  BY <1>1 DEF Places
<1>4. CASE e.kind \in kinds
  <2>1. Places(more, kinds) = Places(s, kinds) \cup {Len(s) + 1}
    BY <1>1, <1>2, <1>4 DEF Places
  <2>2. Cardinality(Places(more, kinds)) = Cardinality(Places(s, kinds)) + 1
    BY <1>3, <2>1, ManyPlaces, FS_AddElement
  <2> QED
    BY <1>2, <1>4, <2>2, ManyPlaces DEF One, more
<1>5. CASE e.kind \notin kinds
  <2>1. Places(more, kinds) = Places(s, kinds)
    BY <1>1, <1>2, <1>5 DEF Places
  <2>2. HowMany(more, kinds) = HowMany(s, kinds) /\ HowMany(s, kinds) \in Nat
    BY <1>2, <2>1, ManyPlaces
  <2> QED
    BY <1>5, <2>2 DEF One, more
<1> QED
  BY <1>4, <1>5

LEMMA ManyLeft ==
  ASSUME NEW S, NEW s \in Seq(S), NEW k \in 1..Len(s), NEW kinds
  PROVE  LET rest == SubSeq(s, k + 1, Len(s))
         IN HowMany(rest, kinds) + One(\E i \in 1..k : s[i].kind \in kinds)
              <= HowMany(s, kinds)
<1> DEFINE rest == SubSeq(s, k + 1, Len(s))
           T == {i \in Places(s, kinds) : i > k}
<1>1. Len(s) \in Nat /\ \A i \in 1..Len(s) : s[i] \in S
  BY LenProperties, ElementOfSeq
<1>2. k \in Nat /\ k >= 1 /\ k <= Len(s)
  BY <1>1
<1>3. /\ rest \in Seq(S)
      /\ Len(rest) = Len(s) - k
      /\ \A i \in 1..Len(rest) : k + i \in 1..Len(s) /\ k + i > k /\ rest[i] = s[k + i]
  <2>1. \A i \in (k + 1)..Len(s) : s[i] \in S
    BY <1>1, <1>2
  <2>2. /\ rest \in Seq(S)
        /\ Len(rest) = IF k + 1 <= Len(s) THEN Len(s) - (k + 1) + 1 ELSE 0
        /\ \A i \in 1..(Len(s) - (k + 1) + 1) : rest[i] = s[k + 1 + i - 1]
    BY <1>1, <1>2, <2>1, SubSeqProperties
  <2>3. Len(rest) = Len(s) - k
    BY <1>1, <1>2, <2>2
  <2> HIDE DEF rest
  <2> QED
    BY <1>1, <1>2, <2>2, <2>3
<1> HIDE DEF rest
<1>4. Cardinality(Places(rest, kinds)) <= Cardinality(T) /\ IsFiniteSet(T)
      /\ Cardinality(T) \in Nat
  <2> DEFINE f == [i \in Places(rest, kinds) |-> k + i]
  <2>1. IsFiniteSet(T) /\ Cardinality(T) \in Nat
    <3>1. T \in SUBSET Places(s, kinds)
      OBVIOUS
    <3> QED
      BY <3>1, ManyPlaces, FS_Subset, FS_CardinalityType
  <2>2. \A i \in Places(rest, kinds) : i \in Nat /\ k + i \in T
    BY <1>1, <1>2, <1>3 DEF Places
  <2>3. f \in [Places(rest, kinds) -> T]
    BY <2>2
  <2>4. \A i, j \in Places(rest, kinds) : f[i] = f[j] => i = j
    BY <1>2, <2>2
  <2>5. f \in Injection(Places(rest, kinds), T)
    BY <2>3, <2>4 DEF Injection, IsInjective
  <2> QED
    BY <2>1, <2>5, FS_Injection
<1>5. Cardinality(T) + One(\E i \in 1..k : s[i].kind \in kinds)
        <= Cardinality(Places(s, kinds))
  <2>1. CASE \E i \in 1..k : s[i].kind \in kinds
    <3>1. PICK i \in 1..k : s[i].kind \in kinds
      BY <2>1
    <3>2. i \in Places(s, kinds) /\ i \notin T
      BY <1>1, <1>2, <3>1 DEF Places
    <3>3. T \in SUBSET (Places(s, kinds) \ {i})
      BY <3>2
    <3>4. /\ IsFiniteSet(Places(s, kinds) \ {i})
          /\ Cardinality(Places(s, kinds) \ {i}) = Cardinality(Places(s, kinds)) - 1
      BY <3>2, ManyPlaces, FS_RemoveElement
    <3>5. Cardinality(T) <= Cardinality(Places(s, kinds) \ {i})
      BY <3>3, <3>4, FS_Subset
    <3>6. Cardinality(Places(s, kinds)) \in Nat
      BY ManyPlaces
    <3> HIDE DEF T
    <3> QED
      BY <1>4, <2>1, <3>4, <3>5, <3>6 DEF One
  <2>2. CASE ~\E i \in 1..k : s[i].kind \in kinds
    <3>1. T \in SUBSET Places(s, kinds)
      OBVIOUS
    <3>2. Cardinality(T) <= Cardinality(Places(s, kinds))
      BY <3>1, ManyPlaces, FS_Subset
    <3> HIDE DEF T
    <3> QED
      BY <1>4, <2>2, <3>2 DEF One
  <2> QED
    BY <2>1, <2>2
<1>6. /\ HowMany(rest, kinds) = Cardinality(Places(rest, kinds))
      /\ HowMany(s, kinds) = Cardinality(Places(s, kinds))
      /\ HowMany(rest, kinds) \in Nat /\ HowMany(s, kinds) \in Nat
  BY <1>3, ManyPlaces
<1> HIDE DEF T
<1> DEFINE gone == One(\E i \in 1..k : s[i].kind \in kinds)
<1>7. gone \in Nat /\ Cardinality(T) + gone <= Cardinality(Places(s, kinds))
  BY <1>5 DEF One
<1> HIDE DEF gone
<1>8. HowMany(rest, kinds) + gone <= HowMany(s, kinds)
  BY <1>4, <1>6, <1>7
<1> QED
  BY <1>8 DEF rest, gone

Commands == {"put", "get", "names", "other"}
AnswerKinds == {"put", "get", "text"}

(* The server has an answer for those it has read only if a command is     *)
(* among them.                                                             *)
LEMMA AnswersToCommands ==
  ASSUME TypeOK, ReportsOnly, NEW k \in 1..Len(sent), ServerAnswers(k)
  PROVE  \/ inbox' = inbox
         \/ \E m \in Message :
              /\ inbox' = Append(inbox, m)
              /\ m.kind \in AnswerKinds => \E i \in 1..k : sent[i].kind \in Commands
<1> DEFINE s == SubSeq(sent, 1, k)
<1>1. sent \in Seq(Command) /\ inbox \in Seq(Message) /\ Len(sent) \in Nat
      /\ \A i \in 1..Len(sent) : sent[i] \in Command
  BY LenProperties, ElementOfSeq DEF TypeOK
<1>2. /\ 1 \in 1..Len(sent) /\ k \in Nat /\ k <= Len(sent) /\ 1 \in 1..k
      /\ \A i \in 1..k : sent[i] \in Command
  BY <1>1
<1>3. /\ Head(s) = sent[1] /\ DOMAIN s = 1..k /\ \A i \in 1..k : s[i] = sent[i]
  <2>1. /\ s \in Seq(Command) /\ Len(s) = k /\ \A i \in 1..k : s[i] = sent[i]
    BY <1>1, <1>2, SubSeqProperties
  <2>2. DOMAIN s = 1..Len(s)
    BY <2>1, LenProperties
  <2> QED
    BY <1>1, <1>2, <2>1, <2>2, HeadTailOfSubSeq
<1> HIDE DEF s
<1>4. PICK a \in Answers(s) : inbox' = inbox \o a
  BY DEF ServerAnswers, s
<1>5. \A i \in 1..k : sent[i] # Report => sent[i].kind \in Commands
  BY <1>2 DEF ReportsOnly, Command, Commands
<1>6. \/ a = <<>>
      \/ \E m \in Message :
           a = <<m>> /\ (m.kind \in AnswerKinds => \E i \in 1..k : sent[i].kind \in Commands)
  <2>1. CASE sent[1] = Report
    BY <1>3, <1>5, <2>1 DEF Answers, Say, Message, AnswerKinds
  <2>2. CASE sent[1] # Report
    <3>1. sent[1].kind \in Commands /\ sent[1].file \in Files \cup {Nil}
      BY <1>2, <1>5, <2>2 DEF Command
    <3>2. \A name \in TransferNames : Say(name) \in Message
      BY ConstantsAssumption DEF Say, Message
    <3>3. CASE a \in Posing
      BY <1>2, <3>1, <3>2, <3>3 DEF Posing
    <3>4. CASE a \notin Posing
      BY <1>2, <1>3, <2>2, <3>1, <3>4 DEF Answers, Say, Message
    <3> QED
      BY <3>3, <3>4
  <2> QED
    BY <2>1, <2>2
<1>7. inbox \o <<>> = inbox /\ \A m \in Message : inbox \o <<m>> = Append(inbox, m)
  BY <1>1, ConcatEmptySeq, AppendIsConcat
<1> QED
  BY <1>4, <1>6, <1>7

LEMMA ReportsStep ==
  ASSUME TypeOK, ReportsOnly, ClientStep
  PROVE  ReportsOnly'
<1> USE DEF ReportsOnly
<1>0. sent \in Seq(Command) /\ Len(sent) \in Nat
  BY LenProperties DEF TypeOK
<1>1. CASE Write
  <2>1. /\ sent' = Append(sent, command) /\ command' = Blank
        /\ Len(sent') = Len(sent) + 1
        /\ \A i \in 1..Len(sent) : sent'[i] = sent[i]
        /\ sent'[Len(sent) + 1] = command
    BY <1>0, <1>1, AppendProperties DEF Write, TypeOK
  <2> QED
    BY <1>0, <2>1 DEF Blank
<1>2. ASSUME NEW t \in Threads, ThreadStep(t) PROVE ReportsOnly'
  <2>1. UNCHANGED command /\ (sent' = sent \/ sent' = Append(sent, Report))
    BY <1>2, ThreadEffects
  <2>2. CASE sent' = Append(sent, Report)
    <3>1. Report \in Command
      BY DEF Report, Command
    <3>2. /\ Len(sent') = Len(sent) + 1
          /\ \A i \in 1..Len(sent) : sent'[i] = sent[i]
          /\ sent'[Len(sent) + 1] = Report
      BY <1>0, <2>2, <3>1, AppendProperties
    <3> QED
      BY <1>0, <2>1, <3>2
  <2> QED
    BY <2>1, <2>2
<1>3. ASSUME NEW k \in 1..Len(sent), ServerAnswers(k) PROVE ReportsOnly'
  <2> DEFINE rest == SubSeq(sent, k + 1, Len(sent))
  <2>1. k \in Nat /\ k <= Len(sent) /\ k >= 1
    BY <1>0
  <2>2. \A i \in (k + 1)..Len(sent) : sent[i] \in Command
    BY <1>0, <2>1, ElementOfSeq
  <2>3. /\ Len(rest) = IF k + 1 <= Len(sent) THEN Len(sent) - (k + 1) + 1 ELSE 0
        /\ \A i \in 1..(Len(sent) - (k + 1) + 1) : rest[i] = sent[k + 1 + i - 1]
    BY <1>0, <2>1, <2>2, SubSeqProperties
  <2>4. rest = sent' /\ UNCHANGED command
    BY <1>3 DEF ServerAnswers
  <2> HIDE DEF rest
  <2>5. \A i \in 1..Len(rest) : k + i \in 1..Len(sent) /\ rest[i] = sent[k + i]
    BY <1>0, <2>1, <2>3
  <2> QED
    BY <2>4, <2>5
<1>4. ASSUME NEW c \in Typeable, Type(c, Dealt) PROVE ReportsOnly'
  BY <1>4 DEF Type, Typeable
<1>5. CASE \E p \in {"writer", "main"} :
             CheckNothingActive(p) \/ CheckCancels(p) \/ JoinReturns(p)
  BY <1>5, CheckEffects DEF netVars
<1>6. CASE Stops
  BY <1>6 DEF Stops
<1> QED
  BY <1>1, <1>2, <1>3, <1>4, <1>5, <1>6
  DEF ClientStep, Store, Lock, Read, Flag, Spawn, SpawnFails, Unlock, ServerReportsFailure

LEMMA TokensStep ==
  ASSUME TypeOK, ReportsOnly, Tokens, ClientStep
  PROVE  Tokens'
<1> DEFINE c == HowMany(sent, Commands)
           a == HowMany(inbox, AnswerKinds)
           w == One(at["writer"] = "write")
           r == One(at["reader"] \in {"flag", "spawn", "unlock"})
           f == One(~lock)
           cc == HowMany(sent', Commands)
           aa == HowMany(inbox', AnswerKinds)
           ww == One(at'["writer"] = "write")
           rr == One(at'["reader"] \in {"flag", "spawn", "unlock"})
           ff == One(~lock')
<1>0. /\ at \in [writer : {"type", "check", "join", "store", "lock", "write", "done"},
                  reader : {"read", "flag", "spawn", "unlock", "done"},
                  main : {"wait", "stop", "check", "join", "exit", "exited", "undefined"}]
      /\ sent \in Seq(Command) /\ inbox \in Seq(Message) /\ command \in Command
      /\ early \in Nat /\ lock \in BOOLEAN
  BY DEF TypeOK
<1>1. c + a + w + r + f <= 1 + early
  BY DEF Tokens, Commands, AnswerKinds
<1>2. cc + aa + ww + rr + ff <= 1 + early' => Tokens'
  BY DEF Tokens, Commands, AnswerKinds
<1>3. /\ c \in Nat /\ a \in Nat /\ w \in {0, 1} /\ r \in {0, 1} /\ f \in {0, 1}
      /\ ww \in {0, 1} /\ rr \in {0, 1} /\ ff \in {0, 1}
  BY <1>0, ManyPlaces DEF One
<1>4. (sent' = sent => cc = c) /\ (inbox' = inbox => aa = a)
  OBVIOUS
<1>5. /\ at'["writer"] = at["writer"] => ww = w
      /\ at'["reader"] = at["reader"] => rr = r
      /\ lock' = lock => ff = f
  BY DEF One
<1> SUFFICES cc + aa + ww + rr + ff <= 1 + early'
  BY <1>2
<1>6. ASSUME NEW d \in Typeable, Type(d, Dealt) PROVE cc + aa + ww + rr + ff <= 1 + early'
  <2>1. ww = 0 /\ at'["reader"] = at["reader"] /\ UNCHANGED <<sent, inbox, lock, early>>
    BY <1>0, <1>6 DEF Type, Goto, One, netVars
  <2> HIDE DEF c, a, w, r, f, cc, aa, ww, rr, ff
  <2> QED
    BY <1>0, <1>1, <1>3, <1>4, <1>5, <2>1
<1>7. ASSUME NEW p \in {"writer", "main"},
             CheckNothingActive(p) \/ CheckCancels(p) \/ JoinReturns(p)
      PROVE  cc + aa + ww + rr + ff <= 1 + early'
  <2>1. UNCHANGED <<sent, inbox, lock, early>> /\ at'["reader"] = at["reader"]
    BY <1>7, CheckEffects DEF netVars, userVars
  <2>2. ww = 0 \/ ww = w
    BY <1>7, CheckEffects DEF One
  <2>3. cc = c /\ aa = a /\ rr = r /\ ff = f /\ early' = early /\ early \in Nat
    BY <1>0, <1>4, <1>5, <2>1
  <2> HIDE DEF c, a, w, r, f, cc, aa, ww, rr, ff
  <2> QED
    BY <1>1, <1>3, <2>2, <2>3
<1>8. CASE Store
  <2>1. ww = 0 /\ at'["reader"] = at["reader"] /\ UNCHANGED <<sent, inbox, lock, early>>
    BY <1>0, <1>8 DEF Store, Goto, One, netVars
  <2> HIDE DEF c, a, w, r, f, cc, aa, ww, rr, ff
  <2> QED
    BY <1>0, <1>1, <1>3, <1>4, <1>5, <2>1
<1>9. CASE Lock
  <2>1. /\ ww = 1 /\ w = 0 /\ f = 1 /\ ff = 0 /\ at'["reader"] = at["reader"]
        /\ UNCHANGED <<sent, inbox, early>>
    BY <1>0, <1>9 DEF Lock, LockIsFree, Goto, One, netVars
  <2> HIDE DEF c, a, w, r, f, cc, aa, ww, rr, ff
  <2> QED
    BY <1>0, <1>1, <1>3, <1>4, <1>5, <2>1
<1>10. CASE Write
  <2>1. w = 1 /\ ww = 0 /\ at'["reader"] = at["reader"] /\ UNCHANGED <<inbox, lock, early>>
    BY <1>0, <1>10 DEF Write, Goto, One
  <2>2. cc = c + One(command.kind \in Commands)
    BY <1>0, <1>10, ManyAppended DEF Write
  <2>3. One(command.kind \in Commands) \in {0, 1}
    BY DEF One
  <2> DEFINE o == One(command.kind \in Commands)
  <2> HIDE DEF c, a, w, r, f, cc, aa, ww, rr, ff, o
  <2> QED
    BY <1>0, <1>1, <1>3, <1>4, <1>5, <2>1, <2>2, <2>3 DEF o
<1>11. ASSUME NEW k \in 1..Len(inbox), Read(k)
       PROVE  cc + aa + ww + rr + ff <= 1 + early'
  <2> DEFINE got == \E i \in 1..k : inbox[i].kind \in AnswerKinds
  <2>1. /\ r = 0 /\ at'["writer"] = at["writer"] /\ UNCHANGED <<sent, lock>>
        /\ inbox' = SubSeq(inbox, k + 1, Len(inbox))
    BY <1>0, <1>11 DEF Read, Goto, One
  <2>2. early' = IF got THEN early ELSE early + 1
    <3>1. \A i \in 1..k : IsAnswer(inbox[i]) <=> inbox[i].kind \in AnswerKinds
      <4>1. \A i \in 1..k : inbox[i] \in Message
        BY <1>0, LenProperties, ElementOfSeq
      <4> QED
        BY <4>1 DEF IsAnswer, Message, AnswerKinds
    <3> QED
      BY <1>11, <3>1 DEF Read
  <2>3. aa + One(got) <= a /\ aa \in Nat
    <3>1. inbox' \in Seq(Message)
      BY <1>0, <2>1, RestHolds
    <3> QED
      BY <1>0, <2>1, <3>1, ManyLeft, ManyPlaces
  <2>4. One(got) = IF got THEN 1 ELSE 0
    BY DEF One
  <2> DEFINE o == One(got)
  <2> HIDE DEF c, a, w, r, f, cc, aa, ww, rr, ff, got, o
  <2>5. (o = 1 /\ early' = early) \/ (o = 0 /\ early' = early + 1)
    BY <2>2, <2>4 DEF o
  <2>6. aa + o <= a /\ aa \in Nat
    BY <2>3 DEF o
  <2>7. cc = c /\ ww = w /\ ff = f /\ early \in Nat
    BY <1>0, <1>4, <1>5, <2>1
  <2>8. r = 0
    BY <2>1
  <2> QED
    BY <1>1, <1>3, <2>5, <2>6, <2>7, <2>8
<1>12. CASE Flag \/ Spawn \/ SpawnFails
  <2>1. /\ rr = 1 /\ r = 1 /\ at'["writer"] = at["writer"]
        /\ UNCHANGED <<sent, inbox, lock, early>>
    BY <1>0, <1>12 DEF Flag, Spawn, SpawnFails, Goto, One, netVars, userVars
  <2> HIDE DEF c, a, w, r, f, cc, aa, ww, rr, ff
  <2> QED
    BY <1>0, <1>1, <1>3, <1>4, <1>5, <2>1
<1>13. CASE Unlock
  <2>1. /\ rr = 0 /\ r = 1 /\ at'["writer"] = at["writer"]
        /\ UNCHANGED <<sent, inbox, early>>
    BY <1>0, <1>13 DEF Unlock, Goto, One, netVars, userVars
  <2> HIDE DEF c, a, w, r, f, cc, aa, ww, rr, ff
  <2> QED
    BY <1>0, <1>1, <1>3, <1>4, <1>5, <2>1
<1>14. ASSUME NEW t \in Threads, ThreadStep(t)
       PROVE  cc + aa + ww + rr + ff <= 1 + early'
  <2>1. cc = c
    <3>1. sent' = sent \/ sent' = Append(sent, Report)
      BY <1>14, ThreadEffects
    <3>2. Report \in Command /\ One(Report.kind \in Commands) = 0
      BY DEF Report, Command, Commands, One
    <3>3. CASE sent' = Append(sent, Report)
      <4>1. cc = c + 0
        BY <1>0, <3>2, <3>3, ManyAppended
      <4> HIDE DEF c, cc
      <4> QED
        BY <1>3, <4>1
    <3> QED
      BY <3>1, <3>3
  <2>2. /\ at'["writer"] = at["writer"] /\ at'["reader"] = at["reader"]
        /\ UNCHANGED <<inbox, lock, early>>
    BY <1>0, <1>14, ThreadEffects
  <2> HIDE DEF c, a, w, r, f, cc, aa, ww, rr, ff
  <2> QED
    BY <1>0, <1>1, <1>3, <1>4, <1>5, <2>1, <2>2
<1>15. ASSUME NEW k \in 1..Len(sent), ServerAnswers(k)
       PROVE  cc + aa + ww + rr + ff <= 1 + early'
  <2> DEFINE taken == One(\E i \in 1..k : sent[i].kind \in Commands)
  <2>1. UNCHANGED <<at, lock, early>> /\ sent' = SubSeq(sent, k + 1, Len(sent))
    BY <1>15 DEF ServerAnswers, procVars, userVars
  <2>2. cc + taken <= c /\ cc \in Nat /\ taken \in {0, 1}
    <3>1. sent' \in Seq(Command)
      BY <1>0, <2>1, RestHolds
    <3>2. taken \in {0, 1}
      BY DEF One
    <3> QED
      BY <1>0, <2>1, <3>1, <3>2, ManyLeft, ManyPlaces
  <2>3. aa = a \/ (aa = a + 1 /\ taken = 1)
    <3>1. CASE inbox' = inbox
      BY <1>4, <3>1
    <3>2. ASSUME NEW m \in Message, inbox' = Append(inbox, m),
                 m.kind \in AnswerKinds => \E i \in 1..k : sent[i].kind \in Commands
          PROVE  aa = a \/ (aa = a + 1 /\ taken = 1)
      <4>1. aa = a + One(m.kind \in AnswerKinds)
        BY <1>0, <3>2, ManyAppended
      <4>2. CASE m.kind \in AnswerKinds
        BY <3>2, <4>1, <4>2 DEF One
      <4>3. CASE m.kind \notin AnswerKinds
        <5>1. aa = a + 0
          BY <4>1, <4>3 DEF One
        <5>2. a \in Nat
          BY <1>3
        <5> HIDE DEF a, aa
        <5> QED
          BY <5>1, <5>2
      <4> QED
        BY <4>2, <4>3
    <3> QED
      BY <1>15, <3>1, <3>2, AnswersToCommands
  <2>4. ww = w /\ rr = r /\ ff = f /\ early' = early /\ early \in Nat
    BY <1>0, <1>5, <2>1
  <2> HIDE DEF c, a, w, r, f, cc, aa, ww, rr, ff, taken
  <2> QED
    BY <1>1, <1>3, <2>2, <2>3, <2>4
<1>16. CASE ServerReportsFailure
  <2>1. UNCHANGED <<at, lock, early, sent>> /\ inbox' = Append(inbox, Say("failed"))
    BY <1>16 DEF ServerReportsFailure, procVars
  <2>2. Say("failed") \in Message /\ One(Say("failed").kind \in AnswerKinds) = 0
    BY DEF Say, Message, AnswerKinds, One
  <2>3. aa = a + 0
    BY <1>0, <2>1, <2>2, ManyAppended
  <2> HIDE DEF c, a, w, r, f, cc, aa, ww, rr, ff
  <2> QED
    BY <1>0, <1>1, <1>3, <1>4, <1>5, <2>1, <2>3
<1>17. CASE Stops
  <2>1. UNCHANGED <<sent, inbox, lock, early>>
    BY <1>17 DEF Stops
  <2>2. (ww = 0 \/ ww = w) /\ (rr = 0 \/ rr = r)
    BY <1>17 DEF Stops, One
  <2>3. cc = c /\ aa = a /\ ff = f /\ early' = early /\ early \in Nat
    BY <1>0, <1>4, <1>5, <2>1
  <2> HIDE DEF c, a, w, r, f, cc, aa, ww, rr, ff
  <2> QED
    BY <1>1, <1>3, <2>2, <2>3
<1> QED
  BY <1>6, <1>7, <1>8, <1>9, <1>10, <1>11, <1>12, <1>13, <1>14, <1>15, <1>16, <1>17
  DEF ClientStep

-----------------------------------------------------------------------------
LEMMA InitIInv == Init => IInv
<1> SUFFICES ASSUME Init PROVE IInv
  OBVIOUS
<1>1. <<>> \in Seq(Command) /\ <<>> \in Seq(Message) /\ Len(<<>>) = 0
  BY EmptySeq
<1>2. TypeOK
  <2>1. Blank \in Command /\ Say("text") \in Message /\ Unborn \in Transfer
    BY DEF Blank, Say, Unborn, Command, Message, Transfer, Dir
  <2>2. /\ at \in [writer : {"type", "check", "join", "store", "lock", "write", "done"},
                   reader : {"read", "flag", "spawn", "unlock", "done"},
                   main : {"wait", "stop", "check", "join", "exit", "exited", "undefined"}]
        /\ dir \in [writer : Dir, main : Dir]
    BY DEF Init, Dir
  <2>3. sent \in Seq(Command) /\ inbox \in Seq(Message)
    BY <1>1, Zenon DEF Init
  <2>4. /\ active \in [Dir -> BOOLEAN] /\ filepath \in [Dir -> Files \cup {Nil}]
        /\ thread_id \in [Dir -> Threads \cup {Nil}] /\ thread \in [Threads -> Transfer]
    BY <2>1 DEF Init
  <2>5. {typed, failures, early} \subseteq Nat
    BY DEF Init
  <2> QED
    BY <2>1, <2>2, <2>3, <2>4, <2>5 DEF Init, TypeOK
<1>3. \A d \in Dir : RunningThreads(d) = {}
  BY DEF Init, RunningThreads, Unborn
<1>4. \A kind, file : ~Asked(kind, file)
  BY <1>1 DEF Init, Asked, Holds, ReaderHasOne
<1>5. Orderly
  <2>1. \A t \in Threads : t # Nil
    BY ConstantsAssumption DEF Threads
  <2> QED
    BY <1>3, <1>4, <2>1, NothingInEmpty
    DEF Init, Orderly, OneAtATime, WriterHasOne, ReaderHasOne, HandsAreFull,
        RequestsArePrepared, WriterMayStore, ThreadsAreTheLatest, FlagsHaveThreads,
        JoinsAreLocked, IdsAreOfThreads, PathsAreKept, FilesAreTheirOwn, Unborn
<1>6. Tokens
  <2>1. Places(<<>>, {"put", "get", "names", "other"}) = {} /\ Places(<<>>, {"put", "get", "text"}) = {}
    BY <1>1 DEF Places
  <2>2. HowMany(<<>>, {"put", "get", "names", "other"}) = 0 /\ HowMany(<<>>, {"put", "get", "text"}) = 0
    BY <1>1, <2>1, ManyPlaces, FS_EmptySet
  <2> QED
    BY <2>2 DEF Init, Tokens, One
<1>7. ReportsOnly
  BY <1>1 DEF Init, ReportsOnly, Blank
<1> QED
  BY <1>2, <1>5, <1>6, <1>7 DEF IInv

LEMMA InvStep ==
  ASSUME IInv, [Next]_vars
  PROVE  IInv'
<1>1. TypeOK /\ TypeOK' /\ ClientStep
  BY TypeStep, NextSteps DEF IInv
<1>2. Tokens' /\ ReportsOnly'
  BY <1>1, TokensStep, ReportsStep DEF IInv
<1>3. ASSUME ~careless' PROVE Orderly'
  <2>1. Orderly
    BY <1>1, <1>3, Onward DEF IInv
  <2>2. OneAtATime' /\ HandsAreFull'
    BY <1>1, <1>3, <2>1, OneStep DEF Orderly
  <2>3. RequestsArePrepared' /\ WriterMayStore'
    BY <1>1, <1>3, <2>1, PreparedStep, StoreStep
  <2>4. ThreadsAreTheLatest' /\ FlagsHaveThreads'
    BY <1>1, <1>3, <2>1, LatestStep, FlagsStep
  <2>5. JoinsAreLocked' /\ IdsAreOfThreads'
    BY <1>1, <2>1, JoinsStep, IdsStep
  <2>6. PathsAreKept' /\ FilesAreTheirOwn'
    BY <1>1, <2>1, PathsStep
  <2> QED
    BY <2>2, <2>3, <2>4, <2>5, <2>6 DEF Orderly
<1> QED
  BY <1>1, <1>2, <1>3 DEF IInv

(* A transfer is pending from when it is typed until its thread exists:    *)
(* only typing makes one, and the creation of its thread is its end.       *)
Pending(kind, file) ==
  \/ WriterHasOne /\ command.kind = kind /\ command.file = file
  \/ Asked(kind, file)

LEMMA OnlyTypingAdds ==
  ASSUME IInv, ~careless', [Next]_vars
  PROVE  \/ \E c \in Typeable : Type(c, Dealt)
         \/ \A kind \in Transfers, file \in Files \cup {Nil} :
              Pending(kind, file)' => Pending(kind, file) /\ ~Spawn
<1> SUFFICES ASSUME ~\E c \in Typeable : Type(c, Dealt),
                    NEW kind \in Transfers, NEW file \in Files \cup {Nil},
                    Pending(kind, file)'
             PROVE  Pending(kind, file) /\ ~Spawn
  OBVIOUS
<1>1. TypeOK /\ Orderly /\ ClientStep
  BY NextSteps, Onward DEF IInv
<1>2. at \in [writer : {"type", "check", "join", "store", "lock", "write", "done"},
             reader : {"read", "flag", "spawn", "unlock", "done"},
             main : {"wait", "stop", "check", "join", "exit", "exited", "undefined"}]
  BY <1>1 DEF TypeOK
<1>3. ~Spawn
  <2>0. /\ Holds(sent', kind, file) => HasOne(sent')
        /\ Holds(inbox', kind, file) => HasOne(inbox')
    BY HeldIsOne
  <2>1. UnderWay'
    BY <2>0 DEF Pending, Asked, UnderWay, WriterHasOne, ReaderHasOne
  <2> QED
    BY <1>1, <2>1, SpawnEffects
<1> SUFFICES Pending(kind, file)
  BY <1>3
<1>4. CASE Asked(kind, file)'
  <2>1. CASE Store
    BY <1>2, <1>4, <2>1 DEF Store, Goto, Asked, Pending, WriterHasOne, ReaderHasOne
  <2>2. CASE ~Store
    BY <1>1, <1>4, <2>2, AskedStep DEF Orderly, Pending
  <2> QED
    BY <2>1, <2>2
<1>5. CASE WriterHasOne' /\ command'.kind = kind /\ command'.file = file
           /\ ~Asked(kind, file)'
  <2>0. at'["writer"] \in {"check", "join", "store"}
    BY <1>5 DEF Asked, WriterHasOne
  <2>1. ASSUME NEW p \in {"writer", "main"},
               CheckNothingActive(p) \/ CheckCancels(p) \/ JoinReturns(p)
        PROVE  UNCHANGED command /\ WriterHasOne
    BY <1>1, <1>2, <2>0, <2>1, CheckEffects DEF WriterHasOne
  <2>2. ASSUME NEW t \in Threads, ThreadStep(t)
        PROVE  UNCHANGED command /\ WriterHasOne
    BY <1>1, <1>2, <2>0, <2>2, ThreadEffects DEF WriterHasOne
  <2>3. ASSUME Store \/ Lock \/ Write \/ Flag \/ Spawn \/ SpawnFails \/ Unlock
               \/ \E k \in 1..Len(inbox) : Read(k)
        PROVE  UNCHANGED command /\ WriterHasOne
    BY <1>2, <2>0, <2>3 DEF Store, Lock, Write, Flag, Spawn, SpawnFails, Unlock, Read,
       Goto, WriterHasOne
  <2>4. ASSUME \/ ServerReportsFailure \/ Stops
               \/ \E k \in 1..Len(sent) : ServerAnswers(k)
        PROVE  UNCHANGED command /\ WriterHasOne
    BY <1>2, <2>0, <2>4 DEF ServerReportsFailure, Stops, ServerAnswers, WriterHasOne
  <2>5. UNCHANGED command /\ WriterHasOne
    BY <1>1, <2>1, <2>2, <2>3, <2>4 DEF ClientStep
  <2> QED
    BY <1>5, <2>5 DEF Pending
<1> QED
  BY <1>4, <1>5 DEF Pending

(* The invariant holds in every state the client reaches.                  *)
THEOREM Invariance == Spec => []IInv
  BY InitIInv, InvStep, PTL DEF Spec

(* Every variable keeps the type of the field it stands for.               *)
THEOREM TypeCorrect == Spec => []TypeOK
<1>1. IInv => TypeOK
  BY DEF IInv
<1> QED
  BY Invariance, <1>1, PTL

(* However fast the user types, client_writer and client_reader keep at    *)
(* most one command or answer under way, and one more for every read that  *)
(* unlocked without an answer: client->lock is given on like a token.      *)
THEOREM FewAreUnderWay == Spec => []FewCommandsUnderWay
<1>1. IInv => FewCommandsUnderWay
  <2> SUFFICES ASSUME IInv PROVE FewCommandsUnderWay
    OBVIOUS
  <2> DEFINE c == HowMany(sent, {"put", "get", "names", "other"})
             a == HowMany(inbox, {"put", "get", "text"})
             w == One(at["writer"] = "write")
             r == One(at["reader"] \in {"flag", "spawn", "unlock"})
             f == One(~lock)
  <2>1. c \in Nat /\ a \in Nat /\ early \in Nat
    BY ManyPlaces DEF IInv, TypeOK
  <2>2. w \in {0, 1} /\ r \in {0, 1} /\ f \in {0, 1}
    BY DEF One
  <2>3. c + a + w + r + f <= 1 + early
    BY DEF IInv, Tokens
  <2> HIDE DEF c, a, w, r, f
  <2>4. c + a <= 1 + early
    BY <2>1, <2>2, <2>3
  <2> QED
    BY <2>4 DEF FewCommandsUnderWay, c, a
<1> QED
  BY Invariance, <1>1, PTL

(* For a user who waits, every thread of client.cpp that runs is flagged   *)
(* and is the one whose id is stored, so check_ftp can end it.             *)
THEOREM EveryThreadIsKnown == Spec => []ThreadsAreKnown
<1>1. IInv => ThreadsAreKnown
  BY DEF IInv, Orderly, ThreadsAreTheLatest, ThreadsAreKnown, Calm, Late
<1> QED
  BY Invariance, <1>1, PTL

(* ... and ftp_thread_send and ftp_thread_recv open the file of the answer *)
(* they were created for, although the path is shared and not protected.   *)
THEOREM EveryThreadOpensItsFile == Spec => []OpensTheFileAskedFor
<1>1. IInv => OpensTheFileAskedFor
  <2> SUFFICES ASSUME IInv, Calm, NEW t \in Threads, thread[t].where = "transfer"
               PROVE  thread[t].file = thread[t].want
    BY DEF OpensTheFileAskedFor
  <2>1. thread[t].dir \in Dir
    BY DEF IInv, TypeOK, Transfer
  <2>2. t \in RunningThreads(thread[t].dir)
    BY DEF RunningThreads
  <2> QED
    BY <2>1, <2>2 DEF IInv, Orderly, ThreadsAreTheLatest, FilesAreTheirOwn, Calm, Late
<1> QED
  BY Invariance, <1>1, PTL

(* ... and the writer's ftp_clean joins a thread that has been created and *)
(* not been joined before, but for a direction whose pthread_create has    *)
(* failed.                                                                 *)
THEOREM NoJoinIsInVain == Spec => []JoinsAStartedThread
<1>1. IInv => JoinsAStartedThread
  <2> SUFFICES ASSUME IInv, Calm, at["writer"] = "join"
               PROVE  Joinable(dir["writer"]) \/ unstarted[dir["writer"]]
    BY DEF JoinsAStartedThread
  <2>1. active[dir["writer"]] /\ dir["writer"] \in Dir
    BY DEF IInv, Orderly, JoinsAreLocked, TypeOK, Calm
  <2>2. at["reader"] # "spawn"
    BY DEF Calm, IInv, Orderly, OneAtATime, WriterHasOne, ReaderHasOne
  <2> QED
    BY <2>1, <2>2 DEF IInv, Calm, Orderly, FlagsHaveThreads, Joinable
<1> QED
  BY Invariance, <1>1, PTL
=============================================================================
