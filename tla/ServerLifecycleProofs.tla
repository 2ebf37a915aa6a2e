----------------------- MODULE ServerLifecycleProofs -----------------------
(***************************************************************************)
(* Proofs about ServerLifecycle, for every set of connections and any      *)
(* number of signals: its type invariant, that the list of connections is  *)
(* sound, that no transfer outlives its connection, and that stop() leaves *)
(* nothing behind although the list changes under its loop.                *)
(***************************************************************************)
EXTENDS ServerLifecycle, SequenceTheorems, TLAPS

(* stop() is on main's stack exactly where main is in one of its steps.    *)
InStop == {"scan", "cancelled", "joining", "check", "unhook", "free"}
OutOfStop == MainSteps \ (InStop \cup {"exited"})
StopsAreCounted ==
  /\ main \in InStop => stops > 0
  /\ main \in OutOfStop => stops = 0

(* A connection that has not been accepted has nothing, and one that main  *)
(* is setting up has no thread yet.                                        *)
NotYetAccepted ==
  \A c \in Conns : mem[c] = "none" =>
    handler[c] = "none" /\ transfer[c] = "none" /\ c \notin Registered
Adding ==
  main \in {"add", "push", "create"} =>
    /\ adding \in Conns
    /\ handler[adding] = "none"
    /\ mem[adding] = "live" /\ username[adding] = "live"
    /\ main # "create" => adding \notin Registered
    /\ main = "create" => adding \in Registered

(* While its thread serves a connection or still has to remove it, the     *)
(* connection is registered; afterwards it is not.                         *)
Active == {"serve", "w", "check", "join", "remove", "erase"}
Leaving == {"name", "close", "free"}
ThreadsAreRegistered ==
  \A c \in Conns :
    /\ handler[c] \in Active /\ main # "exited" =>
         c \in Registered /\ mem[c] = "live" /\ username[c] = "live"
    /\ handler[c] \in Leaving => c \notin Registered

EntriesAreDistinct == \A i, j \in 1..size : slots[i] = slots[j] => i = j
EntriesAreLive ==
  stops = 0 => \A c \in Registered : mem[c] = "live" /\ username[c] = "live"

(* Where the transfer of a connection has been stopped, or never was.      *)
TransferIsOver ==
  \A c \in Conns :
    /\ handler[c] \in {"none", "remove", "erase"} \cup Leaving => transfer[c] = "none"
    /\ mem[c] = "freed" => transfer[c] = "none"

(* The loop of stop() stays in the buffer, and what it frees has no thread *)
(* and no transfer left.                                                   *)
LoopIsInBuffer ==
  main \in InStop => last <= Len(slots) /\ index >= 1
VictimIsStopped ==
  /\ main \in InStop \ {"scan"} => victim \in Conns
  /\ main \in {"check", "unhook", "free"} => handler[victim] = "exited"
  /\ main = "free" => transfer[victim] = "none"

(* The loop of stop() goes through the buffer while the threads it has not *)
(* ended yet take their entries out.  An entry that moves down past the    *)
(* loop leaves the last one twice ahead of it, and the second time the     *)
(* loop gets there it uses what it has freed: so if nothing undefined      *)
(* happens, every registered connection is ended, in hand or ahead.        *)
NextEntry == IF main = "scan" THEN index ELSE index + 1
Ahead == {i \in 1..last : i >= NextEntry}
Ended(c) ==
  /\ mem[c] = "freed" /\ username[c] = "freed"
  /\ handler[c] = "exited" /\ transfer[c] = "none"
InHand(c) == main # "scan" /\ victim = c
Covered(c) == Ended(c) \/ InHand(c) \/ \E p \in Ahead : slots[p] = c
Doomed ==
  \/ \E p \in Ahead : InHand(slots[p]) \/ mem[slots[p]] = "freed" \/ ~tid[slots[p]]
  \/ \E p, q \in Ahead : p # q /\ slots[p] = slots[q]
LoopCovers ==
  main \in InStop =>
    /\ size <= last
    /\ fault = "none" => Doomed \/ \A c \in Registered : Covered(c)

(* The inductive invariant.  RegistryIsSound is not inductive by itself:   *)
(* that what stop() frees has no thread left depends on where it is in its *)
(* loop, and that what a thread frees is not registered on its own place.  *)
Registry ==
  /\ StopsAreCounted
  /\ NotYetAccepted
  /\ Adding
  /\ ThreadsAreRegistered
  /\ EntriesAreDistinct
  /\ EntriesAreLive
Endings == TransferIsOver /\ LoopIsInBuffer /\ VictimIsStopped
IInv == TypeOK /\ Registry /\ Endings /\ LoopCovers

-----------------------------------------------------------------------------
USE DEF listVars, connVars, ftpVars, mainVars, loopVars, stopVars, notMain, notHandler

(* Functions on an initial segment of the numbers are sequences.           *)
LEMMA SegmentIsSeq ==
  ASSUME NEW S, NEW n \in Nat, NEW f \in [1..n -> S]
  PROVE  f \in Seq(S) /\ Len(f) = n
<1>1. f \in Seq(S)
  BY SeqDef
<1>2. DOMAIN f = 1..n /\ DOMAIN f = 1..Len(f) /\ Len(f) \in Nat
  BY <1>1, LenProperties
<1> QED
  BY <1>1, <1>2, SMT

(* What push_back does to the list.                                        *)
LEMMA PushedList ==
  ASSUME slots \in Seq(Conns), size \in 0..Len(slots), adding \in Conns, PushBack
  PROVE  /\ slots' \in Seq(Conns) /\ size' \in 0..Len(slots')
         /\ Registered' = Registered \cup {adding}
         /\ EntriesAreDistinct /\ adding \notin Registered => EntriesAreDistinct'
<1>1. Len(slots) \in Nat /\ \A i \in 1..Len(slots) : slots[i] \in Conns
  BY LenProperties, ElementOfSeq
<1>2. size \in Nat /\ size' = size + 1
  BY <1>1 DEF PushBack
<1>3. slots' = [i \in 1..size+1 |-> IF i = size+1 THEN adding ELSE slots[i]]
  BY DEF PushBack
<1>4. slots' \in [1..size+1 -> Conns]
  BY <1>1, <1>2, <1>3
<1>5. slots' \in Seq(Conns) /\ Len(slots') = size + 1
  BY <1>2, <1>4, SegmentIsSeq
<1>6. slots'[size+1] = adding /\ \A i \in 1..size : slots'[i] = slots[i]
  BY <1>2, <1>3
<1>7. Registered' = Registered \cup {adding}
  BY <1>2, <1>6 DEF Registered
<1>8. ASSUME EntriesAreDistinct, adding \notin Registered
      PROVE  EntriesAreDistinct'
  BY <1>2, <1>6, <1>8 DEF EntriesAreDistinct, Registered
<1> QED
  BY <1>2, <1>5, <1>7, <1>8

(* What erase does to it.                                                  *)
LEMMA ErasedList ==
  ASSUME slots \in Seq(Conns), size \in 0..Len(slots), EntriesAreDistinct,
         NEW c \in Registered, Erase(c)
  PROVE  /\ slots' \in Seq(Conns) /\ Len(slots') = Len(slots)
         /\ size' \in 0..Len(slots)
         /\ Registered' = Registered \ {c}
         /\ EntriesAreDistinct'
<1> DEFINE at == CHOOSE i \in 1..size : slots[i] = c
<1>1. Len(slots) \in Nat /\ \A i \in 1..Len(slots) : slots[i] \in Conns
  BY LenProperties, ElementOfSeq
<1>2. size \in Nat /\ size' = size - 1 /\ size <= Len(slots)
  BY <1>1 DEF Erase
<1>3. at \in 1..size /\ slots[at] = c
  BY DEF Registered
<1> HIDE DEF at
<1>4. slots' = [i \in 1..Len(slots) |->
                  IF i >= at /\ i < size THEN slots[i+1] ELSE slots[i]]
  BY DEF Erase, WithoutFirst, at
<1>5. slots' \in [1..Len(slots) -> Conns]
  BY <1>1, <1>2, <1>3, <1>4
<1>6. slots' \in Seq(Conns) /\ Len(slots') = Len(slots)
  BY <1>1, <1>5, SegmentIsSeq
<1>7. \A i \in 1..size-1 :
        slots'[i] = IF i >= at THEN slots[i+1] ELSE slots[i]
  BY <1>1, <1>2, <1>3, <1>4
<1>8. Registered' = Registered \ {c}
  <2>1. ASSUME NEW x \in Registered' PROVE x \in Registered \ {c}
    <3>1. PICK i \in 1..size-1 : x = slots'[i]
      BY <1>2, <2>1 DEF Registered
    <3>2. PICK j \in 1..size : x = slots[j] /\ j # at
      BY <1>2, <1>3, <1>7, <3>1
    <3> QED
      BY <1>3, <3>2 DEF Registered, EntriesAreDistinct
  <2>2. ASSUME NEW x \in Registered \ {c} PROVE x \in Registered'
    <3>1. PICK j \in 1..size : x = slots[j]
      BY DEF Registered
    <3>2. j # at
      BY <1>3, <3>1
    <3>3. PICK i \in 1..size-1 : x = slots'[i]
      <4>1. CASE j < at
        BY <1>2, <1>3, <1>7, <3>1, <4>1
      <4>2. CASE j > at
        <5>1. j - 1 \in 1..size-1 /\ j - 1 >= at /\ (j - 1) + 1 = j
          BY <1>2, <1>3, <4>2
        <5> QED
          BY <1>7, <3>1, <5>1
      <4> QED
        BY <1>2, <1>3, <3>2, <4>1, <4>2
    <3> QED
      BY <1>2, <3>3 DEF Registered
  <2> QED
    BY <2>1, <2>2
<1>9. EntriesAreDistinct'
  BY <1>2, <1>3, <1>7 DEF EntriesAreDistinct
<1>10. size' \in 0..Len(slots)
  BY <1>1, <1>2, <1>3
<1> QED
  BY <1>6, <1>8, <1>9, <1>10


(* Every step keeps the types.                                             *)
LEMMA TypeStep ==
  ASSUME IInv, [Next]_vars
  PROVE  TypeOK'
<1> USE LifecycleAssumption DEF IInv, Registry, Endings, TypeOK, MainSteps, StartSteps, HandlerSteps, TransferSteps
<1>1. CASE Running /\ ParseGrass
  BY <1>1 DEF ParseGrass, MainGoes
<1>2. CASE Running /\ InitServer
  BY <1>2 DEF InitServer, MainGoes
<1>3. CASE Running /\ InitMutex
  BY <1>3 DEF InitMutex, MainGoes
<1>4. CASE Running /\ SignalEarly
  BY <1>4 DEF SignalEarly
<1>5. CASE Running /\ LockToAdd
  BY <1>5 DEF LockToAdd, MainGoes, Lock
<1>6. CASE Running /\ PushBack
  <2>1. adding \in Conns
    BY <1>6 DEF Adding, PushBack, MainGoes
  <2>2. slots' \in Seq(Conns) /\ size' \in 0..Len(slots')
    BY <1>6, <2>1, PushedList
  <2> QED
    BY <1>6, <2>2 DEF PushBack, MainGoes, ChangeList, Unlock
<1>7. CASE Running /\ CreateThread
  <2>1. adding \in Conns
    BY <1>7 DEF Adding, CreateThread, MainGoes
  <2> QED
    BY <1>7, <2>1 DEF CreateThread, MainGoes
<1>8. CASE Running /\ StopCancels
  <2>1. index \in 1..Len(slots)
    BY <1>8, LenProperties DEF LoopIsInBuffer, InStop, StopCancels, Past
  <2>2. victim' \in Conns
    BY <1>8, <2>1, ElementOfSeq DEF StopCancels
  <2> QED
    BY <1>8, <2>2 DEF StopCancels, StopGoes
<1>9. CASE Running /\ StopJoins
  BY <1>9 DEF StopJoins, StopGoes
<1>10. CASE Running /\ StopJoined
  BY <1>10 DEF StopJoined, StopGoes
<1>11. CASE Running /\ StopChecksTransfer
  BY <1>11 DEF StopChecksTransfer, MainGoes, CancelTransfer, MustStop
<1>12. CASE Running /\ StopJoinsTransfer
  BY <1>12 DEF StopJoinsTransfer, MainGoes, JoinTransfer
<1>13. CASE Running /\ StopFrees
  <2>1. mem' \in [Conns -> {"none", "live", "freed"}]
    BY <1>13 DEF StopFrees
  <2>2. username' \in [Conns -> {"none", "live", "freed"}]
    BY <1>13 DEF StopFrees
  <2>3. fault' \in {"none", "config", "freed", "torn", "stray"}
    BY <1>13 DEF StopFrees
  <2>4. index' \in Nat /\ main' = "scan"
    BY <1>13 DEF StopFrees, MainGoes
  <2> QED
    BY <1>13, <2>1, <2>2, <2>3, <2>4 DEF StopFrees
<1>14. CASE Running /\ StopExits
  <2>1. <<>> \in Seq(Conns) /\ Len(<<>>) = 0
    BY EmptySeq
  <2> QED
    BY <1>14, <2>1 DEF StopExits, MainGoes
<1>15. CASE Running /\ SignalMain
  <2>1. size \in Nat
    BY LenProperties
  <2> QED
    BY <1>15, <2>1 DEF SignalMain, Signal
<1>16. ASSUME NEW c \in Conns, Running, Accept(c)
      PROVE  TypeOK'
  BY <1>16 DEF Accept, MainGoes
<1>17. ASSUME NEW c \in Conns, Running, StartTransfer(c)
      PROVE  TypeOK'
  BY <1>17 DEF StartTransfer
<1>18. ASSUME NEW c \in Conns, Running, Serves(c)
      PROVE  TypeOK'
  BY <1>18 DEF Serves, Goes
<1>19. ASSUME NEW c \in Conns, Running, EndList(c)
      PROVE  TypeOK'
  BY <1>19 DEF EndList, Goes
<1>20. ASSUME NEW c \in Conns, Running, CheckTransfer(c)
      PROVE  TypeOK'
  <2>1. transfer' \in [Conns -> TransferSteps] /\ clean_lock' \in [Conns -> {"free", "transfer", "handler", "main"}]
    BY <1>20 DEF CheckTransfer, CancelTransfer
  <2>2. handler' \in [Conns -> HandlerSteps]
    BY <1>20 DEF CheckTransfer, Goes
  <2> QED
    BY <1>20, <2>1, <2>2 DEF CheckTransfer
<1>21. ASSUME NEW c \in Conns, Running, TransferJoined(c)
      PROVE  TypeOK'
  BY <1>21 DEF TransferJoined, Goes, JoinTransfer
<1>22. ASSUME NEW c \in Conns, Running, LockToRemove(c)
      PROVE  TypeOK'
  BY <1>22 DEF LockToRemove, Goes, Lock
<1>23. ASSUME NEW c \in Conns, Running, Erase(c)
      PROVE  TypeOK'
  <2>1. c \in Registered
    BY <1>23 DEF ThreadsAreRegistered, Active, Erase, Goes, Running
  <2>2. slots' \in Seq(Conns) /\ size' \in 0..Len(slots')
    BY <1>23, <2>1, ErasedList
  <2> QED
    BY <1>23, <2>2 DEF Erase, Goes, ChangeList, Unlock
<1>24. ASSUME NEW c \in Conns, Running, FreeName(c)
      PROVE  TypeOK'
  BY <1>24 DEF FreeName, Goes
<1>25. ASSUME NEW c \in Conns, Running, CloseSocket(c)
      PROVE  TypeOK'
  BY <1>25 DEF CloseSocket, Goes
<1>26. ASSUME NEW c \in Conns, Running, FreeConnection(c)
      PROVE  TypeOK'
  BY <1>26 DEF FreeConnection, Goes
<1>27. ASSUME NEW c \in Conns, Running, Cancelled(c)
      PROVE  TypeOK'
  BY <1>27 DEF Cancelled, Goes, CancellationPoints
<1>28. ASSUME NEW c \in Conns, Running, TransferLocks(c)
      PROVE  TypeOK'
  BY <1>28 DEF TransferLocks
<1>29. ASSUME NEW c \in Conns, Running, TransferMoves(c)
      PROVE  TypeOK'
  BY <1>29 DEF TransferMoves
<1>30. ASSUME NEW c \in Conns, Running, TransferEnds(c)
      PROVE  TypeOK'
  BY <1>30 DEF TransferEnds
<1>31. ASSUME NEW c \in Conns, Running, SignalHandler(c)
      PROVE  TypeOK'
  BY <1>31 DEF SignalHandler, Goes, Signal
<1>32. ASSUME NEW c \in Conns, Running, SignalTransfer(c)
      PROVE  TypeOK'
  BY <1>32 DEF SignalTransfer, Signal
<1>33. CASE UNCHANGED vars
  BY <1>33 DEF vars
<1> QED
  BY <1>1, <1>2, <1>3, <1>4, <1>5, <1>6, <1>7, <1>8, <1>9, <1>10, <1>11,
     <1>12, <1>13, <1>14, <1>15, <1>16, <1>17, <1>18, <1>19, <1>20, <1>21,
     <1>22, <1>23, <1>24, <1>25, <1>26, <1>27, <1>28, <1>29, <1>30, <1>31,
     <1>32, <1>33
     DEF Next, Start, InitConnection, Stop, ThreadCleanup

(* Every step keeps the list and the threads together.                     *)
LEMMA RegistryStep ==
  ASSUME IInv, [Next]_vars
  PROVE  Registry'
<1> USE LifecycleAssumption DEF IInv, Registry, Endings, TypeOK, MainSteps, StartSteps, StopsAreCounted,
            NotYetAccepted, Adding, ThreadsAreRegistered, EntriesAreLive, Active, Leaving,
            InStop, OutOfStop, Running
<1>a. ASSUME UNCHANGED <<slots, size>>
      PROVE  Registered' = Registered /\ EntriesAreDistinct'
  BY <1>a DEF Registered, EntriesAreDistinct
<1>1. CASE Running /\ ParseGrass
  BY <1>a, <1>1 DEF ParseGrass, MainGoes
<1>2. CASE Running /\ InitServer
  BY <1>a, <1>2 DEF InitServer, MainGoes
<1>3. CASE Running /\ InitMutex
  BY <1>a, <1>3 DEF InitMutex, MainGoes
<1>4. CASE Running /\ SignalEarly
  BY <1>a, <1>4 DEF SignalEarly
<1>5. CASE Running /\ LockToAdd
  BY <1>a, <1>5 DEF LockToAdd, MainGoes, Lock
<1>6. CASE Running /\ PushBack
  <2>1. Registered' = Registered \cup {adding} /\ EntriesAreDistinct'
    BY <1>6, PushedList DEF PushBack, MainGoes
  <2> QED
    BY <1>6, <2>1 DEF PushBack, MainGoes
<1>7. CASE Running /\ CreateThread
  BY <1>a, <1>7 DEF CreateThread, MainGoes
<1>8. CASE Running /\ StopCancels
  BY <1>a, <1>8 DEF StopCancels, StopGoes, Past
<1>9. CASE Running /\ StopJoins
  BY <1>a, <1>9 DEF StopJoins, StopGoes
<1>10. CASE Running /\ StopJoined
  BY <1>a, <1>10 DEF StopJoined, StopGoes
<1>11. CASE Running /\ StopChecksTransfer
  BY <1>a, <1>11 DEF StopChecksTransfer, MainGoes, CancelTransfer, MustStop
<1>12. CASE Running /\ StopJoinsTransfer
  BY <1>a, <1>12 DEF StopJoinsTransfer, MainGoes, JoinTransfer
<1>13. CASE Running /\ StopFrees
  <2>1. victim \in Conns /\ handler[victim] = "exited"
    BY <1>13 DEF StopFrees, MainGoes, VictimIsStopped
  <2>2. \A c \in Conns : c # victim => mem'[c] = mem[c] /\ username'[c] = username[c]
    BY <1>13 DEF StopFrees
  <2>3. mem'[victim] = "freed"
    BY <1>13, <2>1 DEF StopFrees
  <2>4. main = "free" /\ main' = "scan" /\ UNCHANGED <<handler, transfer, stops>>
    BY <1>13 DEF StopFrees, MainGoes
  <2>5. Registered' = Registered /\ EntriesAreDistinct'
    BY <1>a, <1>13 DEF StopFrees
  <2> QED
    BY <2>1, <2>2, <2>3, <2>4, <2>5
<1>14. CASE Running /\ StopExits
  <2>1. Registered' = {} /\ EntriesAreDistinct'
    BY <1>14 DEF StopExits, Registered, EntriesAreDistinct
  <2> QED
    BY <1>14, <2>1 DEF StopExits, MainGoes
<1>15. CASE Running /\ SignalMain
  BY <1>a, <1>15 DEF SignalMain, Signal
<1>16. ASSUME NEW c \in Conns, Running, Accept(c)
      PROVE  Registry'
  BY <1>a, <1>16 DEF Accept, MainGoes
<1>17. ASSUME NEW c \in Conns, Running, StartTransfer(c)
      PROVE  Registry'
  BY <1>a, <1>17 DEF StartTransfer
<1>18. ASSUME NEW c \in Conns, Running, Serves(c)
      PROVE  Registry'
  BY <1>a, <1>18 DEF Serves, Goes
<1>19. ASSUME NEW c \in Conns, Running, EndList(c)
      PROVE  Registry'
  BY <1>a, <1>19 DEF EndList, Goes
<1>20. ASSUME NEW c \in Conns, Running, CheckTransfer(c)
      PROVE  Registry'
  BY <1>a, <1>20 DEF CheckTransfer, Goes, CancelTransfer, MustStop
<1>21. ASSUME NEW c \in Conns, Running, TransferJoined(c)
      PROVE  Registry'
  BY <1>a, <1>21 DEF TransferJoined, Goes, JoinTransfer
<1>22. ASSUME NEW c \in Conns, Running, LockToRemove(c)
      PROVE  Registry'
  BY <1>a, <1>22 DEF LockToRemove, Goes, Lock
<1>23. ASSUME NEW c \in Conns, Running, Erase(c)
      PROVE  Registry'
  <2>1. c \in Registered
    BY <1>23 DEF Erase, Goes
  <2>2. Registered' = Registered \ {c} /\ EntriesAreDistinct'
    BY <1>23, <2>1, ErasedList
  <2> QED
    BY <1>23, <2>2 DEF Erase, Goes
<1>24. ASSUME NEW c \in Conns, Running, FreeName(c)
      PROVE  Registry'
  BY <1>a, <1>24 DEF FreeName, Goes
<1>25. ASSUME NEW c \in Conns, Running, CloseSocket(c)
      PROVE  Registry'
  BY <1>a, <1>25 DEF CloseSocket, Goes
<1>26. ASSUME NEW c \in Conns, Running, FreeConnection(c)
      PROVE  Registry'
  BY <1>a, <1>26 DEF FreeConnection, Goes
<1>27. ASSUME NEW c \in Conns, Running, Cancelled(c)
      PROVE  Registry'
  BY <1>a, <1>27 DEF Cancelled, Goes, CancellationPoints
<1>28. ASSUME NEW c \in Conns, Running, TransferLocks(c)
      PROVE  Registry'
  BY <1>a, <1>28 DEF TransferLocks
<1>29. ASSUME NEW c \in Conns, Running, TransferMoves(c)
      PROVE  Registry'
  BY <1>a, <1>29 DEF TransferMoves
<1>30. ASSUME NEW c \in Conns, Running, TransferEnds(c)
      PROVE  Registry'
  BY <1>a, <1>30 DEF TransferEnds
<1>31. ASSUME NEW c \in Conns, Running, SignalHandler(c)
      PROVE  Registry'
  BY <1>a, <1>31 DEF SignalHandler, Goes, Signal
<1>32. ASSUME NEW c \in Conns, Running, SignalTransfer(c)
      PROVE  Registry'
  BY <1>a, <1>32 DEF SignalTransfer, Signal
<1>33. CASE UNCHANGED vars
  BY <1>a, <1>33 DEF vars
<1> QED
  BY <1>1, <1>2, <1>3, <1>4, <1>5, <1>6, <1>7, <1>8, <1>9, <1>10, <1>11,
     <1>12, <1>13, <1>14, <1>15, <1>16, <1>17, <1>18, <1>19, <1>20, <1>21,
     <1>22, <1>23, <1>24, <1>25, <1>26, <1>27, <1>28, <1>29, <1>30, <1>31,
     <1>32, <1>33
     DEF Next, Start, InitConnection, Stop, ThreadCleanup

(* Every step keeps what the endings of connections rely on.               *)
LEMMA EndingsStep ==
  ASSUME IInv, [Next]_vars
  PROVE  Endings'
<1> USE LifecycleAssumption DEF IInv, Registry, Endings, TypeOK, MainSteps, StartSteps, HandlerSteps, TransferSteps,
            StopsAreCounted, NotYetAccepted, Adding, ThreadsAreRegistered, Active, Leaving,
            TransferIsOver, LoopIsInBuffer, VictimIsStopped, InStop, Running
<1>a. Len(slots) \in Nat
  BY LenProperties
<1>1. CASE Running /\ ParseGrass
  BY <1>a, <1>1 DEF ParseGrass, MainGoes
<1>2. CASE Running /\ InitServer
  BY <1>a, <1>2 DEF InitServer, MainGoes
<1>3. CASE Running /\ InitMutex
  BY <1>a, <1>3 DEF InitMutex, MainGoes
<1>4. CASE Running /\ SignalEarly
  BY <1>a, <1>4 DEF SignalEarly
<1>5. CASE Running /\ LockToAdd
  BY <1>a, <1>5 DEF LockToAdd, MainGoes, Lock
<1>6. CASE Running /\ PushBack
  BY <1>a, <1>6 DEF PushBack, MainGoes, ChangeList, Unlock
<1>7. CASE Running /\ CreateThread
  BY <1>a, <1>7 DEF CreateThread, MainGoes
<1>8. CASE Running /\ StopCancels
  <2>1. index \in 1..Len(slots)
    BY <1>8, LenProperties DEF StopCancels, Past
  <2>2. victim' \in Conns
    BY <1>8, <2>1, ElementOfSeq DEF StopCancels
  <2> QED
    BY <1>8, <2>2 DEF StopCancels, StopGoes
<1>9. CASE Running /\ StopJoins
  BY <1>a, <1>9 DEF StopJoins, StopGoes
<1>10. CASE Running /\ StopJoined
  BY <1>a, <1>10 DEF StopJoined, StopGoes
<1>11. CASE Running /\ StopChecksTransfer
  BY <1>a, <1>11 DEF StopChecksTransfer, MainGoes, CancelTransfer, MustStop
<1>12. CASE Running /\ StopJoinsTransfer
  BY <1>a, <1>12 DEF StopJoinsTransfer, MainGoes, JoinTransfer
<1>13. CASE Running /\ StopFrees
  BY <1>a, <1>13 DEF StopFrees, MainGoes
<1>14. CASE Running /\ StopExits
  BY <1>a, <1>14 DEF StopExits, MainGoes, Past
<1>15. CASE Running /\ SignalMain
  BY <1>a, <1>15 DEF SignalMain, Signal
<1>16. ASSUME NEW c \in Conns, Running, Accept(c)
      PROVE  Endings'
  BY <1>a, <1>16 DEF Accept, MainGoes
<1>17. ASSUME NEW c \in Conns, Running, StartTransfer(c)
      PROVE  Endings'
  BY <1>a, <1>17 DEF StartTransfer
<1>18. ASSUME NEW c \in Conns, Running, Serves(c)
      PROVE  Endings'
  BY <1>a, <1>18 DEF Serves, Goes
<1>19. ASSUME NEW c \in Conns, Running, EndList(c)
      PROVE  Endings'
  BY <1>a, <1>19 DEF EndList, Goes
<1>20. ASSUME NEW c \in Conns, Running, CheckTransfer(c)
      PROVE  Endings'
  BY <1>a, <1>20 DEF CheckTransfer, Goes, CancelTransfer, MustStop
<1>21. ASSUME NEW c \in Conns, Running, TransferJoined(c)
      PROVE  Endings'
  BY <1>a, <1>21 DEF TransferJoined, Goes, JoinTransfer
<1>22. ASSUME NEW c \in Conns, Running, LockToRemove(c)
      PROVE  Endings'
  BY <1>a, <1>22 DEF LockToRemove, Goes, Lock
<1>23. ASSUME NEW c \in Conns, Running, Erase(c)
      PROVE  Endings'
  <2>1. Len(slots') = Len(slots)
    BY <1>23, ErasedList DEF Erase, Goes
  <2> QED
    BY <1>23, <2>1 DEF Erase, Goes
<1>24. ASSUME NEW c \in Conns, Running, FreeName(c)
      PROVE  Endings'
  BY <1>a, <1>24 DEF FreeName, Goes
<1>25. ASSUME NEW c \in Conns, Running, CloseSocket(c)
      PROVE  Endings'
  BY <1>a, <1>25 DEF CloseSocket, Goes
<1>26. ASSUME NEW c \in Conns, Running, FreeConnection(c)
      PROVE  Endings'
  BY <1>a, <1>26 DEF FreeConnection, Goes
<1>27. ASSUME NEW c \in Conns, Running, Cancelled(c)
      PROVE  Endings'
  BY <1>a, <1>27 DEF Cancelled, Goes, CancellationPoints
<1>28. ASSUME NEW c \in Conns, Running, TransferLocks(c)
      PROVE  Endings'
  BY <1>a, <1>28 DEF TransferLocks
<1>29. ASSUME NEW c \in Conns, Running, TransferMoves(c)
      PROVE  Endings'
  BY <1>a, <1>29 DEF TransferMoves
<1>30. ASSUME NEW c \in Conns, Running, TransferEnds(c)
      PROVE  Endings'
  BY <1>a, <1>30 DEF TransferEnds
<1>31. ASSUME NEW c \in Conns, Running, SignalHandler(c)
      PROVE  Endings'
  BY <1>a, <1>31 DEF SignalHandler, Goes, Signal
<1>32. ASSUME NEW c \in Conns, Running, SignalTransfer(c)
      PROVE  Endings'
  BY <1>a, <1>32 DEF SignalTransfer, Signal
<1>33. CASE UNCHANGED vars
  BY <1>a, <1>33 DEF vars
<1> QED
  BY <1>1, <1>2, <1>3, <1>4, <1>5, <1>6, <1>7, <1>8, <1>9, <1>10, <1>11,
     <1>12, <1>13, <1>14, <1>15, <1>16, <1>17, <1>18, <1>19, <1>20, <1>21,
     <1>22, <1>23, <1>24, <1>25, <1>26, <1>27, <1>28, <1>29, <1>30, <1>31,
     <1>32, <1>33
     DEF Next, Start, InitConnection, Stop, ThreadCleanup

(* Every step keeps the loop of stop() ahead of what it has not ended.      *)
LEMMA LoopStep ==
  ASSUME IInv, [Next]_vars
  PROVE  LoopCovers'
<1> USE LifecycleAssumption DEF IInv, Registry, Endings, TypeOK, MainSteps, StartSteps, StopsAreCounted,
            LoopCovers, LoopIsInBuffer, VictimIsStopped, InStop, Running
<1>a. Len(slots) \in Nat /\ \A i \in 1..Len(slots) : slots[i] \in Conns
  BY LenProperties, ElementOfSeq
<1>b. ASSUME UNCHANGED <<slots, size, index, last, victim>>, fault' = "none" => fault = "none",
             main' \in InStop => main \in InStop /\ (main = "scan" <=> main' = "scan"),
             \A c \in Conns :
               /\ Ended(c) => Ended(c)'
               /\ mem[c] = "freed" => mem'[c] = "freed"
               /\ ~tid[c] => ~tid'[c]
      PROVE  LoopCovers'
  <2> SUFFICES ASSUME main' \in InStop, fault' = "none"
               PROVE  Doomed' \/ \A c \in Registered' : Covered(c)'
    BY <1>b DEF LoopCovers
  <2>1. Registered' = Registered /\ Ahead' = Ahead /\ \A c : InHand(c)' = InHand(c)
    BY <1>b DEF Registered, Ahead, NextEntry, InHand
  <2>2. \A p \in Ahead : slots'[p] = slots[p] /\ slots[p] \in Conns
    BY <1>a, <1>b DEF Ahead
  <2>3. Doomed => Doomed'
    BY <1>b, <2>1, <2>2 DEF Doomed
  <2>4. Registered \subseteq Conns
    BY <1>a DEF Registered
  <2>5. ASSUME \A c \in Registered : Covered(c)
        PROVE  \A c \in Registered' : Covered(c)'
    BY <1>b, <2>1, <2>2, <2>4, <2>5 DEF Covered
  <2> QED
    BY <1>b, <2>3, <2>5 DEF LoopCovers
<1>1. CASE Running /\ ParseGrass
  BY <1>b, <1>1 DEF Ended, ParseGrass, MainGoes
<1>2. CASE Running /\ InitServer
  BY <1>b, <1>2 DEF Ended, InitServer, MainGoes
<1>3. CASE Running /\ InitMutex
  BY <1>b, <1>3 DEF Ended, InitMutex, MainGoes
<1>4. CASE Running /\ SignalEarly
  BY <1>b, <1>4 DEF Ended, SignalEarly
<1>5. CASE Running /\ LockToAdd
  BY <1>b, <1>5 DEF Ended, LockToAdd, MainGoes, Lock
<1>6. CASE Running /\ PushBack
  BY <1>b, <1>6 DEF Ended, PushBack, MainGoes, ChangeList, Unlock
<1>7. CASE Running /\ CreateThread
  BY <1>b, <1>7 DEF Ended, CreateThread, MainGoes
<1>8. CASE Running /\ StopCancels
  <2>1. main = "scan" /\ index \in 1..last /\ victim' = slots[index] /\ main' \in InStop
    BY <1>8 DEF StopCancels, Past, StopGoes
  <2>2. ~(fault' = "none") \/ (main' = "cancelled" /\ mem[victim'] # "freed" /\ tid[victim'])
    BY <1>8 DEF StopCancels, StopGoes
  <2>3. UNCHANGED <<slots, size, last, index, mem, tid, username, handler, transfer>>
    BY <1>8 DEF StopCancels
  <2> SUFFICES ASSUME fault' = "none" PROVE Doomed' \/ \A c \in Registered' : Covered(c)'
    BY <2>1, <2>3 DEF LoopCovers
  <2>4. Ahead = Ahead' \cup {index} /\ index \notin Ahead' /\ Ahead' \subseteq Ahead
    BY <2>1, <2>2, <2>3 DEF Ahead, NextEntry
  <2>5. Registered' = Registered /\ \A c : InHand(c)' = (c = slots[index])
    BY <2>1, <2>2, <2>3 DEF Registered, InHand
  <2>6. ASSUME Doomed PROVE Doomed'
    BY <2>1, <2>2, <2>3, <2>4, <2>5, <2>6 DEF Doomed, InHand
  <2>7. ASSUME \A c \in Registered : Covered(c)
        PROVE  \A c \in Registered' : Covered(c)'
    BY <2>1, <2>3, <2>4, <2>5, <2>7 DEF Covered, Ended, InHand
  <2> QED
    BY <1>8, <2>1, <2>6, <2>7 DEF LoopCovers
<1>9. CASE Running /\ StopJoins
  BY <1>b, <1>9 DEF Ended, StopJoins, StopGoes
<1>10. CASE Running /\ StopJoined
  BY <1>b, <1>10 DEF Ended, StopJoined, StopGoes
<1>11. CASE Running /\ StopChecksTransfer
  BY <1>b, <1>11 DEF Ended, StopChecksTransfer, MainGoes, CancelTransfer, MustStop
<1>12. CASE Running /\ StopJoinsTransfer
  BY <1>b, <1>12 DEF Ended, StopJoinsTransfer, MainGoes, JoinTransfer
<1>13. CASE Running /\ StopFrees
  <2>1. /\ victim \in Conns /\ handler[victim] = "exited" /\ transfer[victim] = "none"
        /\ main = "free" /\ main' = "scan"
    BY <1>13 DEF StopFrees, MainGoes
  <2>2. UNCHANGED <<slots, size, last, tid, handler, transfer, victim>> /\ index' = index + 1
    BY <1>13 DEF StopFrees
  <2>3. /\ mem'[victim] = "freed" /\ username'[victim] = "freed"
        /\ \A c \in Conns : mem[c] = "freed" => mem'[c] = "freed"
        /\ \A c \in Conns : username[c] = "freed" => username'[c] = "freed"
    BY <1>13, <2>1 DEF StopFrees
  <2> SUFFICES Doomed' \/ \A c \in Registered' : Covered(c)'
    BY <2>1, <2>2 DEF LoopCovers
  <2>4. Ahead' = Ahead /\ Registered' = Registered
    BY <2>1, <2>2 DEF Ahead, NextEntry, Registered
  <2>5. Registered \subseteq Conns /\ \A p \in Ahead : slots'[p] = slots[p] /\ slots[p] \in Conns
    BY <1>a, <2>1, <2>2 DEF Registered, Ahead
  <2>6. ASSUME Doomed PROVE Doomed'
    <3>1. CASE \E p, q \in Ahead : p # q /\ slots[p] = slots[q]
      BY <2>2, <2>4, <3>1 DEF Doomed
    <3>2. ASSUME NEW p \in Ahead, ~tid[slots[p]]
          PROVE  Doomed'
      BY <2>2, <2>4, <3>2 DEF Doomed
    <3>3. ASSUME NEW p \in Ahead, InHand(slots[p]) \/ mem[slots[p]] = "freed"
          PROVE  Doomed'
      <4>1. mem'[slots'[p]] = "freed"
        <5>1. slots'[p] = slots[p] /\ slots[p] \in Conns
          BY <2>5
        <5>2. CASE InHand(slots[p])
          BY <2>3, <5>1, <5>2 DEF InHand
        <5>3. CASE mem[slots[p]] = "freed"
          BY <2>3, <5>1, <5>3
        <5> QED
          BY <3>3, <5>2, <5>3
      <4> QED
        BY <2>4, <4>1 DEF Doomed
    <3> QED
      BY <2>6, <3>1, <3>2, <3>3 DEF Doomed
  <2>7. ASSUME \A c \in Registered : Covered(c)
        PROVE  \A c \in Registered' : Covered(c)'
    <3> SUFFICES ASSUME NEW c \in Registered PROVE Covered(c)'
      BY <2>4
    <3>1. c \in Conns
      BY <2>5
    <3>2. CASE Ended(c) \/ InHand(c)
      <4>1. Ended(c)'
        <5>1. CASE Ended(c)
          BY <2>2, <2>3, <3>1, <5>1 DEF Ended
        <5>2. CASE InHand(c)
          BY <2>1, <2>2, <2>3, <5>2 DEF Ended, InHand
        <5> QED
          BY <3>2, <5>1, <5>2
      <4> QED
        BY <4>1 DEF Covered
    <3>3. CASE \E p \in Ahead : slots[p] = c
      BY <2>2, <2>4, <3>3 DEF Covered
    <3> QED
      BY <2>7, <3>2, <3>3 DEF Covered
  <2> QED
    BY <1>13, <2>1, <2>6, <2>7 DEF LoopCovers
<1>14. CASE Running /\ StopExits
  BY <1>14 DEF StopExits, MainGoes
<1>15. CASE Running /\ SignalMain
  <2>1. Ahead' = 1..size /\ UNCHANGED <<slots, size>> /\ last' = size
    BY <1>a, <1>15 DEF SignalMain, Ahead, NextEntry
  <2> QED
    BY <1>a, <2>1 DEF Registered, Covered
<1>16. ASSUME NEW c \in Conns, Running, Accept(c)
      PROVE  LoopCovers'
  BY <1>b, <1>16 DEF Ended, Accept, MainGoes
<1>17. ASSUME NEW c \in Conns, Running, StartTransfer(c)
      PROVE  LoopCovers'
  BY <1>b, <1>17 DEF Ended, StartTransfer
<1>18. ASSUME NEW c \in Conns, Running, Serves(c)
      PROVE  LoopCovers'
  BY <1>b, <1>18 DEF Ended, Serves, Goes
<1>19. ASSUME NEW c \in Conns, Running, EndList(c)
      PROVE  LoopCovers'
  BY <1>b, <1>19 DEF Ended, EndList, Goes
<1>20. ASSUME NEW c \in Conns, Running, CheckTransfer(c)
      PROVE  LoopCovers'
  BY <1>b, <1>20 DEF Ended, CheckTransfer, Goes, CancelTransfer, MustStop
<1>21. ASSUME NEW c \in Conns, Running, TransferJoined(c)
      PROVE  LoopCovers'
  BY <1>b, <1>21 DEF Ended, TransferJoined, Goes, JoinTransfer
<1>22. ASSUME NEW c \in Conns, Running, LockToRemove(c)
      PROVE  LoopCovers'
  BY <1>b, <1>22 DEF Ended, LockToRemove, Goes, Lock
<1>23. ASSUME NEW c \in Conns, Running, Erase(c)
      PROVE  LoopCovers'
  <2> SUFFICES ASSUME main \in InStop, fault' = "none"
               PROVE  size' <= last' /\ (Doomed' \/ \A x \in Registered' : Covered(x)')
    BY <1>23 DEF Erase, LoopCovers
  <2>1. c \in Registered /\ fault = "none"
    BY <1>23 DEF Erase, Goes, ThreadsAreRegistered, Active
  <2>2. Registered' = Registered \ {c}
    BY <1>23, <2>1, ErasedList
  <2>3. /\ UNCHANGED <<main, index, last, victim, mem, username, tid, transfer>>
        /\ size' = size - 1 /\ size \in 1..last
        /\ \A x \in Conns : Ended(x) => Ended(x)'
    BY <1>a, <1>23, <2>1 DEF Erase, Goes, Registered, Ended
  <2> DEFINE at == CHOOSE i \in 1..size : slots[i] = c
  <2>4. at \in 1..size
    BY <2>1 DEF Registered
  <2>5. slots' = [i \in 1..Len(slots) |->
                    IF i >= at /\ i < size THEN slots[i+1] ELSE slots[i]]
    BY <1>23 DEF Erase, WithoutFirst
  <2> HIDE DEF at
  <2>6. Ahead' = Ahead /\ Ahead \subseteq 1..Len(slots) /\ \A x : InHand(x)' = InHand(x)
    BY <1>a, <2>3 DEF Ahead, NextEntry, InHand
  <2>7. CASE \A p \in Ahead : slots'[p] = slots[p]
    <3>1. Doomed => Doomed'
      BY <2>3, <2>6, <2>7 DEF Doomed
    <3>2. ASSUME \A x \in Registered : Covered(x)
          PROVE  \A x \in Registered' : Covered(x)'
      <4> SUFFICES ASSUME NEW x \in Registered PROVE Covered(x)'
        BY <2>2
      <4>1. x \in Conns
        BY <1>a, <2>3 DEF Registered
      <4> QED
        BY <2>3, <2>6, <2>7, <3>2, <4>1 DEF Covered
    <3> QED
      BY <2>1, <2>3, <3>1, <3>2
  <2>8. CASE ~ \A p \in Ahead : slots'[p] = slots[p]
    <3>1. PICK p \in Ahead : slots'[p] # slots[p]
      BY <2>8
    <3>2. p \in 1..last /\ at <= p /\ p < size /\ NextEntry <= size - 1 /\ NextEntry \in Nat
      BY <1>a, <2>3, <2>4, <2>5, <2>6, <3>1 DEF Ahead, NextEntry
    <3>3. size - 1 \in Ahead /\ size \in Ahead
      BY <2>3, <2>4, <3>2 DEF Ahead
    <3>4. slots'[size - 1] = slots[size] /\ slots'[size] = slots[size]
      BY <1>a, <2>3, <2>4, <2>5, <2>6, <3>2, <3>3
    <3>5. size - 1 # size
      BY <2>3
    <3> QED
      BY <2>3, <2>6, <3>3, <3>4, <3>5 DEF Doomed
  <2> QED
    BY <2>7, <2>8
<1>24. ASSUME NEW c \in Conns, Running, FreeName(c)
      PROVE  LoopCovers'
  BY <1>b, <1>24 DEF Ended, FreeName, Goes
<1>25. ASSUME NEW c \in Conns, Running, CloseSocket(c)
      PROVE  LoopCovers'
  BY <1>b, <1>25 DEF Ended, CloseSocket, Goes
<1>26. ASSUME NEW c \in Conns, Running, FreeConnection(c)
      PROVE  LoopCovers'
  BY <1>b, <1>26 DEF Ended, FreeConnection, Goes
<1>27. ASSUME NEW c \in Conns, Running, Cancelled(c)
      PROVE  LoopCovers'
  BY <1>b, <1>27 DEF Ended, Cancelled, Goes, CancellationPoints
<1>28. ASSUME NEW c \in Conns, Running, TransferLocks(c)
      PROVE  LoopCovers'
  BY <1>b, <1>28 DEF Ended, TransferLocks
<1>29. ASSUME NEW c \in Conns, Running, TransferMoves(c)
      PROVE  LoopCovers'
  BY <1>b, <1>29 DEF Ended, TransferMoves
<1>30. ASSUME NEW c \in Conns, Running, TransferEnds(c)
      PROVE  LoopCovers'
  BY <1>b, <1>30 DEF Ended, TransferEnds
<1>31. ASSUME NEW c \in Conns, Running, SignalHandler(c)
      PROVE  LoopCovers'
  BY <1>b, <1>31 DEF Ended, SignalHandler, Goes, Signal
<1>32. ASSUME NEW c \in Conns, Running, SignalTransfer(c)
      PROVE  LoopCovers'
  BY <1>b, <1>32 DEF Ended, SignalTransfer, Signal
<1>33. CASE UNCHANGED vars
  BY <1>b, <1>33 DEF vars, Ended
<1> QED
  BY <1>1, <1>2, <1>3, <1>4, <1>5, <1>6, <1>7, <1>8, <1>9, <1>10, <1>11,
     <1>12, <1>13, <1>14, <1>15, <1>16, <1>17, <1>18, <1>19, <1>20, <1>21,
     <1>22, <1>23, <1>24, <1>25, <1>26, <1>27, <1>28, <1>29, <1>30, <1>31,
     <1>32, <1>33
     DEF Next, Start, InitConnection, Stop, ThreadCleanup


(* The initial state satisfies the invariant.                              *)
LEMMA InitIInv == Init => IInv
<1> SUFFICES ASSUME Init PROVE IInv
  OBVIOUS
<1>1. <<>> \in Seq(Conns) /\ Len(<<>>) = 0
  BY EmptySeq
<1>2. TypeOK
  BY <1>1, LifecycleAssumption
  DEF Init, TypeOK, MainSteps, StartSteps, HandlerSteps, TransferSteps
<1>3. Registry
  BY DEF Init, Registry, StopsAreCounted, NotYetAccepted, Adding, Registered,
         ThreadsAreRegistered, EntriesAreDistinct, EntriesAreLive, InStop, OutOfStop,
         Active, Leaving
<1>4. Endings
  BY DEF Init, Endings, TransferIsOver, LoopIsInBuffer, VictimIsStopped, InStop, Leaving
<1>5. LoopCovers
  BY DEF Init, LoopCovers, InStop
<1> QED
  BY <1>2, <1>3, <1>4, <1>5 DEF IInv

(* The invariant holds in every state the server reaches.                  *)
THEOREM Invariance == Spec => []IInv
<1>1. IInv /\ [Next]_vars => IInv'
  BY TypeStep, RegistryStep, EndingsStep, LoopStep DEF IInv
<1> QED
  BY InitIInv, <1>1, PTL DEF Spec

(* Every variable has the type of the field it stands for.                 *)
THEOREM TypeCorrect == Spec => []TypeOK
<1>1. IInv => TypeOK
  BY DEF IInv
<1> QED
  BY Invariance, <1>1, PTL

(* What w and stop() find in the list is alive, and every thread that may  *)
(* need stop() to end it is found there.                                   *)
THEOREM SoundRegistry == Spec => []RegistryIsSound
<1>1. IInv => RegistryIsSound
  BY DEF IInv, Registry, RegistryIsSound, ThreadsAreRegistered, EntriesAreDistinct,
         EntriesAreLive, Active
<1> QED
  BY Invariance, <1>1, PTL

(* No transfer outlives the structure it works on.                         *)
THEOREM TransfersEndFirst == Spec => []NoTransferOnFreedConnection
<1>1. IInv => NoTransferOnFreedConnection
  BY DEF IInv, Endings, TransferIsOver, NoTransferOnFreedConnection
<1> QED
  BY Invariance, <1>1, PTL

(* stop() leaves only when every registered connection is freed and none   *)
(* of its threads is left, however the list changes under its loop.        *)
THEOREM StopLeavesNothing == Spec => StopFreesEverything
<1> DEFINE Left == \A c \in Registered : Ended(c)
<1>1. ASSUME IInv, Next, stops > 0, main' = "exited"
      PROVE  Left
  <2>1. Running /\ main # "exited" /\ main \in InStop
    BY <1>1 DEF Next, Running, IInv, Registry, TypeOK, StopsAreCounted, InStop, OutOfStop
  <2>2. StopExits
    <3>1. CASE Start \/ SignalEarly \/ InitConnection \/ SignalMain
      BY <1>1, <2>1, <3>1 DEF Start, ParseGrass, InitServer, InitMutex, SignalEarly,
         InitConnection, LockToAdd, PushBack, CreateThread, SignalMain, MainGoes,
         InStop, StartSteps
    <3>2. CASE Stop
      BY <1>1, <2>1, <3>2 DEF Stop, StopCancels, StopJoins, StopJoined,
         StopChecksTransfer, StopJoinsTransfer, StopFrees, StopGoes, MainGoes
    <3>3. ASSUME NEW c \in Conns,
                 \/ Accept(c) \/ StartTransfer(c) \/ Serves(c) \/ EndList(c)
                 \/ ThreadCleanup(c) \/ Cancelled(c)
                 \/ TransferLocks(c) \/ TransferMoves(c) \/ TransferEnds(c)
                 \/ SignalHandler(c) \/ SignalTransfer(c)
          PROVE  FALSE
      BY <1>1, <2>1, <3>3 DEF Accept, StartTransfer, Serves, EndList, ThreadCleanup,
         CheckTransfer, TransferJoined, LockToRemove, Erase, FreeName, CloseSocket,
         FreeConnection, Cancelled, TransferLocks, TransferMoves, TransferEnds,
         SignalHandler, SignalTransfer, MainGoes, InStop
    <3> QED
      BY <1>1, <3>1, <3>2, <3>3 DEF Next
  <2>3. index > last /\ main = "scan" /\ fault = "none"
    BY <2>1, <2>2 DEF StopExits, Past, Running, MainGoes
  <2>4. Ahead = {}
    BY <1>1, <2>3 DEF Ahead, NextEntry, IInv, TypeOK
  <2> QED
    BY <1>1, <2>1, <2>3, <2>4 DEF IInv, LoopCovers, Doomed, Covered, InHand
<1>2. IInv /\ [Next]_vars =>
        [stops > 0 /\ main' = "exited" =>
           \A c \in Registered :
             /\ mem[c] = "freed" /\ username[c] = "freed"
             /\ handler[c] = "exited" /\ transfer[c] = "none"]_vars
  BY <1>1 DEF Ended
<1> QED
  BY Invariance, <1>2, PTL DEF Spec, StopFreesEverything
=============================================================================
