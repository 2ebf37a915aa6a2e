--------------------------- MODULE FileCopyProofs ---------------------------
(***************************************************************************)
(* Proofs about FileCopy, for every width of int, chunk, capacity of the   *)
(* connection, size and file.                                              *)
(***************************************************************************)
EXTENDS FileCopy, TLAPS

(* What ties remaining to the size: the sender's int is what is left to    *)
(* send, and nothing is sent if it begins negative.                        *)
RemainingIsTheRest ==
  /\ remaining = ToInt(file_size_send) - sent
  /\ sent > 0 => remaining >= 0

(* What ties the two sizes: they differ only in a get that was told 0.     *)
SizesMatch == file_size_recv = file_size_send \/ file_size_recv = 0

(* While file_recv is in its loop it has not had more than the size, and   *)
(* an error that left it there has made a smaller total of what has come.  *)
LoopStaysInSize ==
  recv_result = "none" =>
    /\ received <= file_size_recv
    /\ overrun => received > 0

IInv ==
  /\ TypeOK
  /\ RemainingIsTheRest
  /\ SizesMatch
  /\ LoopStaysInSize
  /\ NothingBeyondSize
  /\ SuccessIsComplete
  /\ ShortSendIsExplained

-----------------------------------------------------------------------------
USE ConstantsAssumption DEF Sizes, Word, InTransit

(* A size as an int: in range, the same if it fits, otherwise negative.    *)
LEMMA ToIntRange ==
  ASSUME NEW n \in Sizes
  PROVE  /\ ToInt(n) \in (-Half)..(Half - 1)
         /\ n < Half => ToInt(n) = n
         /\ n >= Half => ToInt(n) < 0
BY DEF ToInt

(* A number that was typed or measured becomes a size.                     *)
LEMMA AtoiIsSize ==
  ASSUME NEW n \in (-Half - 1)..Half
  PROVE  ToSize(Atoi(n)) \in Sizes
<1>1. Atoi(n) \in (-Half)..(Half - 1)
  BY DEF Atoi
<1> QED
  BY <1>1 DEF ToSize

-----------------------------------------------------------------------------
(* The invariant holds before the first byte.                              *)
THEOREM InitIInv == Init => IInv
<1> SUFFICES ASSUME Init PROVE IInv
  OBVIOUS
<1>1. file_size_send \in Sizes /\ SizesMatch
  BY AtoiIsSize DEF Init, SizesMatch
<1>2. ToInt(file_size_send) \in (-Half)..(Half - 1)
  BY <1>1, ToIntRange
<1>3. TypeOK
  <2>1. file_size_recv \in Sizes /\ length \in Sizes
    BY <1>1 DEF Init, SizesMatch
  <2>2. /\ length \in Nat /\ stale \in 0..Capacity
        /\ connected = TRUE /\ overrun = FALSE
        /\ remaining = ToInt(file_size_send)
        /\ sent = 0 /\ received = 0 /\ written = 0
        /\ send_result = "none" /\ recv_result = "none"
    BY DEF Init
  <2>3. /\ {file_size_send, file_size_recv, length} \subseteq Sizes
        /\ {connected, overrun} \subseteq BOOLEAN
    BY <1>1, <2>1, <2>2
  <2> QED
    BY <1>2, <2>2, <2>3 DEF TypeOK
<1>4. LoopStaysInSize /\ NothingBeyondSize
  BY <1>1 DEF Init, LoopStaysInSize, NothingBeyondSize, SizesMatch
<1>5. RemainingIsTheRest /\ SuccessIsComplete /\ ShortSendIsExplained
  BY <1>2 DEF Init, RemainingIsTheRest, SuccessIsComplete, ShortSendIsExplained
<1> QED
  BY <1>1, <1>3, <1>4, <1>5 DEF IInv

(* If the sizes agree, the receiver can have had as many bytes as it       *)
(* expects from this sender only when the sender is through.               *)
LEMMA SenderIsThrough ==
  ASSUME TypeOK, RemainingIsTheRest, file_size_recv = file_size_send,
         file_size_recv <= sent
  PROVE  sent = file_size_send /\ remaining <= 0
BY ToIntRange DEF TypeOK, RemainingIsTheRest

(* Every step of the sender, the receiver and the network keeps it.        *)
THEOREM NextIInv == IInv /\ [Next]_vars => IInv'
<1> SUFFICES ASSUME IInv, [Next]_vars PROVE IInv'
  OBVIOUS
<1> USE DEF IInv, TypeOK, RemainingIsTheRest, SizesMatch, LoopStaysInSize,
            NothingBeyondSize, SuccessIsComplete, ShortSendIsExplained
<1>0. /\ ToInt(file_size_send) \in (-Half)..(Half - 1)
      /\ file_size_send < Half => ToInt(file_size_send) = file_size_send
      /\ file_size_send >= Half => ToInt(file_size_send) < 0
  BY ToIntRange
<1>1. ASSUME NEW n \in 1..Capacity, SendFile(n) PROVE IInv'
  <2>1. n \in Nat /\ n >= 1 /\ remaining > 0
    BY <1>1 DEF SendFile
  <2>2. sent + n <= file_size_send
    BY <1>0, <1>1, <2>1 DEF SendFile
  <2> QED
    BY <1>0, <1>1, <2>1, <2>2 DEF SendFile, given, receiverVars
<1>2. CASE SendReturns
  BY <1>0, <1>2 DEF SendReturns, AllSent, given, receiverVars
<1>3. CASE SendFails
  BY <1>3 DEF SendFails, given, receiverVars
<1>4. ASSUME NEW n \in 1..ChunkSize, NEW w \in 0..n, Receive(n, w) PROVE IInv'
  <2>1. n \in Nat /\ w \in Nat /\ n >= 1
    BY <1>4
  <2>2. CASE TooLarge(received + n)
    BY <1>4, <2>1, <2>2 DEF Receive, TooLarge, given, senderVars
  <2>3. CASE ~TooLarge(received + n) /\ w = 0
    BY <1>4, <2>1, <2>3 DEF Receive, TooLarge, given, senderVars
  <2>4. CASE ~TooLarge(received + n) /\ w # 0
    <3>1. received + n <= stale + sent /\ received + n <= file_size_recv
      BY <1>4, <2>1, <2>4 DEF Receive, TooLarge
    <3>2. CASE received + n = file_size_recv
      BY <1>4, <2>1, <2>4, <3>1, <3>2, SenderIsThrough
         DEF Receive, TooLarge, Complete, given, senderVars
    <3>3. CASE received + n # file_size_recv
      BY <1>4, <2>1, <2>4, <3>1, <3>3
         DEF Receive, TooLarge, Complete, given, senderVars
    <3> QED
      BY <3>2, <3>3
  <2> QED
    BY <2>2, <2>3, <2>4
<1>5. CASE ReceiveEnds
  <2>1. CASE overrun
    <3>1. ~Complete(TotalAfterError)
      BY <1>5, <2>1 DEF ReceiveEnds, TotalAfterError, Complete
    <3> QED
      BY <1>5, <2>1, <3>1 DEF ReceiveEnds, given, senderVars
  <2>2. CASE ~overrun
    BY <1>5, <2>2, SenderIsThrough DEF ReceiveEnds, Complete, given, senderVars
  <2> QED
    BY <2>1, <2>2
<1>6. CASE ReceiveFails
  <2>1. received <= file_size_recv /\ recv_result = "none" /\ ~overrun
    BY <1>6 DEF ReceiveFails
  <2>2. CASE recv_result' \in {"ERROR_FILESIZE", "ERROR_IO"} /\ overrun' = FALSE
    BY <1>6, <2>2 DEF ReceiveFails, given, senderVars
  <2>3. CASE /\ ~TooLarge(TotalAfterError)
             /\ recv_result' = IF Complete(TotalAfterError) THEN "total" ELSE "none"
             /\ overrun' = TRUE
    <3>1. IF received = 0 THEN file_size_recv = Word - 1 /\ Complete(TotalAfterError)
                          ELSE ~Complete(TotalAfterError)
      BY <2>1, <2>3 DEF TotalAfterError, TooLarge, Complete
    <3> QED
      BY <1>6, <2>1, <2>3, <3>1 DEF ReceiveFails, given, senderVars
  <2> QED
    BY <1>6, <2>2, <2>3 DEF ReceiveFails
<1>7. CASE Disconnects
  BY <1>7 DEF Disconnects, given, senderVars, receiverVars
<1>8. CASE UNCHANGED vars
  BY <1>8 DEF vars, given, senderVars, receiverVars
<1> QED
  BY <1>1, <1>2, <1>3, <1>4, <1>5, <1>6, <1>7, <1>8 DEF Next, Sender, Receiver

(* The invariant holds in every reachable state.                           *)
THEOREM Inductive == Spec => []IInv
  BY InitIInv, NextIInv, PTL DEF Spec

(* The counts stay in their ranges; in particular the int never overflows. *)
THEOREM CountsStayInRange == Spec => []TypeOK
  BY Inductive, PTL DEF IInv

(* Neither side goes beyond the announced size.                            *)
THEOREM CopyStopsAtSize == Spec => []NothingBeyondSize
  BY Inductive, PTL DEF IInv

(* file_recv reports success only for a complete transfer, except for the  *)
(* two announced sizes that SuccessIsComplete names.                       *)
THEOREM SuccessMeansComplete == Spec => []SuccessIsComplete
  BY Inductive, PTL DEF IInv

(* file_send stops short without an error only of a file that is too short *)
(* or when the announced size does not fit in an int.                      *)
THEOREM ShortSendsAreExplained == Spec => []ShortSendIsExplained
  BY Inductive, PTL DEF IInv
=============================================================================
