------------------------------ MODULE FileCopy ------------------------------
(***************************************************************************)
(* One transfer over the data connection: file_send on one side, file_recv *)
(* on the other.  Bytes are counted: the stream keeps their order.  A size *)
(* is a size_t, but it goes through atoi on its way to the other side, and *)
(* file_send counts with int, of which Half is the first value that does   *)
(* not fit.  The makefiles build for 32 bits (-m32): int, long and size_t  *)
(* have the same width.  A transfer that is cancelled while another one keeps the      *)
(* connection open leaves its bytes in front of those of the next one.     *)
(***************************************************************************)
EXTENDS Integers

CONSTANTS
  Half,        \* 2^31: int goes from -Half to Half - 1
  ChunkSize,   \* CHUNK_SIZE
  Capacity     \* bytes the connection can hold

ASSUME ConstantsAssumption == {Half, ChunkSize, Capacity} \subseteq Nat \ {0}

Word  == 2 * Half
Sizes == 0..(Word - 1)     \* size_t

VARIABLES
  file_size_send,   \* what the sender is to send
  file_size_recv,   \* what the receiver expects
  length,           \* length of the sender's file
  stale,            \* bytes in the stream that an earlier transfer has left
  connected,        \* has the connection not been closed or broken?
  remaining,        \* the sender's int
  sent,             \* total_sent of file_send
  received,         \* total_recv of file_recv
  written,          \* how many of them are in the receiver's file
  overrun,          \* has write been told to write recv's -1 as a size_t?
  send_result,      \* what file_send, file_recv return, "none" before that
  recv_result

senderVars   == <<remaining, sent, send_result>>
receiverVars == <<received, written, overrun, recv_result>>
given == <<file_size_send, file_size_recv, length, stale>>
vars == <<given, connected, senderVars, receiverVars>>

(* size_t to int, and back with the sign extended.  atoi is strtol: what   *)
(* does not fit in a long becomes the nearest long.                        *)
ToUnsigned(n) == n                       \* mutant: the counter is a size_t
ToInt(n)  == IF n < Half THEN n ELSE n - Word
ToSize(i) == IF i < 0 THEN i + Word ELSE i
Atoi(n)   == IF n >= Half THEN Half - 1 ELSE IF n < -Half THEN -Half ELSE n

(* For put both sides read the number the user has typed; for get the      *)
(* server measures its file and the client reads the number in the answer, *)
(* which is 0 if the server's transfer, over a connection that was open,   *)
(* has ended before the answer is made up.  A file that is opened without  *)
(* O_LARGEFILE fits in a long; its length may be another than the size.    *)
Init ==
  /\ \E n \in (-Half - 1)..Half :
       /\ file_size_send = ToSize(Atoi(n))
       /\ file_size_recv = file_size_send \/ (0 <= n /\ n < Half /\ file_size_recv = 0)
  /\ length \in 0..(Half - 1)
  /\ stale \in 0..Capacity
  /\ connected = TRUE
  /\ remaining = ToInt(file_size_send)
  /\ sent = 0 /\ received = 0 /\ written = 0
  /\ overrun = FALSE
  /\ send_result = "none" /\ recv_result = "none"

InTransit == stale + sent - received

-----------------------------------------------------------------------------
(* file_send: sendfile moves what is left of the file and has room.        *)
SendFile(n) ==
  /\ send_result = "none"
  /\ connected
  /\ n <= remaining /\ n <= length - sent /\ n <= Capacity - InTransit
  /\ remaining' = remaining - n
  /\ sent' = sent + n
  /\ UNCHANGED <<given, connected, send_result, receiverVars>>

(* All is sent, or sendfile returns 0 at the end of the file.              *)
AnySent == sent > 0 \/ remaining <= 0         \* mutant: one call is enough
AllSent == remaining <= 0 \/ sent = length

SendReturns ==
  /\ send_result = "none"
  /\ AllSent
  /\ send_result' = "total"
  /\ UNCHANGED <<given, connected, remaining, sent, receiverVars>>

SendFails ==
  /\ send_result = "none"
  /\ ~AllSent /\ ~connected
  /\ send_result' = "ERROR_SEND"
  /\ UNCHANGED <<given, connected, remaining, sent, receiverVars>>

-----------------------------------------------------------------------------
(* file_recv: n bytes have come, and w of them, or none on an error, go    *)
(* into the file; only an error of write is noticed.                       *)
BufferSize == IF ChunkSize > file_size_recv THEN file_size_recv ELSE ChunkSize

MoreThanAsked(total) == FALSE            \* mutant of TooLarge
TooLarge(total) == total > file_size_recv
NeverComplete(total) == FALSE            \* mutant: the loop is not left
CompleteAfterChunk(total) == total + ChunkSize > file_size_recv   \* mutant of Complete
Complete(total) == total = file_size_recv

Receive(n, w) ==
  /\ recv_result = "none"
  /\ ~overrun
  /\ n <= InTransit /\ n <= BufferSize
  /\ received' = received + n
  /\ IF TooLarge(received') THEN written' = written /\ recv_result' = "ERROR_FILESIZE"
     ELSE IF w = 0 THEN written' = written /\ recv_result' = "ERROR_IO"
     ELSE /\ written' = written + w
          /\ recv_result' = IF Complete(received') THEN "total" ELSE "none"
  /\ UNCHANGED <<given, connected, overrun, senderVars>>

(* recv returns -1 once, which is added to the total as a size_t: then the *)
(* total is one less.                                                      *)
TotalAfterError == IF received = 0 THEN Word - 1 ELSE received - 1

(* It makes the total too large; or write is told to write as many bytes   *)
(* as a size_t can count and refuses, or writes what is in memory behind   *)
(* the buffer, which is no byte of the stream.                             *)
ReceiveFails ==
  /\ recv_result = "none"
  /\ ~connected /\ ~overrun
  /\ \/ TooLarge(TotalAfterError) /\ recv_result' = "ERROR_FILESIZE" /\ overrun' = FALSE
     \/ ~TooLarge(TotalAfterError) /\ recv_result' = "ERROR_IO" /\ overrun' = FALSE
     \/ /\ ~TooLarge(TotalAfterError)
        /\ recv_result' = IF Complete(TotalAfterError) THEN "total" ELSE "none"
        /\ overrun' = TRUE
  /\ UNCHANGED <<given, connected, senderVars, received, written>>

(* recv returns 0: the stream is at its end, as it is after an error; or   *)
(* no byte was asked for and one is there, since recv waits for it even    *)
(* then.                                                                   *)
ReceiveEnds ==
  /\ recv_result = "none"
  /\ \/ ~connected /\ (InTransit = 0 \/ overrun)
     \/ BufferSize = 0 /\ InTransit > 0
  /\ recv_result' = IF Complete(IF overrun THEN TotalAfterError ELSE received)
                    THEN "total" ELSE "ERROR_FILESIZE"
  /\ UNCHANGED <<given, connected, overrun, senderVars, received, written>>

(* A side closes the connection after its end if no other transfer uses    *)
(* it, and the network may break it.                                       *)
Disconnects ==
  /\ connected
  /\ connected' = FALSE
  /\ UNCHANGED <<given, senderVars, receiverVars>>

Sender   == (\E n \in 1..Capacity : SendFile(n)) \/ SendReturns \/ SendFails
Receiver == ReceiveEnds \/ ReceiveFails
            \/ \E n \in 1..ChunkSize : \E w \in 0..n : Receive(n, w)

Next == Sender \/ Receiver \/ Disconnects
Spec == Init /\ [][Next]_vars
FairSpec == Spec /\ WF_vars(Sender) /\ WF_vars(Receiver)

-----------------------------------------------------------------------------
(* Every variable is in its range, and the counts of both sides agree on   *)
(* what is in the connection.                                              *)
TypeOK ==
  /\ {file_size_send, file_size_recv, length} \subseteq Sizes
  /\ {connected, overrun} \subseteq BOOLEAN
  /\ remaining \in (-Half)..(Half - 1)
  /\ stale \in 0..Capacity
  /\ sent \in 0..length /\ received \in 0..(stale + sent) /\ written \in 0..received
  /\ InTransit <= Capacity
  /\ send_result \in {"none", "total", "ERROR_SEND"}
  /\ recv_result \in {"none", "total", "ERROR_FILESIZE", "ERROR_IO"}

(* No more of the stream gets into the receiver's file than the size it    *)
(* expects, also when more has come; the sender sends no more than its     *)
(* size, which would be left for the next transfer.  (Which bytes get into *)
(* the file if stale ones are in front of them it does not say, nor what   *)
(* an overrun adds to it.)                                                 *)
NothingBeyondSize == sent <= file_size_send /\ written <= file_size_recv

(* file_recv reports success only when as many bytes as it expects have    *)
(* come, and if the stream was clean and the two sides agree on the size   *)
(* these are all that the sender was to send.  The exceptions: the answer  *)
(* to a get told a size of 0, and a user who has typed -1 has announced    *)
(* just the total that an error of recv makes up.  (A byte that has come   *)
(* and that write has not taken is not missed either.)                     *)
SuccessIsComplete ==
  recv_result = "total" =>
    \/ overrun /\ file_size_recv = Word - 1
    \/ /\ ~overrun
       /\ received = file_size_recv
       /\ stale = 0 /\ file_size_recv = file_size_send => sent = file_size_send

(* When the sender has stopped short of the size without an error, it has  *)
(* sent all of a file that was too short, or nothing at all, because the   *)
(* user has typed a negative number, a size that does not fit in an int.   *)
ShortSendIsExplained ==
  send_result = "total" /\ sent # file_size_send =>
    \/ file_size_send < Half /\ sent = length /\ length < file_size_send
    \/ file_size_send >= Half /\ sent = 0

(* The receiver returns, unless the connection stays up although no more   *)
(* bytes will come: file_send has returned without an error before the end *)
(* of what is expected, or nothing at all is expected.                     *)
ReceiverReturns ==
  (recv_result = "none") ~>
    \/ recv_result # "none"
    \/ /\ connected /\ send_result = "total"
       /\ sent < file_size_recv \/ file_size_recv = 0
=============================================================================
