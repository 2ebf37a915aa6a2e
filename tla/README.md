# Verification of CS412-GRASS

TLA+ models of GRASS, a remote-shell-like file server and its client written in
C++ with POSIX threads (`src/src/*.cpp`, `src/include/*.h`), the TLC runs that check
them and the TLAPS proofs about them.

## The system

| component | state | operations | hard behaviour |
|---|---|---|---|
| file-transfer engine, server side (`ftp.cpp`, `cmd_get`, `cmd_put` of `cmd.cpp`) | `ftp_data_t` of a connection: flags, sockets, port, paths, files, thread ids, `clean_lock` | get, put, both transfer threads, cleanup | three threads on one structure, partly outside the lock; cancel and join; blocking `accept` under the lock |
| server life cycle (`server.cpp`, `exit.cpp`, `add_connection`, `remove_connection`, `cmd_w`) | list of connections, their memory and threads, `vector_protect` | start, accept, serve, disconnect, `w`, `stop` on a signal | list changed and read by several threads, memory freed by two, signal at any point, cancellation |
| command session (`process_cmd` and the `cmd_*` functions) | `auth`, `ready_for_check`, `exit`, `username`, `tmp_username`, `pwd`, `relative_pwd`, the tree | the commands that change one of them | long sequences of legal commands, state left behind by logout, two sessions on one tree |
| client (`client.cpp` and the client side of `ftp.cpp`) | `client_t`: `lock`, its own `ftp_data_t` | writer thread, reader thread, transfer threads, `stop_and_clean` | a mutex used as a semaphore across threads, messages that are not answers |
| client and server together | both `ftp_data_t`, the control socket, the data connections | all of the above | each side decides for itself which connection a transfer uses |
| copying loops (`file_send`, `file_recv`) | counters of bytes | chunks | short reads, wrong sizes, width of the counters, bytes left behind |
| command line (`tokenize_cmd`, `check_input`, `process_cmd`, `error_handler`) | the line, its arguments | split, look up, answer | boundaries; both sides split the same text, with and without its end |
| other text helpers (`checkInvalidChars`, `findAndReplaceAll`, `iequals`, ...) | none | pure functions | none of the above |
| configuration and system commands | read once, or none | `parse_grass`, `check_dir`, `execute_system_cmd` | none of the above |

How they interact. `main` of the server accepts a control connection, registers
its `connection_t` in `prog_data->connections` and creates a thread for it, the
*handler*. The handler reads commands, one after the other, and calls
`process_cmd`. `get` and `put` make it open a listening socket, raise a flag,
create a transfer thread and tell the client the port; the transfer thread accepts
the client's connection, copies one file and cleans up. Both directions of a
connection share one data connection. The client has a *writer* (stdin to socket)
and a *reader* (socket to stdout, and a transfer thread when the answer has a
port), which synchronise through `client->lock`. A signal runs `stop()` in the
server, `stop_and_clean()` in the client.

What makes each part correct, and the property that says so:

* engine: the data connection is open as long as a transfer uses it and closed with
  the last one (`TransferHasItsSocket`, `NoDataDescriptorLeak`,
  `ImplementsSharedChannel`); a thread moves the file of its own request
  (`TransferServesItsRequest`, `OneThreadPerDirection`); no thread outlives the
  structure it points into (`NoTransferOutlivesConnection`).
* life cycle: whatever `stop()` must end is registered, and can be dereferenced
  (`RegistryIsSound`); transfers stop before memory is freed
  (`NoTransferOnFreedConnection`); a stop that reaches its end frees everything
  (`StopFreesEverything`), and it does reach it (`StopEnds`); a disconnected client's
  memory is freed (`CleanupCompletes`). The last two name what they can wait for in vain.
* session: name and directory belong to the user who is logged in (`NamedAsAccepted`,
  `LoggedOutAtRoot`); paths stop at `MAX_PATH_SIZE` (`PathsBounded`), which is one
  character more than `relative_pwd` holds with its end; below that `get` and `put` agree on
  the directory (`GetFollowsCd`), which exists (`PwdExists`). The first two do not hold after
  every `login`: see "Findings".
* client: one command at a time (`FewCommandsUnderWay`); every transfer thread is
  known, alone in its direction, and works on its own file (`ThreadsAreKnown`,
  `OpensTheFileAskedFor`, `JoinsAStartedThread`).
* both together: each process runs as its own module says, which knows the other one
  only as what it may send (`PartsRunAsSpecified`); the two ends of a transfer are on one connection (`OneDirectionMeets`)
  and no file gets another's bytes (`FilesAreApart`); commands are answered
  (`CommandsReturn`), the next one is sent (`CommandsAreSent`), transfers end on
  both sides (`TransfersEnd`) and the client exits (`ClientExits`).
* copying: never beyond the size (`NothingBeyondSize`), success only when complete
  (`SuccessIsComplete`), a short send has a reason (`ShortSendIsExplained`), and the
  receiver comes back (`ReceiverReturns`).
* command line: the arguments of a command are the words of the line
  (`ArgumentsAreWords`), the client prepares the file that the server moves
  (`SameTransfer`), and a line with a word in it is answered or runs a command
  (`WordsAreAnswered`), which is silent only if it fails with an error that has no text.

## Modules

| module | what it models | how it corresponds to the code |
|---|---|---|
| `SharedChannel` | abstract specification: a connection that several users claim, use and release | what `ftp_data_t` promises its two directions |
| `FtpServer` | `cmd_get`, `cmd_put`, `thread_cleanup`'s ftp part, `setup_ftp`, `check_ftp`, `ftp_clean`, `connect_ftp_server`, `ftp_thread_send`, `ftp_thread_recv` of one connection | a lock section that cannot block is one step, each access outside the lock is its own; `handler` and `thread[d]` are the places where another thread can intervene |
| `ServerLifecycle` | `main`, `accept_connections`, `init_connection`, `add_connection`, `remove_connection`, the walk of `w`, `thread_cleanup`, `stop`, `thread_end` on all connections | `slots` is the vector's buffer, also past its size, since `stop()` walks it with iterators that others invalidate; a second signal of the other kind starts `stop()` inside itself (`stops`); an undefined access ends the behaviour in `fault` |
| `CommandSession` | `login`, `pass`, `logout`, `exit`, `mkdir`, `cd`, `rm`, the authentication check of `process_cmd`, `init_connection` and the directories under the root | a command is one step; one record of fields per client, one tree for all |
| `GrassClient` | `client_writer`, `client_reader`, `check_input`, `check_response`, the client's transfer threads, `check_ftp`, `stop_and_clean` | as `FtpServer`; the server appears as what it answers, which `GrassSystemProofs` shows to be what it does answer |
| `GrassSystem` | one client and its connection of the server: `GrassClient` and an instance of `FtpServer` on one control socket, with the data connections between their threads | the server's `control` is the client's `inbox`; what the client's `connect` and the server's `accept` return is `link`; the files in a connection are `wire` |
| `FileCopy` | `file_send` and `file_recv` with the connection between them | each `sendfile`, `recv`, and the tests around them; bytes are counted |
| `CommandLine` | `fgets`, `check_input`, `tokenize_cmd`, `process_cmd`'s table, `error_handler`, for one line after the other | the text is a sequence of characters; a row of arguments without an end goes on in the next, as in memory |
| `...Proofs` | inductive invariants and theorems of `FtpServer` (with its refinement of `SharedChannel`), `ServerLifecycle`, `CommandSession`, `GrassClient`, `FileCopy`, `CommandLine`, `GrassSystem` (which implements `GrassClient` and `FtpServer`) | |
| `GrassSystemMeets` | where the connections of `GrassSystem` lead: its own inductive invariant, on top of those of both sides | |
| `MC...` | instances for TLC: model values and symmetry | |

What each leaves out of the code it models:

* `FtpServer`: a read error on the control socket (−1, which `handle_client` takes
  for a length); the descriptor that a listening socket overwrites
  in `ftp_socket` is lost as in the code, but `ftp_socket > 1` is taken as "has been
  set". Descriptor numbers are reused, also by other connections (`ForeignFds`).
  A thread that is joined without existing is undefined behaviour: `CheckCancelsStray`
  ends the behaviour there. A broken pipe is in `GrassSystem` (`killed`).
* `ServerLifecycle`: one transfer per connection (two are `FtpServer`'s), and commands,
  except that a handler may be inside `w` or start a transfer; the names in the
  configuration.
* `CommandSession`: `Accepted` is any relation between what `login` and `pass` were given,
  since the code compares prefixes; a `cd` through several directories is the sequence
  of its parts; `cd ..` out of a removed directory succeeds, as in dash (bash refuses it,
  which is one behaviour less); names have one character, so that lengths come from depth;
  the absolute path of the root is shorter than `MAX_PATH_SIZE`, so that `logout` copies all of it;
  the 256 characters that `cd` has for its command, `%` in names and names that begin
  with the root's own name (`cd` compares path prefixes) are left out, so that the test
  of `cd` is containment; plain files are
  not modelled, directories are. `isLoggedIn` is never set by the code.
* `GrassClient`: a message is not split between two reads; signals reach main (Linux
  prefers it; a second one during `stop_and_clean` could end another thread). A
  `TransferEnds` stands for success; `TransferFails` for the errors that are reported.
  Whether the user waits for the answers is not a choice made in advance: the history
  variable `careless` notes that a command was typed before the last one was dealt with,
  or that a text was taken for a transfer's answer because a user of the server is called
  `put` or `get` (`TransferNames`). The history variable `unstarted` notes that
  `pthread_create` has failed. Of texts that begin with a name, only those of the first
  `MaxTransfers` commands do, since each may start a thread.
* `GrassSystem`: a file is one item in a connection, which arrives whole or not at all
  (`FileCopy` has the bytes); descriptors of the server are numbered upwards and not
  used again (`FtpServer` has their reuse); the user asks for another file each time, so
  that files tell requests apart. `pthread_create` does not fail, on either side: the server's
  `SpawnFails` is out of reach because `SystemAssumption` has `MaxThreads >= MaxTransfers`, and
  the client's is not among its actions, so that what `TransfersEnd` and the others say
  is said of processes that do not run out of threads; the two modules by themselves
  have the failure. No user of the server is called `put` or `get` (`TransferNames` is empty). The
  answer to a request carries the request, not the size, which the server reads without the
  lock and which may be 0 by then (`FileCopy` has that case).
* `FileCopy`: the contents of files, and errors of reading the sender's. `recv` of no
  bytes waits until a byte or the end of the stream has come, as it does for TCP on
  Linux. The widths are those of the build: the makefiles have `-m32`, so that `int`, `long` and
  `size_t` have 32 bits, `atoi` (which is `strtol`) stops at the ends of `long`, and a file of 2 GiB or
  more cannot be opened. `recv` fails once and then reports the end of the stream. What
  `write` puts into the file when it is given `recv`'s −1 as a length (`overrun`) is not counted.
* `CommandLine`: one line is under way at a time (`GrassClient` has several); the table
  has a command of each kind, with names of one or two letters.

## Runs

Twelve runs, one for each question.

| run | shows | bounds |
|---|---|---|
| `ftp_safety` | every interleaving of commands, disconnection, two transfer threads and foreign use of descriptors keeps sockets, files and requests with the transfer they belong to; the inductive invariant; refinement of `SharedChannel` | 3 descriptors, one of them foreign, 2 requests, 2 threads, 1 unread message |
| `ftp_join` | violation: join with the lock held for a thread that waits for the lock | 3 descriptors, 1 request |
| `ftp_setup` | violation: the connection that `setup_ftp` has decided to use is closed before the flag is up | same |
| `life_safety` | list, memory and threads agree through start-up, service, disconnection and two signals, the second maybe inside the first's `stop()`; a thread that cleans up finishes, and `stop()` ends with everything freed, unless they wait for a lock that is lost or that is held in `accept()` for a client that does not connect | 2 connections, 2 signals |
| `life_freed` | violation: `stop()` uses a connection that has been freed | 2 connections, 1 signal |
| `session_safety` | who is logged in, under which name, in which directory, over all orders of commands | 2 clients, 2 folder names, `MaxPath` 4, `RootLength` 1, one accepted user and a name of more than 32 characters |
| `client_safety` | at most one command is under way (but for messages nobody asked for), and with a user who waits the threads are known, alone and on their file, and what is joined exists unless it could not be created | 2 commands, 2 files, 1 unasked message, users called `put` and `get`; `Ports` is empty, so that an answer's port is `Nil`: no step looks at it, and `system` has real ones |
| `client_threads` | violation: two `get` typed quickly give two threads | 2 transfers, 1 file |
| `system` | each process runs as its own module says; with a user of one direction at a time both ends of a transfer meet and files are not mixed; for all users commands return, are sent, transfers and the client end, but for the named deadlocks | 2 commands, 2 files, one of which does not fit in the buffers of a connection, 2 failures, ending the client after at most 1 typed command |
| `system_meets` | violation: a `get` typed while a `put` is being set up leads the two ends of one transfer to different connections | same, the client is not ended |
| `copy` | every typed or measured size and every file length, every cut of the stream, every amount of bytes left in it, an error of `recv` at any point | `int` and `size_t` of 4 bits, chunk 3, capacity 4 |
| `command_line` | the words of a line become the arguments, on both sides alike, and are answered, but for errors without a text | texts of up to 9 of the letters p, g and blanks, 4 rows of 3 cells, a buffer of 10 |

Why the bounds are enough. Three descriptors are a listener, the data connection and
one for somebody else; the fourth use of a number is a reuse, which happens with
three. Two requests make a newer path differ from an older one. Two threads are both
directions, and reaching `MaxThreads` makes `pthread_create` fail. Of two connections
one can be erased in front of, or behind, the entry that `stop()` is at, and a third
brings nothing new to any invariant (checked once without liveness, 600,853 states;
the proofs hold for any number). The second signal meets a `stop()` already running.
`MaxPath` 4 admits paths of length 0, 2 and 4, the last one the off-by-one case and,
with the root's own character, the one that `rm` cuts. In `client_safety` two commands, each of which may
start a transfer, are one running and one stopping it, in the same direction or beside it; a third
one brings nothing new (checked once with one such name, 4,924,798 states; the proofs
hold for any number). In `system`, two commands are one transfer beside or after
the other in all four combinations of directions, each with a listener and a
connection of its own if need be. Numbers of four bits have sizes that are zero, smaller than a chunk, a multiple of
it, and that do not fit in an `int`; what is typed goes one beyond both ends of `long`. A text of nine is longer
than the buffer and than every row, and has room for four words of a
letter, or three and blanks around them. The counters `typed`, `failures`,
`signals` and the descriptors of `GrassSystem` are the only ones the guards cap; threads and
messages are bounded by the system. In `GrassSystem` only an upload of the server reports
a failure, and at most once for each `put`, so that `MaxFailures`, no smaller than the number
of transfers, stops nothing; a step that it did stop would break `TransfersEnd`.

`CHECK_DEADLOCK FALSE` everywhere: a server waits for clients, a connection ends,
`exit()` ends a process, and the known deadlocks are runs or named exceptions of
properties.

## Fairness

Only what the scheduler or the kernel does, weak but for one case. In `ServerLifecycle`:
`InitConnection`, `Stop`, `ThreadCleanup`, `EndList`, `TransferLocks` (a thread that can
go on goes on; a mutex that stays free is taken) and `Cancelled`, which is strong: a
thread that serves commands and is cancelled meets a cancellation point (its next
`read`) however often it is in between, inside `w`, where there is none.
`TransferMoves` is a client that connects to the port it was told, which nothing makes it do:
there is no fairness for it, and the properties name what waits for it. In `GrassSystem` (`SystemFairness`): each thread
of both processes, and nothing of the user: that the client connects is a step of
its own thread there. In `FileCopy`: both loops. No fairness makes users type, clients
disconnect or signals arrive.

The liveness properties name what they exempt: `HandlerStuck` and `ClientStuck` are the
joins under a lock and the `accept` that nobody answers, `AwaitsClient` that `accept`, with
`clean_lock` held, in the life cycle, `StopIsStuck` it and the mutexes whose holder has been ended, and
`unanswered` the error without a text.

## Findings

Five violations of what the documentation says; each run gives the schedule.

1. `ftp_join`, `ftp.cpp:82`. `ftp_clean` joins the cancelled thread with
   `clean_lock` held. The thread may be waiting for that lock, which is no
   cancellation point: the command never returns. `cmd.h:156-158` says that the
   current thread is stopped.
2. `ftp_setup`, `cmd.cpp:450`. `setup_ftp` decides under the lock to keep the
   connection; the flag that makes the other direction keep it is raised later, by
   `cmd_get` or `cmd_put`. In between the other direction's thread can close the
   sockets. `ftp.h:65` says that the lock avoids races.
3. `life_freed`, `exit.cpp:27`. `stop()` walks the list without `vector_protect` and
   uses connections that their own threads are freeing. `exit.h:20` promises a clean
   exit.
4. `client_threads`, `client.cpp:61`. A `get` stops the running one when it is typed,
   before the writer waits for the answer to the previous command, so the thread that
   this answer creates is missed.
5. `system_meets`, `ftp.cpp:45`. `port_open` is raised by the transfer threads: while a
   `put` waits for its connection, a `get` sees none and makes the server listen
   a second time, whose port and socket replace the first's. The two ends of one
   transfer end up on different connections, though `cmd.h:156-157` allows the one
   during the other.

Seen while modelling, but not the subject of a run:

* engine: an answer to a `get` that says size 0, because the thread it has started is through
  already (over a connection that the other direction had opened) and has cleared the
  size: the client takes an empty file for complete;
  a listening socket that nobody closes after a `get` and a `put` in a row, or a
  failed `bind`; a handler that waits in `check_ftp` while its transfer thread is in
  `accept()` without a client, so a client that leaves before it connects leaves its
  handler blocked for ever; a `join` of a thread that could not be created; a client
  that closes its end early kills the server by SIGPIPE, with all its connections;
  a transfer of an empty file that lasts as long as the other direction.
* life cycle: the walk of `w` over a changing list, although `data_t` in `grass.h` says the
  mutex protects it; `stop()` that waits for ever for a mutex whose holder it has
  cancelled; a signal that ends the thread of one client and leaves its connection
  registered, as does a `pthread_create` that fails.
* session: `login` copies 33 characters into the 32 of `tmp_username`, and the last one
  lands in `auth`, the next field: every `login` of a user who is logged in ends that login, but leaves
  `pwd` where it is for whoever is next, and a name of 33 characters or more logs in without a
  password, before it is refused as too long; a path of exactly `MAX_PATH_SIZE` characters, which the
  length checks admit although their comments say "less than 128" (`cmd.cpp:261`,
  `:317`), leaves `relative_pwd` without its end, so that `get` looks for its file under that path
  with the absolute one behind it; `cd` refused from a directory at that limit, whatever its argument;
  `rm` from a deep directory removes further up, because the path in its command is cut,
  though `cmd.h:140` restricts it to the current directory; `pass` raises `auth` before
  it stores the name.
* client: a `pthread_create` that fails unnoticed, after which the next command of the direction
  joins no thread, or one that is gone; a user called `put` or `get`, whose name at the beginning of
  an answer (a failed `pass`, the list of `w`) makes the client start a transfer on port 0;
  `stop_and_clean` that waits for a `clean_lock` whose holder it has cancelled; its
  last `exit` has no newline, so that the server reads `exi`; a blank line, or an error without
  a text, hangs the writer; a `put` with blanks behind it cancels the running upload
  though the server refuses it; names of more than 32 characters are cut by the client
  only; the answer to a `put` that replaces a failed one can be read in one piece with
  the report of the failure, and is lost.
* copying: a negative size, as typed, is a `size_t` of 2^31 or more, of which `file_send` sends
  nothing without an error; `put` with a size of −1 succeeds for the server when the
  first `recv` fails, since the total is then that size; after an error of `recv` `write` is
  told to write 2^32 − 1 bytes from the buffer, and writes what is behind it or refuses. The stale bytes
  of a cancelled transfer count for those of the next, and a short `write` is not
  noticed: a transfer that counts as complete may have other content.
* text: an argument of exactly `MAX_ARG_SIZE` characters goes on in the next one; a `read`
  that fails makes `process_cmd` write before its buffer; `iequals` says whether
  names are equal and is given to `sort` as an order.

## Proofs

Checked by TLAPS, for every value of the constants that satisfies the assumption
of the module.

* `FtpServerProofs`. `IInv` relates the lock, the flags, the places of the threads
  and of the handler, and the data connection: who holds `clean_lock` is where, a
  direction whose thread is running is flagged, `port_open` says that the data
  connection exists and some flag is up. None of the safety invariants is inductive
  without it: `TransferHasItsSocket`, for instance, needs that the other direction's
  `ftp_clean` sees this one's flag. `TypeCorrect`, `Inductive`, then one theorem per
  invariant: `CleanupIsComplete`, `TransfersKeepTheirSocket`, `NothingIsForgotten`,
  `RequestsAreServed`, `ThreadsAreReplaced`. `Refinement` shows that every step is a
  step of `SharedChannel` or a stutter.
* `ServerLifecycleProofs`. `IInv` has four parts: types; `Registry` (who is in the list,
  live, and set up); `Endings` (a connection whose thread is over has no transfer; the loop's
  index is inside the buffer); and `LoopCovers`, for `StopFreesEverything`.
  The loop of `stop()` runs over a buffer that shrinks under it: an
  erased entry moves its successors down, past the loop's index, and leaves copies behind
  the vector's end. `LoopCovers` says that every connection still registered has been ended by
  the loop, is in its hands, or is ahead of it, in the part of the buffer that it
  will still reach; or else there is a copy ahead that the loop will meet a second time,
  which is an access to what has been freed (`fault`), and the behaviour ends there. `TypeCorrect`, `SoundRegistry`,
  `TransfersEndFirst`, and `StopLeavesNothing`, an action property.
* `CommandSessionProofs`. The inductive invariant adds to the listed ones that the
  root is never removed, and is proved command by command; the statements except what `login` does
  to `auth` (`displaced`, `LongNames`) and the path that has lost its end, as the code does: `TypeCorrect`,
  `NewUsersStartAtRoot`, `SessionsAreNamed`, `PathsStayShort`,
  `SessionsKeepTheirDirectory`, `GetReadsWherePutWrites`.
* `GrassClientProofs`. For any user, `Tokens`: a command or an answer under way, the
  writer about to write, the reader with a message in hand and a lock that is free are one
  token together, and each message read without an answer in it makes one more. This is
  `client->lock` as it is used, a semaphore that one thread takes and another gives back;
  `FewAreUnderWay` follows. For a user who has not been `careless`, `Orderly`: a put or get is in one
  place of the pipeline from writer to reader at a time (`OneAtATime`); from its stored
  path to its thread, its direction has no thread, and no flag but its own
  (`RequestsArePrepared`); a flag that is up has a thread, or is about to, or its thread could
  not be created (`FlagsHaveThreads`).
  The list of places is needed because flag, path, id and thread are set by two
  threads at four different times. `Orderly` holds while `stop_and_clean` runs as well, where
  main may lower a flag before its thread exists (`Late`): the properties are promised until
  then only, but `GrassSystemMeets` needs the rest. `TypeCorrect`, `EveryThreadIsKnown`,
  `EveryThreadOpensItsFile`, `NoJoinIsInVain`.
* `GrassSystemProofs`. Both processes of `GrassSystem` are shown to be what the modules of
  the two sides say, so that all that is proved of those holds of the whole.
  `SystemImplementsServer` maps the server's variables one to one: each step of the client is
  one that `FtpServer` allows its environment. `SystemImplementsClient` needs a mapping,
  since a command that the server's handler has taken from the socket and not answered
  is, for `GrassClient`, still on its way (`Unanswered`), and an invariant, `Mapped`: only transfers
  are written, and a handler that is leaving has nothing left to answer.
  `PartsRunAsTheyShould` is both; `ClientIsServed` and `ServerIsUsed` bring the client's and the
  server's invariants over. The refinement is a check of the assumptions as well: `GrassClient`
  used to exclude an answer without a port (the other direction closes the
  connection between set-up and reply), and a report of failure ahead of the
  reader's taking the `put`'s answer; the server does both, and both are in it now.
* `GrassSystemMeets`. `OneDirectionMeets` and `FilesAreApart` speak of both processes, and
  neither side's invariant implies them: each decides by its own `port_open`, set and
  lowered by its own threads, whether a file goes over the connection there is. The
  inductive invariant is `Parts /\ SInv`: what the two sides keep by themselves
  (`Client!IInv`, `Server!IInv`, `Mapped`) and, while the user has used one direction at a time
  (`~hasty`), `Meeting`, whose conjuncts are the argument. One direction rests on both sides
  (`OneWay`), so that a side which has a connection has it for the request in hand. A request
  under way is for a file that no thread is for (`FilesAreNew`). A client thread that is still
  to connect finds no older connection (`ClientConnection`, `ClientPort`); a transfer of the
  server has a listener that the client does not know before the reply (`ServerPort`,
  `Numbered`). A port that has been announced, and a connection that has been made, is the one
  that a thread of the server works with exactly when it is for the request which that thread
  serves (`PortsAreForRequests`, `LinksAreForRequests`): "exactly when" is what carries over
  from the announcement to the connection, while cancelled transfers of either side leave
  descriptors and half-made connections behind. What is in a connection is then of
  one file (`WiresCarryOneFile`). `SystemInvariance`, `TransfersMeet`, `NoFileIsMixed`. TLC has
  checked the invariant before: on the instance of the run (with other users as well,
  3,097,678 states) and with three commands of a user of one direction.
* `FileCopyProofs`. The sender's `int` plus what it has sent is its size, read as an
  `int`; the two sizes are the same, or the receiver's is 0; and the receiver's loop has not
  passed its size, nor has it survived an error of `recv` before the first byte. For every width
  of `int`, with `size_t` as wide as it is:
  `CountsStayInRange`, `CopyStopsAtSize`, `SuccessMeansComplete`,
  `ShortSendsAreExplained`.
* `CommandLineProofs`. The tokens of `tokenize_cmd`, each found behind the last, are compared
  with the words of a text, which are defined without any order of search. `IsSpan` says
  of the i-th token that it starts where a word does, ends where that word does, and has
  `i - 1` words before it; it carries over from one token to the next, which `EverySpanIsAWord`
  turns into all tokens by the least one that would go wrong (`Smallest`, from the
  well-foundedness of finite sets: the library's induction theorems cannot be used here).
  `ServerTokens` follows, for a text of any length, and `ClientTokens`: with the line's end
  left on, the last word is one character longer, which `Chomp` takes off again, or, with blanks
  behind it, the end is a token of its own, which only adds to their number. The inductive invariant
  `LineInvariant` says the rest: a line's end is at its end only, the client has prepared
  the file that its tokens name, a command runs with the server's tokens; TLC has checked it
  on the instance of the run (325,892 states). `LineInvariance`,
  `CommandsGetTheirWords`, `TheSameFileMoves`, `SilenceMeansNoWords`. As the properties, they are about
  lines that fitted in the buffer and words that fit in their rows: what
  becomes of longer ones is under "Findings".

Only model-checked: liveness, which is out of the prover's reach.

## Not modelled

* The text helpers `checkInvalidChars`, `check_pattern_validity`, `findAndReplaceAll`,
  `iequals`: functions of characters, which the commands that use them take as they are.
  `tokenize_path` is called by nobody.
* `execute_system_cmd` and the commands that only show its output (`ping`, `date`, `ls`,
  `grep`) or a field (`whoami`): a shell does the work, no state of the server changes.
* The words of the configuration file and the path that `check_dir` builds; that
  start-up can fail there, and what follows, is in `ServerLifecycle`.
* `grass.c` and `tests/fileopen.c` hold no behaviour. Of the makefiles only `-m32` matters, for the
  widths in `FileCopy`.

## Plan

Written, in the order of importance:

1. `SharedChannel`, `FtpServer`, `FtpServerProofs`: the engine, where three threads meet.
2. `ServerLifecycle`, `ServerLifecycleProofs`: connections, memory and signals.
3. `CommandSession`, `CommandSessionProofs`.
4. `GrassClient`, `GrassClientProofs`.
5. `GrassSystem`, `GrassSystemProofs`, `GrassSystemMeets`: both sides and their connections.
6. `FileCopy`, `FileCopyProofs`.
7. `CommandLine`, `CommandLineProofs`.

Left:

1. `w` beside the two assignments of `pass`, and the order that `sort` makes of
   `iequals`.
2. A control socket whose `read` fails.
