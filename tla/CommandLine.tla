---------------------------- MODULE CommandLine ----------------------------
(***************************************************************************)
(* What becomes of the text a user types: fgets cuts it into lines, the    *)
(* client looks into each for a put or get (check_input) and sends it, and *)
(* the server splits what it reads into arguments, looks for the command   *)
(* and answers (process_cmd, error_handler).  Client and server split with *)
(* the same tokenize_cmd, but not the same characters.                     *)
(* One line is under way at a time; GrassClient is about several.          *)
(***************************************************************************)
EXTENDS Naturals, Sequences, FiniteSets

CONSTANTS
  MAX_ARG_SIZE,       \* cells of an argument, its end included
  MAX_TOKENS,         \* arguments, the command included
  MAX_INPUT_SIZE,     \* cells of the client's buffer
  MAX_FILENAME_SIZE,  \* characters of a file name that the client looks at
  Letters,            \* the characters of a word
  MaxText             \* characters that the user types

ASSUME ConstantsAssumption ==
  /\ {MAX_ARG_SIZE, MAX_TOKENS, MAX_FILENAME_SIZE, MaxText} \subseteq Nat \ {0}
  /\ MAX_INPUT_SIZE \in Nat /\ MAX_INPUT_SIZE > 3
  /\ {" ", "\n", "?"} \cap Letters = {}

(* A command of each kind: number of arguments, whether it needs a login,  *)
(* and the errors its function returns.  Names are as short as can be.     *)
SetupErrors == {"SOCKET", "BIND", "NETWORK"}
cmds == {
  [name |-> <<"p">>, kind |-> "put", num_params |-> 2, authent |-> TRUE,
   errors |-> SetupErrors],
  [name |-> <<"g">>, kind |-> "get", num_params |-> 1, authent |-> TRUE,
   errors |-> SetupErrors \cup {"FILESIZE", "FILE_NOT_FOUND"}],
  [name |-> <<"p", "g">>, kind |-> "ping", num_params |-> 1, authent |-> FALSE,
   errors |-> {"ARGUMENT_SIZE", "INVALID_CHARS", "IO"}],
  [name |-> <<"g", "p">>, kind |-> "exit", num_params |-> 0, authent |-> FALSE,
   errors |-> {}]}

(* The errors for which error_handler has a text.                          *)
Spoken == {"FILESIZE", "FILE_NOT_FOUND", "ARGUMENT_SIZE", "INVALID_CHARS"}

VARIABLES
  text,      \* what the user has typed and fgets has not returned
  line,      \* the client's buffer
  prepared,  \* file that the client has prepared for put, for get
  auth,      \* is the session logged in?
  rows,      \* the arguments, as the server has split them
  num_tokens,
  running,   \* the kind of the command that runs
  step       \* who has the line

vars == <<text, line, prepared, auth, rows, num_tokens, running, step>>

NoFile == [name |-> <<>>, size |-> <<>>]
NoRows == [i \in 1..MAX_TOKENS |-> <<>>]

Texts == UNION {[1..n -> Letters \cup {" "}] : n \in 0..MaxText}

Init ==
  /\ \E t \in Texts : text = Append(t, "\n")
  /\ line = <<>>
  /\ prepared = [kind \in {"put", "get"} |-> NoFile]
  /\ auth \in BOOLEAN
  /\ rows = NoRows /\ num_tokens = 0
  /\ running = "none"
  /\ step = "type"

-----------------------------------------------------------------------------
(* tokenize_cmd.                                                           *)

(* The first position of s from i on with one of chars.                    *)
First(s, i, chars) ==
  CHOOSE j \in i..(Len(s) + 1) :
    /\ j = Len(s) + 1 \/ s[j] \in chars
    /\ \A k \in i..(j - 1) : s[k] \notin chars
Space == {" "}
NoSpace == Letters \cup {"\n", "?"}

(* strtok: where the next token starts; a row of spaces counts for one.    *)
EverySpace(s, i) == i                    \* mutant: every space separates
SkipSpaces(s, i) == First(s, i, NoSpace)

TokensRead == MAX_TOKENS

(* Start and end of the token behind position last; the end is the space   *)
(* behind the token.  There is no token behind the end of the string.      *)
SpanBehind(s, last) ==
  LET from == IF last >= Len(s) THEN Len(s) + 1 ELSE SkipSpaces(s, last + 1)
  IN <<from, First(s, from, Space)>>

(* The tokens that are looked at.                                          *)
Spans(s) ==
  LET span[i \in 1..TokensRead] ==
        SpanBehind(s, IF i = 1 THEN 0 ELSE span[i - 1][2])
  IN span

(* The line's end is cut from a token.                                     *)
Chomp(t) == IF t # <<>> /\ t[Len(t)] = "\n" THEN SubSeq(t, 1, Len(t) - 1) ELSE t

(* The number of tokens, or 0 and an error; and the rows, which stay empty *)
(* behind the last token.                                                  *)
Tokenize(s) ==
  LET span == Spans(s)
      token == [i \in 1..TokensRead |-> SubSeq(s, span[i][1], span[i][2] - 1)]
  IN [long |-> \E i \in 1..TokensRead : Len(token[i]) > MAX_ARG_SIZE,
      num  |-> Cardinality({i \in 1..TokensRead : span[i][1] <= Len(s)}),
      rows |-> [i \in 1..TokensRead |-> Chomp(token[i])]]

(* The string in a row: one that fills its row goes on in the next, and    *)
(* behind the last row is what the stack holds.                            *)
String(table, i) ==
  LET string[j \in 1..(MAX_TOKENS + 1)] ==
        IF j > MAX_TOKENS THEN <<"?">>
        ELSE IF Len(table[j]) < MAX_ARG_SIZE THEN table[j]
        ELSE table[j] \o string[j + 1]
  IN string[i]

-----------------------------------------------------------------------------
(* The client.                                                             *)

(* fgets returns a line, or as much of it as the buffer takes.             *)
Smaller(m, n) == IF m < n THEN m ELSE n

Fgets ==
  /\ step = "type" /\ text # <<>>
  /\ LET n == Smaller(First(text, 1, {"\n"}), MAX_INPUT_SIZE - 2)
     IN line' = SubSeq(text, 1, n) /\ text' = SubSeq(text, n + 1, Len(text))
  /\ step' = "check"
  /\ UNCHANGED <<prepared, auth, rows, num_tokens, running>>

(* check_input stores file and size of a put, the file of a get, for the   *)
(* thread that will move it.                                               *)
Cut(name) == SubSeq(name, 1, Smaller(Len(name), MAX_FILENAME_SIZE))
FirstArgument(table) == String(table, 1) \* mutant: the name of the command
FileArgument(table) == String(table, 2)

Prepared(t) ==
  LET file == Cut(FileArgument(t.rows))
  IN CASE ~t.long /\ t.num > 2 /\ String(t.rows, 1) = <<"p">> ->
            [prepared EXCEPT !["put"] = [name |-> file, size |-> String(t.rows, 3)]]
       [] ~t.long /\ t.num > 1 /\ String(t.rows, 1) = <<"g">> ->
            [prepared EXCEPT !["get"] = [name |-> file, size |-> <<>>]]
       [] OTHER -> prepared

(* A line without any token is not sent.                                   *)
CheckInput ==
  /\ step = "check"
  /\ LET t == Tokenize(line)
     IN /\ prepared' = Prepared(t)
        /\ step' = IF t.num = 0 /\ ~t.long THEN "type" ELSE "server"
  /\ UNCHANGED <<text, line, auth, rows, num_tokens, running>>

-----------------------------------------------------------------------------
(* The server.                                                             *)

(* process_cmd takes the last character for the end of the line.           *)
CutsTwo(s) == SubSeq(s, 1, Len(s) - 2)   \* mutant: it takes the last two
Input(s) == SubSeq(s, 1, Len(s) - 1)

Matching(table) == {c \in cmds : c.name = String(table, 1)}

(* A line of blanks gets no answer, one that is no command or has a wrong  *)
(* number of arguments a text, and so does a command that needs a login;   *)
(* otherwise the command runs.                                             *)
ProcessCmd ==
  /\ step = "server"
  /\ LET t == Tokenize(Input(line))
         found == Matching(t.rows)
     IN /\ rows' = t.rows /\ num_tokens' = t.num
        /\ \/ /\ t.num = 0 /\ ~t.long
              /\ step' = "silent"
              /\ UNCHANGED running
           \/ /\ \/ t.long
                 \/ t.num > 0 /\ \A c \in found :
                      t.num - 1 # c.num_params \/ (c.authent /\ ~auth)
              /\ step' = "answered"
              /\ UNCHANGED running
           \/ /\ ~t.long
              /\ \E c \in found :
                   /\ t.num - 1 = c.num_params /\ (c.authent => auth)
                   /\ running' = c.kind
              /\ step' = "run"
  /\ UNCHANGED <<text, line, prepared, auth>>

(* The function of the command returns; what it returns is answered, or    *)
(* has no text.                                                            *)
Returns ==
  /\ step = "run"
  /\ \E c \in cmds : c.kind = running /\
       \E result \in c.errors \cup {"OK"} :
         step' = IF result \in Spoken \/ (result = "OK" /\ running # "exit")
                 THEN "answered" ELSE "silent"
  /\ UNCHANGED <<text, line, prepared, auth, rows, num_tokens, running>>

(* The client has its answer and goes on.                                  *)
Answered ==
  /\ step = "answered"
  /\ step' = "type"
  /\ running' = "none"
  /\ UNCHANGED <<text, line, prepared, auth, rows, num_tokens>>

Next == Fgets \/ CheckInput \/ ProcessCmd \/ Returns \/ Answered

Spec == Init /\ [][Next]_vars

-----------------------------------------------------------------------------
(* What holds.                                                             *)
(* The words of a line, by what a word is: a run of characters that cannot *)
(* be made longer.                                                         *)
Body(s) == SubSeq(s, 1, First(s, 1, {"\n"}) - 1)
WordStarts(s) == {i \in 1..Len(s) : s[i] # " " /\ (i > 1 => s[i - 1] = " ")}
Words(s) ==
  [n \in 1..Cardinality(WordStarts(s)) |->
     LET i == CHOOSE i \in WordStarts(s) :
                Cardinality({k \in WordStarts(s) : k <= i}) = n
         ends == {j \in i..Len(s) : \A k \in i..j : s[k] # " "}
     IN SubSeq(s, i, i + Cardinality(ends) - 1)]

(* A line that fitted in the buffer, with words that fit in their rows.    *)
IsWhole == line # <<>> /\ line[Len(line)] = "\n"
WordsFit == LET w == Words(Body(line))
            IN \A i \in 1..Len(w) : i <= MAX_TOKENS => Len(w[i]) < MAX_ARG_SIZE

(* The arguments of a command that runs are the words of the line, however *)
(* many spaces there are between, before and behind them.                  *)
ArgumentsAreWords ==
  step = "run" /\ IsWhole /\ WordsFit =>
    LET w == Words(Body(line))
    IN /\ num_tokens = Smaller(Len(w), MAX_TOKENS)
       /\ \A i \in 1..num_tokens : String(rows, i) = w[i]

(* A put or get that runs moves the file that the client has prepared,     *)
(* although the client splits the line with its end and the server without.*)
SameTransfer ==
  step = "run" /\ IsWhole /\ WordsFit /\ running \in {"put", "get"}
    /\ Len(String(rows, 2)) <= MAX_FILENAME_SIZE =>
      /\ prepared[running].name = String(rows, 2)
      /\ running = "put" => prepared[running].size = String(rows, 3)

(* A line with a word in it is answered, or runs a command.                *)
WordsAreAnswered ==
  step = "silent" /\ IsWhole /\ running = "none" => Words(Body(line)) = <<>>
=============================================================================
