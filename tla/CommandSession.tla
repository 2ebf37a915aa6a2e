--------------------------- MODULE CommandSession ---------------------------
(***************************************************************************)
(* The sessions of the connected clients, as process_cmd and the cmd_*     *)
(* functions keep them in each connection_t, and the directory tree below  *)
(* the server's root, which all sessions share.                            *)
(* A command is one step: of the state of a session only the list of       *)
(* connected users (w) is read by another thread, see ServerLifecycle.     *)
(* get and put work on ftp_data_t, see FtpServer; here they matter because *)
(* get looks for its file under relative_pwd and put stores it under pwd.  *)
(* ping, date, whoami, w, ls and grep change no session and no directory.  *)
(***************************************************************************)
EXTENDS Integers, Sequences

CONSTANTS
  Clients,
  Names,       \* arguments of login
  LongNames,   \* those of them with more than MAX_USERNAME_SIZE characters
  Passwords,   \* arguments of pass
  Accepted,    \* the pairs of them that match an entry of server_data->users
  Unknown,     \* the user name given to a session before it has logged in
  Folders,     \* names of directories, of one character each
  MaxPath,     \* MAX_PATH_SIZE
  RootPath,    \* the absolute path of the root, as one name
  RootLength,  \* its characters
  Outside,     \* any directory that is not under the root
  Garbage      \* what an uninitialised buffer may hold

ASSUME ConstantsAssumption ==
  /\ Accepted \subseteq Names \X Passwords
  /\ LongNames \subseteq Names
  /\ Unknown \notin Names
  /\ MaxPath \in Nat \ {0}
  /\ RootLength \in 0..(MaxPath - 1)
  /\ {Outside, Garbage} \cap Seq(Folders) = {}
  /\ ".." \notin Folders

VARIABLES
  connected,         \* is the session's thread in its loop? (~exit)
  auth,
  ready_for_check,
  tmp_username,
  username,
  pwd,               \* working directory, relative to the root
  relative_pwd,      \* its own copy of that path, for get
  dirs,              \* the directories under the root
  displaced,         \* history: has a login ended a login, without logout?
  moved,             \* history: has cd succeeded since the last logout?
  evicted            \* history: has an rm of elsewhere removed pwd?

loginVars == <<auth, ready_for_check, tmp_username, username, displaced>>
pathVars  == <<pwd, relative_pwd, moved>>
vars == <<connected, loginVars, pathVars, dirs, evicted>>

Root == <<>>
Paths == Seq(Folders)

(* The length of a path: each of its names comes with its "/".             *)
PathLength(p) == 2 * Len(p)

Init ==
  /\ connected = [c \in Clients |-> FALSE]
  /\ auth = [c \in Clients |-> FALSE]
  /\ ready_for_check = [c \in Clients |-> FALSE]
  /\ tmp_username = [c \in Clients |-> Unknown]
  /\ username = [c \in Clients |-> Unknown]
  /\ pwd = [c \in Clients |-> Root]
  /\ relative_pwd = [c \in Clients |-> Garbage]
  /\ displaced = [c \in Clients |-> FALSE]
  /\ moved = [c \in Clients |-> FALSE]
  /\ evicted = [c \in Clients |-> FALSE]
  /\ dirs = {Root}

-----------------------------------------------------------------------------
(* init_connection: the structure comes from malloc, and relative_pwd is   *)
(* not among the fields that are set.                                      *)
Connect(c) ==
  /\ ~connected[c]
  /\ connected' = [connected EXCEPT ![c] = TRUE]
  /\ auth' = [auth EXCEPT ![c] = FALSE]
  /\ ready_for_check' = [ready_for_check EXCEPT ![c] = FALSE]
  /\ tmp_username' = [tmp_username EXCEPT ![c] = Unknown]
  /\ username' = [username EXCEPT ![c] = Unknown]
  /\ pwd' = [pwd EXCEPT ![c] = Root]
  /\ \E junk \in {Garbage, Root, relative_pwd[c]} :
       relative_pwd' = [relative_pwd EXCEPT ![c] = junk]
  /\ displaced' = [displaced EXCEPT ![c] = FALSE]
  /\ moved' = [moved EXCEPT ![c] = FALSE]
  /\ evicted' = [evicted EXCEPT ![c] = FALSE]
  /\ UNCHANGED dirs

(* cmd_exit, or the end of the client: handle_client leaves its loop.      *)
Leave(c) ==
  /\ connected[c]
  /\ connected' = [connected EXCEPT ![c] = FALSE]
  /\ UNCHANGED <<loginVars, pathVars, dirs, evicted>>

(* process_cmd runs the commands marked in cmds for a logged-in user only. *)
MayRun(c) == connected[c] /\ auth[c]

(* cmd_login, also for a user who is logged in.  It copies one character   *)
(* more than tmp_username holds, and auth is the field behind it: the end  *)
(* or the padding of a name that fits makes it false, the next character   *)
(* of a longer name makes it true.  Only then is that name refused.        *)
Login(c, n) ==
  /\ connected[c]
  /\ ready_for_check' = [ready_for_check EXCEPT ![c] = TRUE]
  /\ tmp_username' = [tmp_username EXCEPT ![c] = n]
  /\ auth' = [auth EXCEPT ![c] = n \in LongNames]
  /\ displaced' = [displaced EXCEPT ![c] = @ \/ auth[c]]
  /\ UNCHANGED <<connected, username, pathVars, dirs, evicted>>

(* cmd_pass, when it gets as far as comparing: a user who is logged in, or *)
(* has given no name since the last comparison, is only told so.           *)
PassKeepsName(c) == UNCHANGED username   \* mutant of NamedByLogin
NamedByLogin(c) == username' = [username EXCEPT ![c] = tmp_username[c]]

Pass(c, p) ==
  /\ connected[c]
  /\ ~auth[c]
  /\ ready_for_check[c]
  /\ IF <<tmp_username[c], p>> \in Accepted
       THEN auth' = [auth EXCEPT ![c] = TRUE] /\ NamedByLogin(c)
       ELSE UNCHANGED <<auth, username>>
  /\ ready_for_check' = [ready_for_check EXCEPT ![c] = FALSE]
  /\ UNCHANGED <<connected, tmp_username, displaced, pathVars, dirs, evicted>>

(* cmd_logout: the working directory becomes the root again, relative_pwd, *)
(* the user name and a pending login stay.                                 *)
StaysAt(c) == pwd[c]                     \* mutant: the directory stays
StartsAt(c) == Root

Logout(c) ==
  /\ MayRun(c)
  /\ auth' = [auth EXCEPT ![c] = FALSE]
  /\ pwd' = [pwd EXCEPT ![c] = StartsAt(c)]
  /\ displaced' = [displaced EXCEPT ![c] = FALSE]
  /\ moved' = [moved EXCEPT ![c] = FALSE]
  /\ evicted' = [evicted EXCEPT ![c] = FALSE]
  /\ UNCHANGED <<connected, ready_for_check, tmp_username, username,
                 relative_pwd, dirs>>

-----------------------------------------------------------------------------
(* Directories.  mkdir and cd add the lengths of the working directory and *)
(* of the argument, of n characters, even when the argument is absolute.   *)
ArgumentFitsAlone(c, n) == n < MaxPath   \* mutant: pwd is not counted
ArgumentFits(c, n) == PathLength(pwd[c]) + n < MaxPath

(* cmd_mkdir: a plain name.  mkdir(2) fails when the name is taken or the  *)
(* working directory is gone.                                              *)
Mkdir(c, f) ==
  /\ MayRun(c)
  /\ ArgumentFits(c, 1)
  /\ pwd[c] \in dirs
  /\ dirs' = dirs \cup {Append(pwd[c], f)}
  /\ UNCHANGED <<connected, loginVars, pathVars, evicted>>

(* cmd_rm: rm -r of a plain name removes everything below it, under        *)
(* whichever sessions are there.  Of the absolute path of the working      *)
(* directory only MAX_PATH_SIZE characters go into the command: behind a   *)
(* longer one the name is looked for further up.                           *)
IsBelow(p, top) == Len(p) >= Len(top) /\ SubSeq(p, 1, Len(top)) = top
IsCut(c) == RootLength + PathLength(pwd[c]) > MaxPath
RmIn(c) ==
  IF IsCut(c) THEN SubSeq(pwd[c], 1, (MaxPath - RootLength) \div 2) ELSE pwd[c]

DoomedWithPwd(c, f) ==                   \* mutant: the name is not appended
  {p \in dirs \ {Root} : IsBelow(p, RmIn(c))}
Doomed(c, f) == {p \in dirs : IsBelow(p, Append(RmIn(c), f))}

Rm(c, f) ==
  /\ MayRun(c)
  /\ dirs' = dirs \ Doomed(c, f)
  /\ evicted' = [o \in Clients |->
       evicted[o] \/ ((o # c \/ IsCut(c)) /\ pwd[o] \in Doomed(c, f))]
  /\ UNCHANGED <<connected, loginVars, pathVars>>

(* The arguments of cd: "/", a name, "..", or one of these after a "/".    *)
Arguments == [absolute : BOOLEAN, step : Folders \cup {"..", ""}]
             \ {[absolute |-> FALSE, step |-> ""]}

ArgumentLength(a) ==
  (IF a.absolute THEN 1 ELSE 0)
  + (IF a.step = "" THEN 0 ELSE IF a.step = ".." THEN 2 ELSE 1)

(* Where the shell ends up: .. of the root leads out.                      *)
Target(c, a) ==
  LET base == IF a.absolute THEN Root ELSE pwd[c]
  IN IF a.step = "" THEN base
     ELSE IF a.step # ".." THEN Append(base, a.step)
     ELSE IF base = Root THEN Outside
     ELSE SubSeq(base, 1, Len(base) - 1)

(* cmd_cd, when it succeeds: the shell prints the new directory, and it is *)
(* under the root.  (Errors and "Invalid path" change nothing.)            *)
IsUnderRootAlways(p) == TRUE             \* mutant: no access check
IsUnderRoot(p) == p \in dirs

StaleRelative(c, p) == relative_pwd      \* mutant of NewRelative
NewRelative(c, p) == [relative_pwd EXCEPT ![c] = p]

(* The path that get reads out of relative_pwd.  A path of MaxPath         *)
(* characters fills the array; its end went to the first cell of pwd,      *)
(* which cd has overwritten since, so that the absolute path in pwd        *)
(* follows it.                                                             *)
ReadsUnder(c) ==
  IF relative_pwd[c] # Garbage /\ PathLength(relative_pwd[c]) = MaxPath
    THEN relative_pwd[c] \o <<RootPath>> \o pwd[c]
    ELSE relative_pwd[c]

Cd(c, a) ==
  /\ MayRun(c)
  /\ ArgumentFits(c, ArgumentLength(a))
  /\ LET p == Target(c, a)
     IN /\ p \in dirs \cup {Outside}
        /\ IsUnderRoot(p)
        /\ pwd' = [pwd EXCEPT ![c] = p]
        /\ relative_pwd' = NewRelative(c, p)
  /\ moved' = [moved EXCEPT ![c] = TRUE]
  /\ evicted' = [evicted EXCEPT ![c] = FALSE]
  /\ UNCHANGED <<connected, loginVars, dirs>>

-----------------------------------------------------------------------------
Session(c) ==
  \/ Connect(c) \/ Leave(c) \/ Logout(c)
  \/ \E n \in Names : Login(c, n)
  \/ \E p \in Passwords : Pass(c, p)

Files(c) ==
  \/ \E f \in Folders : Mkdir(c, f) \/ Rm(c, f)
  \/ \E a \in Arguments : Cd(c, a)

Next == \E c \in Clients : Session(c) \/ Files(c)

Spec == Init /\ [][Next]_vars

-----------------------------------------------------------------------------
(* Every variable has the type of the field it stands for; in particular   *)
(* no working directory is outside the root.                               *)
TypeOK ==
  /\ {connected, auth, ready_for_check, displaced, moved, evicted}
       \subseteq [Clients -> BOOLEAN]
  /\ {tmp_username, username} \subseteq [Clients -> Names \cup {Unknown}]
  /\ pwd \in [Clients -> Paths]
  /\ relative_pwd \in [Clients -> Paths \cup {Garbage}]
  /\ dirs \subseteq Paths

(* Whoever is not logged in is at the root, so that the next user of the   *)
(* connection does not start in another one's directory.  The exception:   *)
(* a login typed by a user who is logged in ends that login and moves      *)
(* nobody (see Login).                                                     *)
LoggedOutAtRoot ==
  \A c \in Clients :
    connected[c] /\ ~auth[c] /\ ~displaced[c] => pwd[c] = Root

(* A logged-in session bears a name that a password was accepted for, also *)
(* after a new login that no pass has confirmed and after failed attempts. *)
(* The exception: a login with a name that is too long (see Login).        *)
NamedAsAccepted ==
  \A c \in Clients :
    auth[c] /\ tmp_username[c] \notin LongNames
      => \E p \in Passwords : <<username[c], p>> \in Accepted

(* No sequence of mkdir and cd makes a path longer than MaxPath, although  *)
(* each checks only a sum of two lengths, without the "/" between them.    *)
(* That makes the limit itself legal, where the comments on the checks     *)
(* say less (cmd.cpp:261, :317) and relative_pwd has no room for the end   *)
(* of the string; what it never makes is a path that runs further than     *)
(* that one cell into pwd.                                                 *)
PathsBounded ==
  /\ \A p \in dirs : PathLength(p) <= MaxPath
  /\ \A c \in Clients : PathLength(pwd[c]) <= MaxPath

(* A session's own commands never leave it in a directory that does not    *)
(* exist: it takes another session's rm, or one with a cut path.           *)
PwdExists ==
  \A c \in Clients : connected[c] /\ ~evicted[c] => pwd[c] \in dirs

(* get reads where put writes, from the first cd of a login on, whatever   *)
(* the working directory was before.  The exception: at a path of exactly  *)
(* MaxPath characters relative_pwd has lost its end (see ReadsUnder).      *)
GetFollowsCd ==
  \A c \in Clients :
    moved[c] /\ PathLength(pwd[c]) < MaxPath => ReadsUnder(c) = pwd[c]
=============================================================================
