------------------------ MODULE CommandSessionProofs ------------------------
(***************************************************************************)
(* Proofs about CommandSession, for every set of clients, names and        *)
(* directories and every limit on paths.                                   *)
(***************************************************************************)
EXTENDS CommandSession, TLAPS

(* What is inductive: the invariants of CommandSession, the root itself    *)
(* being a directory (it is where logout goes, and no rm removes it).      *)
IInv ==
  /\ TypeOK
  /\ Root \in dirs
  /\ LoggedOutAtRoot
  /\ NamedAsAccepted
  /\ PathsBounded
  /\ PwdExists
  /\ GetFollowsCd

-----------------------------------------------------------------------------
(* Appending a name to a path gives a path that is longer by one name.     *)
LEMMA AppendedPath ==
  ASSUME NEW p \in Paths, NEW f \in Folders
  PROVE  /\ Append(p, f) \in Paths
         /\ Len(Append(p, f)) = Len(p) + 1
  BY DEF Paths

(* The directory that rm works in is a path, and the session's own one     *)
(* unless that has been cut.                                               *)
LEMMA RmInPath ==
  ASSUME TypeOK, NEW c \in Clients
  PROVE  RmIn(c) \in Paths /\ (~IsCut(c) => RmIn(c) = pwd[c])
<1>1. pwd[c] \in Paths
  BY DEF TypeOK
<1>2. CASE ~IsCut(c)
  BY <1>1, <1>2 DEF RmIn
<1>3. CASE IsCut(c)
  <2> DEFINE n == (MaxPath - RootLength) \div 2
  <2>1. n \in Nat /\ n <= Len(pwd[c])
    BY <1>1, <1>3, ConstantsAssumption DEF IsCut, PathLength, Paths
  <2> QED
    BY <1>1, <1>3, <2>1 DEF RmIn, Paths
<1> QED
  BY <1>2, <1>3

(* Whatever rm removes lies strictly below the directory it works in.      *)
LEMMA DoomedAreLonger ==
  ASSUME TypeOK, NEW c \in Clients, NEW f \in Folders, NEW p \in Doomed(c, f)
  PROVE  p # RmIn(c) /\ p # Root
<1>1. RmIn(c) \in Paths
  BY RmInPath
<1>2. p \in Paths /\ Len(p) >= Len(Append(RmIn(c), f))
  BY DEF Doomed, IsBelow, TypeOK
<1>3. Len(p) >= Len(RmIn(c)) + 1 /\ Len(RmIn(c)) \in Nat
  BY <1>1, <1>2, AppendedPath DEF Paths
<1>4. Len(Root) = 0
  BY DEF Root
<1> QED
  BY <1>3, <1>4

-----------------------------------------------------------------------------
(* The invariant holds before anybody connects.                           *)
THEOREM InitIInv == Init => IInv
  BY ConstantsAssumption
  DEF Init, IInv, ReadsUnder, TypeOK, LoggedOutAtRoot, NamedAsAccepted, PathsBounded,
      PwdExists, GetFollowsCd, Paths, Root, PathLength

(* Every command keeps the inductive invariant.                            *)
THEOREM NextIInv == IInv /\ [Next]_vars => IInv'
<1> SUFFICES ASSUME IInv, [Next]_vars PROVE IInv'
  OBVIOUS
<1> USE DEF IInv
<1>1. ASSUME NEW c \in Clients, Connect(c) PROVE IInv'
  <2>1. TypeOK'
    BY <1>1 DEF Connect, TypeOK, Paths, Root
  <2>2. LoggedOutAtRoot' /\ NamedAsAccepted'
    BY <1>1 DEF Connect, TypeOK, LoggedOutAtRoot, NamedAsAccepted
  <2>5. ASSUME NEW d \in Clients, moved'[d]
        PROVE  d # c /\ moved[d] /\ UNCHANGED <<pwd[d], relative_pwd[d]>>
    BY <1>1, <2>5 DEF Connect, TypeOK
  <2>6. GetFollowsCd'
    BY <2>5 DEF GetFollowsCd, ReadsUnder
  <2>3. PathsBounded'
    BY <1>1, ConstantsAssumption
    DEF Connect, TypeOK, PathsBounded, PathLength, Root
  <2>4. PwdExists' /\ (Root \in dirs)'
    BY <1>1 DEF Connect, TypeOK, PwdExists
  <2> QED
    BY <2>1, <2>2, <2>3, <2>4, <2>6
<1>2. ASSUME NEW c \in Clients, Leave(c) PROVE IInv'
  BY <1>2 DEF Leave, loginVars, pathVars, TypeOK, LoggedOutAtRoot,
              NamedAsAccepted, PathsBounded, PwdExists, GetFollowsCd, ReadsUnder
<1>3. ASSUME NEW c \in Clients, NEW n \in Names, Login(c, n) PROVE IInv'
  <2>1. /\ auth' = [auth EXCEPT ![c] = n \in LongNames]
        /\ displaced' = [displaced EXCEPT ![c] = displaced[c] \/ auth[c]]
        /\ ready_for_check' = [ready_for_check EXCEPT ![c] = TRUE]
        /\ tmp_username' = [tmp_username EXCEPT ![c] = n]
        /\ UNCHANGED <<connected, username, pwd, relative_pwd, moved, dirs, evicted>>
    BY <1>3 DEF Login, pathVars
  <2>2. (n \in LongNames) \in BOOLEAN /\ (displaced[c] \/ auth[c]) \in BOOLEAN
    OBVIOUS
  <2>3. auth' \in [Clients -> BOOLEAN] /\ displaced' \in [Clients -> BOOLEAN]
    BY <2>1, <2>2, Zenon DEF TypeOK
  <2>4. TypeOK'
    BY <2>1, <2>3 DEF TypeOK
  <2>5. LoggedOutAtRoot'
    BY <2>1 DEF TypeOK, LoggedOutAtRoot
  <2>6. NamedAsAccepted'
    BY <2>1 DEF TypeOK, NamedAsAccepted
  <2>7. PathsBounded' /\ PwdExists' /\ GetFollowsCd' /\ (Root \in dirs)'
    BY <2>1 DEF PathsBounded, PwdExists, GetFollowsCd, ReadsUnder
  <2> QED
    BY <2>4, <2>5, <2>6, <2>7
<1>4. ASSUME NEW c \in Clients, NEW p \in Passwords, Pass(c, p) PROVE IInv'
  <2>1. TypeOK'
    <3>1. /\ auth' \in [Clients -> BOOLEAN]
          /\ username' \in [Clients -> Names \cup {Unknown}]
      BY <1>4 DEF Pass, NamedByLogin, TypeOK
    <3>2. ready_for_check' \in [Clients -> BOOLEAN]
      BY <1>4 DEF Pass, TypeOK
    <3> QED
      BY <1>4, <3>1, <3>2 DEF Pass, pathVars, TypeOK
  <2>2. LoggedOutAtRoot'
    BY <1>4 DEF Pass, pathVars, TypeOK, LoggedOutAtRoot
  <2>3. NamedAsAccepted'
    BY <1>4 DEF Pass, NamedByLogin, TypeOK, NamedAsAccepted
  <2>4. PathsBounded' /\ PwdExists' /\ GetFollowsCd' /\ (Root \in dirs)'
    BY <1>4 DEF Pass, pathVars, PathsBounded, PwdExists, GetFollowsCd,
                ReadsUnder
  <2> QED
    BY <2>1, <2>2, <2>3, <2>4
<1>5. ASSUME NEW c \in Clients, Logout(c) PROVE IInv'
  <2>1. TypeOK'
    <3>1. Root \in Paths
      BY DEF Root, Paths
    <3> QED
      BY <1>5, <3>1 DEF Logout, StartsAt, TypeOK
  <2>2. LoggedOutAtRoot' /\ NamedAsAccepted' /\ GetFollowsCd'
    BY <1>5 DEF Logout, StartsAt, TypeOK, LoggedOutAtRoot, NamedAsAccepted,
                GetFollowsCd, ReadsUnder
  <2>3. PathsBounded'
    BY <1>5, ConstantsAssumption
    DEF Logout, StartsAt, TypeOK, PathsBounded, PathLength, Root
  <2>4. PwdExists' /\ (Root \in dirs)'
    BY <1>5 DEF Logout, StartsAt, TypeOK, PwdExists
  <2> QED
    BY <2>1, <2>2, <2>3, <2>4
<1>6. ASSUME NEW c \in Clients, NEW f \in Folders, Mkdir(c, f) PROVE IInv'
  <2>1. pwd[c] \in Paths
    BY DEF TypeOK
  <2>2. /\ Append(pwd[c], f) \in Paths
        /\ Len(Append(pwd[c], f)) = Len(pwd[c]) + 1
    BY <2>1, AppendedPath
  <2>3. TypeOK'
    BY <1>6, <2>2 DEF Mkdir, loginVars, pathVars, TypeOK
  <2>4. PathLength(Append(pwd[c], f)) <= MaxPath
    BY <1>6, <2>1, <2>2, ConstantsAssumption
    DEF Mkdir, ArgumentFits, PathLength, Paths
  <2>5. PathsBounded'
    BY <1>6, <2>4 DEF Mkdir, pathVars, PathsBounded
  <2>6. LoggedOutAtRoot' /\ NamedAsAccepted' /\ GetFollowsCd'
    BY <1>6 DEF Mkdir, loginVars, pathVars, LoggedOutAtRoot, NamedAsAccepted,
                GetFollowsCd, ReadsUnder
  <2>7. PwdExists' /\ (Root \in dirs)'
    BY <1>6 DEF Mkdir, pathVars, PwdExists
  <2> QED
    BY <2>3, <2>5, <2>6, <2>7
<1>7. ASSUME NEW c \in Clients, NEW f \in Folders, Rm(c, f) PROVE IInv'
  <2>1. Root \notin Doomed(c, f) /\ (~IsCut(c) => pwd[c] \notin Doomed(c, f))
    BY DoomedAreLonger, RmInPath
  <2>2. TypeOK'
    BY <1>7 DEF Rm, loginVars, pathVars, TypeOK
  <2>3. LoggedOutAtRoot' /\ NamedAsAccepted' /\ GetFollowsCd'
    BY <1>7 DEF Rm, loginVars, pathVars, LoggedOutAtRoot, NamedAsAccepted,
                GetFollowsCd, ReadsUnder
  <2>4. PathsBounded' /\ (Root \in dirs)'
    BY <1>7, <2>1 DEF Rm, pathVars, PathsBounded
  <2>5. PwdExists'
    BY <1>7, <2>1 DEF Rm, pathVars, PwdExists
  <2> QED
    BY <2>2, <2>3, <2>4, <2>5
<1>8. ASSUME NEW c \in Clients, NEW a \in Arguments, Cd(c, a) PROVE IInv'
  <2> DEFINE p == Target(c, a)
  <2>1. /\ MayRun(c) /\ p \in dirs
        /\ pwd' = [pwd EXCEPT ![c] = p]
        /\ relative_pwd' = [relative_pwd EXCEPT ![c] = p]
        /\ moved' = [moved EXCEPT ![c] = TRUE]
        /\ evicted' = [evicted EXCEPT ![c] = FALSE]
        /\ UNCHANGED <<connected, loginVars, dirs>>
    BY <1>8 DEF Cd, IsUnderRoot, NewRelative
  <2> HIDE DEF p
  <2>2. p \in Paths /\ PathLength(p) <= MaxPath
    BY <2>1 DEF TypeOK, PathsBounded
  <2>3. TypeOK'
    BY <2>1, <2>2 DEF loginVars, TypeOK
  <2>4. LoggedOutAtRoot' /\ NamedAsAccepted'
    BY <2>1 DEF MayRun, loginVars, TypeOK, LoggedOutAtRoot, NamedAsAccepted
  <2>5. GetFollowsCd'
    <3>1. relative_pwd'[c] = p /\ pwd'[c] = p
      BY <2>1 DEF TypeOK
    <3>2. PathLength(p) < MaxPath => ReadsUnder(c)' = p
      BY <2>2, <3>1, ConstantsAssumption DEF ReadsUnder, PathLength, Paths
    <3>3. ASSUME NEW d \in Clients, d # c, moved'[d]
          PROVE  moved[d] /\ UNCHANGED <<pwd[d], relative_pwd[d]>>
      BY <2>1, <3>3 DEF TypeOK
    <3> QED
      BY <3>1, <3>2, <3>3 DEF GetFollowsCd, ReadsUnder
  <2>6. PathsBounded'
    BY <2>1, <2>2 DEF TypeOK, PathsBounded
  <2>7. PwdExists' /\ (Root \in dirs)'
    BY <2>1 DEF TypeOK, PwdExists
  <2> QED
    BY <2>3, <2>4, <2>5, <2>6, <2>7
<1>9. CASE UNCHANGED vars
  BY <1>9 DEF vars, loginVars, pathVars, TypeOK, LoggedOutAtRoot,
              NamedAsAccepted, PathsBounded, PwdExists, GetFollowsCd, ReadsUnder
<1> QED
  BY <1>1, <1>2, <1>3, <1>4, <1>5, <1>6, <1>7, <1>8, <1>9
  DEF Next, Session, Files

(* The invariant holds in every reachable state.                           *)
THEOREM Inductive == Spec => []IInv
  BY InitIInv, NextIInv, PTL DEF Spec

(* Every field keeps its type, and no working directory leaves the root.   *)
THEOREM TypeCorrect == Spec => []TypeOK
  BY Inductive, PTL DEF IInv

(* Whoever is not logged in is at the root, unless a login typed by a      *)
(* logged-in user has ended that login.                                    *)
THEOREM NewUsersStartAtRoot == Spec => []LoggedOutAtRoot
  BY Inductive, PTL DEF IInv

(* A logged-in session bears a name that was accepted with a password,     *)
(* unless a name that is too long has logged it in.                        *)
THEOREM SessionsAreNamed == Spec => []NamedAsAccepted
  BY Inductive, PTL DEF IInv

(* No path in use is longer than MaxPath, so that the end of relative_pwd  *)
(* is never more than one cell behind its array.                           *)
THEOREM PathsStayShort == Spec => []PathsBounded
  BY Inductive, PTL DEF IInv

(* A session is in an existing directory unless an rm of another session,  *)
(* or one with a cut path, has removed it.                                 *)
THEOREM SessionsKeepTheirDirectory == Spec => []PwdExists
  BY Inductive, PTL DEF IInv

(* After a cd, get and put use the same directory, unless its path has     *)
(* exactly MaxPath characters.                                             *)
THEOREM GetReadsWherePutWrites == Spec => []GetFollowsCd
  BY Inductive, PTL DEF IInv
=============================================================================
