------------------------------- MODULE Passwd -------------------------------
(***************************************************************************)
(* The password file of the 'plain' method (src/ocpasswd/ocpasswd.c): runs *)
(* of ocpasswd that rewrite it through "<file>.tmp" and rename(2), while   *)
(* logins read it (read_auth_pass of src/auth/plain.c).                    *)
(*                                                                         *)
(* The file system is names bound to inodes and inodes with lines: a name  *)
(* may be bound anew while a process holds the old inode open, and two     *)
(* processes that opened one name write over each other.  The file is read *)
(* and written a line at a time.  A run may be killed at any step.         *)
(* A failing write and a lost disk block are left out.                     *)
(***************************************************************************)
EXTENDS Integers, Sequences

CONSTANTS PwRuns,      \* the runs of ocpasswd
          PwUsers,     \* user names
          PwLines      \* the contents the password file may start with

VARIABLES pwDir,       \* the inode the names "file" and "tmp" are bound to
          pwInodes,    \* the lines of each inode
          pwRun,       \* the runs
          pwLogin,     \* a login reading the file
          pwShould,    \* what each user's entry is, by the changes made
          pwRaced      \* two runs have been between stat() and fopen()

pwvars == <<pwDir, pwInodes, pwRun, pwLogin, pwShould, pwRaced>>

PwCommands == {"passwd", "delete", "lock", "unlock"}
NoInode == 0
Absent == [pass |-> "none", locked |-> FALSE]

\* A line is "full" (user:group:password), "short" (no second colon) or
\* "bare" (no colon).
PwLine(k, u, p, l) == [kind |-> k, user |-> u, pass |-> p, locked |-> l]
Hole == PwLine("bare", "", "none", FALSE)

\* read_auth_pass(): the first line of the user that has a password.
LookUp(lines, u) ==
  LET at == {i \in DOMAIN lines : lines[i].kind = "full" /\ lines[i].user = u}
      i == CHOOSE j \in at : \A k \in at : j <= k
  IN IF at = {} THEN Absent ELSE [pass |-> lines[i].pass, locked |-> lines[i].locked]

PwContent(name) == IF pwDir[name] = NoInode THEN <<>> ELSE pwInodes[pwDir[name]]

\* A line written at the offset of the descriptor.
WrittenAt(lines, at, new) ==
  [i \in 1..(IF at + Len(new) > Len(lines) THEN at + Len(new) ELSE Len(lines)) |->
     IF i > at /\ i <= at + Len(new) THEN new[i - at]
     ELSE IF i <= Len(lines) THEN lines[i] ELSE Hole]

\* What crypt_int(), delete_user(), lock_user() and unlock_user() write for
\* a line they read; <<>> is a line they drop.
CryptLine(line, u, r) ==
  IF line.kind = "bare" THEN <<>>
  ELSE IF line.user = u THEN <<PwLine("full", u, r, FALSE)>> ELSE <<line>>

DeleteLine(line, u) == IF line.kind = "bare" \/ line.user = u THEN <<>> ELSE <<line>>

LockLine(line, u) ==
  IF line.kind = "bare" \/ (line.user = u /\ line.kind = "short") THEN <<>>
  ELSE IF line.user = u THEN <<[line EXCEPT !.locked = TRUE]>> ELSE <<line>>

UnlockLine(line, u) ==
  IF line.kind = "bare" \/ (line.user = u /\ line.kind = "short") THEN <<>>
  ELSE IF line.user = u THEN <<[line EXCEPT !.locked = FALSE]>> ELSE <<line>>

Rewrite(r, line) ==
  LET u == pwRun[r].user
  IN CASE pwRun[r].cmd = "passwd" -> CryptLine(line, u, r)
       [] pwRun[r].cmd = "delete" -> DeleteLine(line, u)
       [] pwRun[r].cmd = "lock"   -> LockLine(line, u)
       [] pwRun[r].cmd = "unlock" -> UnlockLine(line, u)

NewRun == [phase |-> "new", cmd |-> "none", user |-> "none", in |-> NoInode,
           at |-> 0, out |-> NoInode, wrote |-> 0, found |-> FALSE]
NoLogin == [phase |-> "idle", user |-> "none", in |-> NoInode, got |-> Absent,
            want |-> Absent]
PwFails(r) == pwRun' = [pwRun EXCEPT ![r] = [NewRun EXCEPT !.phase = "failed"]]
Ends(r, how) == pwRun' = [pwRun EXCEPT ![r] = [NewRun EXCEPT !.phase = how]]

PwInit ==
  /\ \E lines \in PwLines \cup {<<>>} :
       /\ pwDir = [file |-> IF lines = <<>> THEN NoInode ELSE 1, tmp |-> NoInode]
       /\ pwInodes = <<lines>>
       /\ pwShould = [u \in PwUsers |-> LookUp(lines, u)]
  /\ pwRun = [r \in PwRuns |-> NewRun]
  /\ pwLogin = NoLogin
  /\ pwRaced = FALSE

(***************************************************************************)
(* A run of ocpasswd.                                                      *)
(***************************************************************************)
InWindow(r) == pwRun[r].phase \in {"checked", "reading"}

\* Mutant: the file of another run is not looked for.
CheckUnlocked(r, c, u) ==
  /\ pwRun[r].phase = "new"
  /\ pwRun' = [pwRun EXCEPT ![r] = [NewRun EXCEPT !.phase = "checked", !.cmd = c,
                                                  !.user = u]]
  /\ pwRaced' = (pwRaced \/ \E o \in PwRuns \ {r} : InWindow(o))
  /\ UNCHANGED <<pwDir, pwInodes, pwLogin, pwShould>>

\* main() reads the options; the operation gives up when "<file>.tmp" exists.
PwCheck(r, c, u) ==
  /\ pwRun[r].phase = "new"
  /\ IF pwDir.tmp # NoInode
     THEN PwFails(r) /\ UNCHANGED pwRaced
     ELSE /\ pwRun' = [pwRun EXCEPT ![r] = [NewRun EXCEPT !.phase = "checked",
                                                          !.cmd = c, !.user = u]]
          /\ pwRaced' = (pwRaced \/ \E o \in PwRuns \ {r} : InWindow(o))
  /\ UNCHANGED <<pwDir, pwInodes, pwLogin, pwShould>>

\* The order of the two fopen() calls: crypt_int() opens the new file first,
\* the other three the old one.
ReadsFirst(c) == c # "passwd"

\* fopen(fpasswd, "r"): crypt_int() goes on without a file, the others exit.
OpenFile(r) ==
  /\ \/ pwRun[r].phase = "checked" /\ ReadsFirst(pwRun[r].cmd)
     \/ pwRun[r].phase = "writing" /\ ~ReadsFirst(pwRun[r].cmd)
  /\ IF pwDir.file = NoInode /\ pwRun[r].cmd # "passwd"
     THEN PwFails(r)
     ELSE pwRun' = [pwRun EXCEPT
            ![r].phase = IF ReadsFirst(pwRun[r].cmd) THEN "reading" ELSE "copying",
            ![r].in = pwDir.file]
  /\ UNCHANGED <<pwDir, pwInodes, pwLogin, pwShould, pwRaced>>

MayOpenTmp(r) ==
  \/ pwRun[r].phase = "reading"
  \/ pwRun[r].phase = "checked" /\ ~ReadsFirst(pwRun[r].cmd)

AfterTmp(r) == IF ReadsFirst(pwRun[r].cmd) THEN "copying" ELSE "writing"

\* fopen(tmp_passwd, "w"): created, or emptied when it exists by now.
OpenTmp(r) ==
  /\ MayOpenTmp(r)
  /\ LET new == IF pwDir.tmp # NoInode THEN pwDir.tmp ELSE Len(pwInodes) + 1
     IN /\ pwDir' = [pwDir EXCEPT !.tmp = new]
        /\ pwInodes' = IF new \in DOMAIN pwInodes THEN [pwInodes EXCEPT ![new] = <<>>]
                       ELSE Append(pwInodes, <<>>)
        /\ pwRun' = [pwRun EXCEPT ![r].phase = AfterTmp(r), ![r].out = new]
  /\ UNCHANGED <<pwLogin, pwShould, pwRaced>>

InputOf(r) == IF pwRun[r].in = NoInode THEN <<>> ELSE pwInodes[pwRun[r].in]

Writes(r, new) ==
  pwInodes' = [pwInodes EXCEPT
                 ![pwRun[r].out] = WrittenAt(@, pwRun[r].wrote, new)]

\* One round of the getline() loop.
CopyLine(r) ==
  /\ pwRun[r].phase = "copying" /\ pwRun[r].at < Len(InputOf(r))
  /\ LET line == InputOf(r)[pwRun[r].at + 1]
         new == Rewrite(r, line)
     IN /\ Writes(r, new)
        /\ pwRun' = [pwRun EXCEPT ![r].at = @ + 1, ![r].wrote = @ + Len(new),
                       ![r].found = @ \/ (line.kind # "bare"
                                          /\ line.user = pwRun[r].user)]
  /\ UNCHANGED <<pwDir, pwLogin, pwShould, pwRaced>>

\* The end of the loop: crypt_int() adds the line of a user it did not meet.
CloseFiles(r) ==
  /\ pwRun[r].phase = "copying" /\ pwRun[r].at >= Len(InputOf(r))
  /\ Writes(r, IF pwRun[r].cmd = "passwd" /\ ~pwRun[r].found
               THEN <<PwLine("full", pwRun[r].user, r, FALSE)>> ELSE <<>>)
  /\ pwRun' = [pwRun EXCEPT ![r].phase = "closed"]
  /\ UNCHANGED <<pwDir, pwLogin, pwShould, pwRaced>>

\* What a finished command promises for its user.
Changed(c, e, r) ==
  CASE c = "passwd" -> [pass |-> r, locked |-> FALSE]
    [] c = "delete" -> Absent
    [] c = "lock"   -> IF e = Absent THEN e ELSE [e EXCEPT !.locked = TRUE]
    [] c = "unlock" -> IF e = Absent THEN e ELSE [e EXCEPT !.locked = FALSE]

\* rename(tmp_passwd, fpasswd) and the end of the run.
Rename(r) ==
  /\ pwRun[r].phase = "closed"
  /\ IF pwDir.tmp = NoInode
     THEN PwFails(r) /\ UNCHANGED <<pwDir, pwShould>>
     ELSE /\ pwDir' = [file |-> pwDir.tmp, tmp |-> NoInode]
          /\ pwShould' = [pwShould EXCEPT
                            ![pwRun[r].user] = Changed(pwRun[r].cmd, @, r)]
          /\ Ends(r, "done")
  /\ UNCHANGED <<pwInodes, pwLogin, pwRaced>>

PwKilled(r) ==
  /\ pwRun[r].phase \notin {"new", "done", "failed", "killed"}
  /\ Ends(r, "killed")
  /\ UNCHANGED <<pwDir, pwInodes, pwLogin, pwShould, pwRaced>>

(***************************************************************************)
(* A login.                                                                *)
(***************************************************************************)
LoginOpens(u) ==
  /\ pwLogin.phase # "open" /\ pwDir.file # NoInode
  /\ pwLogin' = [NoLogin EXCEPT !.phase = "open", !.user = u, !.in = pwDir.file,
                                !.want = pwShould[u]]
  /\ UNCHANGED <<pwDir, pwInodes, pwRun, pwShould, pwRaced>>

LoginReads ==
  /\ pwLogin.phase = "open"
  /\ pwLogin' = [pwLogin EXCEPT !.phase = "read", !.in = NoInode,
                   !.got = LookUp(pwInodes[pwLogin.in], pwLogin.user)]
  /\ UNCHANGED <<pwDir, pwInodes, pwRun, pwShould, pwRaced>>

PwNext ==
  \/ \E r \in PwRuns, c \in PwCommands, u \in PwUsers : PwCheck(r, c, u)
  \/ \E r \in PwRuns : \/ OpenFile(r) \/ OpenTmp(r) \/ CopyLine(r)
                       \/ CloseFiles(r) \/ Rename(r) \/ PwKilled(r)
  \/ \E u \in PwUsers : LoginOpens(u)
  \/ LoginReads

(***************************************************************************)
(* Properties.                                                             *)
(***************************************************************************)

\* The password file holds, for every user, what the commands that ended
\* well made of the entry, in the order of their renames: copying the lines
\* (ocpasswd.c 119-140, 193-206, 257-282, 333-356) loses no other user's
\* entry, undoes no earlier change, and a run that was killed changed
\* nothing - as long as no two runs are between stat() and fopen() at once.
SerialFile ==
  ~pwRaced => \A u \in PwUsers : LookUp(PwContent("file"), u) = pwShould[u]

\* A login that opened the file reads the entry as it was then, however many
\* commands replace or are killed while rewriting the file in between
\* (rename(), ocpasswd.c 149, against read_auth_pass(), plain.c 157-205).
LoginSeesVersion ==
  ~pwRaced /\ pwLogin.phase = "read" => pwLogin.got = pwLogin.want

\* "<file>.tmp" makes every further run give up, and only a run at work or
\* one that was killed has left it there: no error path does, because the
\* commands that need the old file open it first (ocpasswd.c 181-191).
TmpHasRun ==
  pwDir.tmp # NoInode =>
    \E r \in PwRuns : pwRun[r].phase \in {"writing", "copying", "closed", "killed"}

\* The password file is at all times the result of whole runs, one after the other, whichever
\* of them are killed, and that is what a login reads (ocpasswd.c:106, 149; auth/plain.c).
FileChangesWhole == SerialFile /\ LoginSeesVersion /\ TmpHasRun
=============================================================================
