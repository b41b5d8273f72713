---------------------------- MODULE MachineWrite ----------------------------
(***************************************************************************)
(* asAdministrator (go/config.go) around Save and Edit of the machine file: *)
(* the directory is made, asked who owns it, written in, asked again, and   *)
(* unmade if the answer is wrong, while other processes do the same.        *)
(*                                                                         *)
(* The contents of the file do not matter here, only who owns it and the    *)
(* directory it is in: that decides whether any reader reads it             *)
(* (trust_unix.go, trust_windows.go).  The announcement that follows a      *)
(* success is in module Invalidation.                                       *)
(***************************************************************************)
EXTENDS Naturals

CONSTANTS
  Processes,  \* calls of Save and Edit, each again and again
  Accounts,   \* who may own a file
  Account,    \* the account each process runs under
  Admin,      \* root; Administrators and SYSTEM
  None        \* no such file or directory

ASSUME AccountsAssumption ==
  /\ Admin \in Accounts /\ None \notin Accounts
  /\ Account \in [Processes -> Accounts]

VARIABLES
  open,      \* anybody may create in the parent directory, as in %ProgramData%
  dir,       \* the owner of the directory, or None
  file,      \* the owner of the machine file, or None
  lock,      \* the lock file that cas.Change leaves beside it
  pc,        \* where each process stands
  fresh,     \* the process found no directory
  \* history variables, which no step reads
  planted,   \* somebody's directory or file was there to begin with
  reported,  \* a call has returned without an error
  alone,     \* no other call has overlapped this one
  found      \* what this call found

disk    == <<dir, file, lock>>
history == <<planted, reported, alone, found>>
vars    == <<open, disk, pc, fresh, history>>

Owners == Accounts \cup {None}
Steps  == {"idle", "make", "trust_dir", "write", "lock", "replace", "trust_file",
           "remove", "refuse", "undo"}

\* Nothing is in a directory that is not there.
TypeOK ==
  /\ open \in BOOLEAN
  /\ dir \in Owners /\ file \in Owners /\ lock \in BOOLEAN
  /\ dir = None => file = None /\ ~lock
  /\ pc \in [Processes -> Steps]
  /\ fresh \in [Processes -> BOOLEAN]
  /\ planted \in BOOLEAN /\ reported \in BOOLEAN
  /\ alone \in [Processes -> BOOLEAN]
  /\ found \in [Processes -> Owners \X Owners]

Init ==
  /\ open \in BOOLEAN
  /\ dir \in Owners /\ file \in Owners /\ lock \in BOOLEAN
  /\ dir = None => file = None /\ ~lock
  /\ pc = [p \in Processes |-> "idle"]
  /\ fresh = [p \in Processes |-> FALSE]
  /\ planted = ({dir, file} \ {Admin, None} # {})
  /\ reported = FALSE
  /\ alone = [p \in Processes |-> FALSE]
  /\ found = [p \in Processes |-> <<None, None>>]

-----------------------------------------------------------------------------
(* What the operating system lets an account do.                           *)

MayMake(a)   == a = Admin \/ open
MayCreate(a) == dir # None /\ (a \in {Admin, dir} \/ open)
MayRemove(a) == file # None /\ a \in {Admin, dir, file}
MayReplace(a) == IF file = None THEN MayCreate(a) ELSE MayRemove(a)
MayUnmake(a) == dir # None /\ file = None /\ ~lock /\ a \in {Admin, dir}

\* trusted: an administrator owns the thing and the directory it is in.  The parent
\* directory is the system's own.
TrustedDir  == dir = Admin
TrustedFile == file = Admin /\ dir = Admin

-----------------------------------------------------------------------------
Goes(p, from, to) == pc[p] = from /\ pc' = [pc EXCEPT ![p] = to]

\* What a call knew of is gone with it.
Return(p, from) ==
  /\ Goes(p, from, "idle")
  /\ fresh' = [fresh EXCEPT ![p] = FALSE]
  /\ alone' = [alone EXCEPT ![p] = FALSE]
  /\ found' = [found EXCEPT ![p] = <<None, None>>]
  /\ UNCHANGED <<open, planted>>

\* A call of Save or Edit looks for the directory.
Begin(p) ==
  /\ Goes(p, "idle", "make")
  /\ fresh' = [fresh EXCEPT ![p] = (dir = None)]
  /\ alone' = [q \in Processes |-> q = p /\ \A r \in Processes : pc[r] = "idle"]
  /\ found' = [found EXCEPT ![p] = <<dir, file>>]
  /\ UNCHANGED <<open, disk, planted, reported>>

\* MkdirAll: what is there stays, whoever owns it.
MkdirAll(a) ==
  \/ dir # None /\ UNCHANGED disk
  \/ dir = None /\ MayMake(a) /\ dir' = a /\ UNCHANGED <<file, lock>>

Make(p) ==
  /\ Goes(p, "make", "trust_dir")
  /\ MkdirAll(Account[p])
  /\ UNCHANGED <<open, fresh, history>>

\* The directory cannot be made: the call ends with the error.
MakeFails(p) ==
  /\ Return(p, "make")
  /\ dir = None
  /\ UNCHANGED <<disk, reported>>

TrustDir(p) ==
  /\ TrustedDir
  /\ Goes(p, "trust_dir", "write")
  /\ UNCHANGED <<open, disk, fresh, history>>

DistrustDir(p) ==
  /\ ~TrustedDir
  /\ Goes(p, "trust_dir", "refuse")
  /\ UNCHANGED <<open, disk, fresh, history>>

\* The write makes the directory once more,
WriteMakes(p) ==
  /\ Goes(p, "write", "lock")
  /\ MkdirAll(Account[p])
  /\ UNCHANGED <<open, fresh, history>>

\* takes the lock file beside the record, which stays,
WriteLocks(p) ==
  /\ Goes(p, "lock", "replace")
  /\ lock \/ MayCreate(Account[p])
  /\ lock' = TRUE
  /\ UNCHANGED <<open, dir, file, fresh, history>>

\* and renames a file of its own into place.
WriteReplaces(p) ==
  /\ Goes(p, "replace", "trust_file")
  /\ MayReplace(Account[p])
  /\ file' = Account[p]
  /\ UNCHANGED <<open, dir, lock, fresh, history>>

\* Any of the three may fail: a permission, a full disk, an edit that refuses.
WriteFails(p) ==
  /\ \E at \in {"write", "lock", "replace"} : Goes(p, at, "undo")
  /\ UNCHANGED <<open, disk, fresh, history>>

\* A bug the run rules out: the owner of the file alone is asked for.
TrustFileAlone(p) ==
  /\ file = Admin
  /\ Return(p, "trust_file")
  /\ reported' = TRUE
  /\ UNCHANGED disk

TrustFile(p) ==
  /\ TrustedFile
  /\ Return(p, "trust_file")
  /\ reported' = TRUE
  /\ UNCHANGED disk

DistrustFile(p) ==
  /\ ~TrustedFile
  /\ Goes(p, "trust_file", "remove")
  /\ UNCHANGED <<open, disk, fresh, history>>

\* A bug the run rules out: the file that nobody would read stays.
RemoveNothing(p) ==
  /\ Goes(p, "remove", "refuse")
  /\ UNCHANGED <<open, disk, fresh, history>>

\* os.Remove of the file, whose error is dropped.
Remove(p) ==
  /\ Goes(p, "remove", "refuse")
  /\ file' = IF MayRemove(Account[p]) THEN None ELSE file
  /\ UNCHANGED <<open, dir, lock, fresh, history>>

\* os.Remove of a directory the call found missing: it goes only when empty, and
\* the error is dropped.  The call ends with a refusal or the write's error.
Undo(p) ==
  /\ \E at \in {"refuse", "undo"} : Return(p, at)
  /\ dir' = IF fresh[p] /\ MayUnmake(Account[p]) THEN None ELSE dir
  /\ UNCHANGED <<file, lock, reported>>

Step(p) ==
  \/ Begin(p) \/ Make(p) \/ MakeFails(p)
  \/ TrustDir(p) \/ DistrustDir(p)
  \/ WriteMakes(p) \/ WriteLocks(p) \/ WriteReplaces(p) \/ WriteFails(p)
  \/ TrustFile(p) \/ DistrustFile(p) \/ Remove(p) \/ Undo(p)

Next == \E p \in Processes : Step(p)

Spec == Init /\ [][Next]_vars

-----------------------------------------------------------------------------
(* Properties.                                                             *)

\* A write that reported success is read, then and ever after: no undo, no
\* replacement and no removal of another call, refused or not, takes it away.
\* ("Writing one anyway succeeds into silence", config.go:303.)
ReportedIsRead == reported => TrustedFile

\* A call that is refused and met no other leaves the directory and the file as
\* it found them; a file of its own account that nobody read it may have lost.
RefusedAlone ==
  [][\A p \in Processes :
       pc[p] = "refuse" /\ pc'[p] = "idle" /\ alone[p] =>
         /\ dir' = found[p][1]
         /\ file' \in {found[p][2], None}
         /\ found[p] = <<Admin, Admin>> => file' = Admin]_vars

\* "asAdministrator refuses a write to the machine rung that no reader would
\* trust, and leaves nothing behind when it refuses" (config.go:300): when no call
\* is at work, nothing of an ordinary account is there, unless it was before.
LeavesNothing ==
  (\A p \in Processes : pc[p] = "idle") /\ ~planted => {dir, file} \subseteq {Admin, None}
=============================================================================
