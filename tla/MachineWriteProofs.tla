------------------------- MODULE MachineWriteProofs -------------------------
(***************************************************************************)
(* The machine-rung guard of MachineWrite, for any number of processes of   *)
(* any accounts.                                                            *)
(***************************************************************************)
EXTENDS MachineWrite, TLAPS

USE AccountsAssumption

-----------------------------------------------------------------------------
(* Types.                                                                  *)

\* The first state is well typed.
LEMMA InitType == Init => TypeOK
<1> SUFFICES ASSUME Init PROVE TypeOK
  OBVIOUS
<1>1. /\ open \in BOOLEAN /\ lock \in BOOLEAN
      /\ dir \in Owners /\ file \in Owners
      /\ dir = None => file = None /\ ~lock
  BY DEF Init
<1>2. planted \in BOOLEAN /\ reported \in BOOLEAN
  BY DEF Init
<1>3. pc \in [Processes -> Steps] /\ fresh \in [Processes -> BOOLEAN]
  BY DEF Init, Steps
<1>4. alone \in [Processes -> BOOLEAN] /\ found \in [Processes -> Owners \X Owners]
  BY DEF Init, Owners
<1> QED BY <1>1, <1>2, <1>3, <1>4 DEF TypeOK

\* A step of a process keeps every variable in its type, and puts nothing in a
\* directory that is not there.
LEMMA StepType ==
  ASSUME TypeOK, NEW p \in Processes, Step(p)
  PROVE  TypeOK'
<1>1. PICK to \in Steps : pc' = [pc EXCEPT ![p] = to]
  BY DEF Step, Begin, Make, MakeFails, TrustDir, DistrustDir, WriteMakes, WriteLocks,
         WriteReplaces, WriteFails, TrustFile, DistrustFile, Remove, Undo, Goes, Return, Steps
<1>2. pc' \in [Processes -> Steps]
  BY <1>1 DEF TypeOK
<1>3. /\ fresh' \in [Processes -> BOOLEAN]
      /\ alone' \in [Processes -> BOOLEAN]
      /\ found' \in [Processes -> Owners \X Owners]
  <2>1. CASE Begin(p)
    <3>1. fresh' \in [Processes -> BOOLEAN]
      BY <2>1 DEF Begin, TypeOK
    <3>2. alone' \in [Processes -> BOOLEAN]
      BY <2>1 DEF Begin
    <3>3. found' \in [Processes -> Owners \X Owners]
      BY <2>1 DEF Begin, TypeOK
    <3> QED BY <3>1, <3>2, <3>3
  <2>2. CASE MakeFails(p) \/ TrustFile(p) \/ Undo(p)
    <3>1. /\ fresh' = [fresh EXCEPT ![p] = FALSE]
          /\ alone' = [alone EXCEPT ![p] = FALSE]
          /\ found' = [found EXCEPT ![p] = <<None, None>>]
      BY <2>2 DEF MakeFails, TrustFile, Undo, Return
    <3>2. fresh' \in [Processes -> BOOLEAN]
      BY <3>1 DEF TypeOK
    <3>3. alone' \in [Processes -> BOOLEAN]
      BY <3>1 DEF TypeOK
    <3>4. found' \in [Processes -> Owners \X Owners]
      BY <3>1 DEF TypeOK, Owners
    <3> QED BY <3>2, <3>3, <3>4
  <2>3. CASE UNCHANGED <<fresh, alone, found>>
    BY <2>3 DEF TypeOK
  <2> QED BY <2>1, <2>2, <2>3 DEF Step, Make, TrustDir, DistrustDir, WriteMakes, WriteLocks,
         WriteReplaces, WriteFails, DistrustFile, Remove, history
<1>4. open' = open /\ planted' = planted
  BY DEF Step, Begin, Make, MakeFails, TrustDir, DistrustDir, WriteMakes, WriteLocks,
         WriteReplaces, WriteFails, TrustFile, DistrustFile, Remove, Undo, Return, history
<1>5. reported' \in BOOLEAN
  BY DEF TypeOK, Step, Begin, Make, MakeFails, TrustDir, DistrustDir, WriteMakes, WriteLocks,
         WriteReplaces, WriteFails, TrustFile, DistrustFile, Remove, Undo, Return, history
<1>6. /\ dir' \in Owners /\ file' \in Owners /\ lock' \in BOOLEAN
      /\ dir' = None => file' = None /\ ~lock'
  <2> USE DEF TypeOK, Owners, disk
  <2>1. CASE Make(p) \/ WriteMakes(p)
    BY <2>1 DEF Make, WriteMakes, MkdirAll
  <2>2. CASE WriteLocks(p)
    <3>1. dir # None /\ lock' \in BOOLEAN
      BY <2>2 DEF WriteLocks, MayCreate
    <3> QED BY <2>2, <3>1 DEF WriteLocks
  <2>6. CASE WriteReplaces(p)
    <3>1. dir # None
      BY <2>6 DEF WriteReplaces, MayReplace, MayCreate, MayRemove
    <3>2. file' \in Accounts
      BY <2>6 DEF WriteReplaces
    <3> QED BY <2>6, <3>1, <3>2 DEF WriteReplaces
  <2>3. CASE Remove(p)
    BY <2>3 DEF Remove
  <2>4. CASE Undo(p)
    BY <2>4 DEF Undo, MayUnmake
  <2>5. CASE UNCHANGED disk
    BY <2>5
  <2> QED BY <2>1, <2>2, <2>3, <2>4, <2>5, <2>6 DEF Step, Begin, MakeFails, TrustDir, DistrustDir,
         WriteFails, TrustFile, DistrustFile
<1> QED BY <1>2, <1>3, <1>4, <1>5, <1>6 DEF TypeOK

-----------------------------------------------------------------------------
(* A reported write is read for good.  Nobody takes an administrator's file *)
(* out of an administrator's directory: another account may not, and an      *)
(* administrator's own call removes a file only after it has found one that  *)
(* it had written itself untrusted.  That happens in a directory of somebody *)
(* else's, which from then on holds the lock file and so stays his.          *)

AdminRemoves(p) == Account[p] = Admin => lock /\ ~TrustedDir

Undoing ==
  /\ \A p \in Processes : pc[p] \in {"replace", "trust_file", "remove"} => lock
  /\ \A p \in Processes : pc[p] = "trust_file" /\ Account[p] = Admin /\ TrustedDir
                            => file = Admin
  /\ \A p \in Processes : pc[p] = "remove" => AdminRemoves(p)

Inv == TypeOK /\ ReportedIsRead /\ Undoing

\* The invariant holds before anybody has called.
LEMMA InitInv == Init => Inv
BY InitType DEF Init, Inv, ReportedIsRead, Undoing, Steps

\* A lock file stays, and with it the directory and its owner.
LEMMA LockStays ==
  ASSUME TypeOK, NEW p \in Processes, Step(p), lock
  PROVE  lock' /\ dir' = dir
BY DEF TypeOK, Step, Begin, Make, MakeFails, TrustDir, DistrustDir, WriteMakes, WriteLocks,
       WriteReplaces, WriteFails, TrustFile, DistrustFile, Remove, Undo, MkdirAll, MayUnmake,
       disk

\* No step takes away a trusted file.
LEMMA TrustedStays ==
  ASSUME Inv, NEW p \in Processes, Step(p), TrustedFile
  PROVE  TrustedFile'
<1> USE DEF TrustedFile, TrustedDir, Inv, TypeOK
<1>1. CASE WriteReplaces(p)
  BY <1>1 DEF WriteReplaces, MayReplace, MayRemove
<1>2. CASE Remove(p)
  BY <1>2 DEF Remove, Goes, MayRemove, Undoing, AdminRemoves
<1>3. CASE Undo(p)
  BY <1>3 DEF Undo, MayUnmake
<1>4. CASE Make(p) \/ WriteMakes(p)
  BY <1>4 DEF Make, WriteMakes, MkdirAll, disk
<1>5. CASE UNCHANGED <<dir, file>>
  BY <1>5
<1> QED BY <1>1, <1>2, <1>3, <1>4, <1>5 DEF Step, Begin, MakeFails, TrustDir, DistrustDir,
       WriteLocks, WriteFails, TrustFile, DistrustFile, disk

\* Every step keeps the invariant.
LEMMA StepInv ==
  ASSUME Inv, NEW p \in Processes, Step(p)
  PROVE  Inv'
<1>1. TypeOK'
  BY StepType DEF Inv
<1>2. ReportedIsRead'
  <2>1. CASE TrustFile(p)
    BY <2>1 DEF TrustFile, ReportedIsRead, TrustedFile, disk
  <2>2. CASE reported' = reported
    BY <2>2, TrustedStays DEF ReportedIsRead, Inv
  <2> QED BY <2>1, <2>2 DEF Step, Begin, Make, MakeFails, TrustDir, DistrustDir, WriteMakes,
        WriteLocks, WriteReplaces, WriteFails, DistrustFile, Remove, Undo, history
<1>3. ASSUME NEW q \in Processes, pc'[q] \in {"replace", "trust_file", "remove"}
      PROVE  lock'
  <2>1. CASE pc[q] \in {"replace", "trust_file", "remove"}
    BY <2>1, LockStays DEF Inv, Undoing
  <2>2. CASE pc[q] \notin {"replace", "trust_file", "remove"}
    BY <2>2, <1>3 DEF Inv, TypeOK, Step, Begin, Make, MakeFails, TrustDir, DistrustDir, WriteMakes,
        WriteLocks, WriteReplaces, WriteFails, TrustFile, DistrustFile, Remove, Undo, Goes, Return
  <2> QED BY <2>1, <2>2
<1>4. ASSUME NEW q \in Processes, pc'[q] = "trust_file", Account[q] = Admin, TrustedDir'
      PROVE  file' = Admin
  <2>1. CASE WriteReplaces(p) /\ q = p
    BY <2>1, <1>4 DEF WriteReplaces
  <2>2. CASE pc[q] = "trust_file"
    <3>1. lock /\ dir' = dir
      BY <2>2, LockStays DEF Inv, Undoing
    <3>2. TrustedFile
      BY <2>2, <3>1, <1>4 DEF Inv, Undoing, TrustedDir, TrustedFile
    <3> QED BY <3>2, TrustedStays DEF TrustedFile
  <2> QED BY <2>1, <2>2, <1>4 DEF Inv, TypeOK, Step, Begin, Make, MakeFails, TrustDir, DistrustDir,
        WriteMakes, WriteLocks, WriteReplaces, WriteFails, TrustFile, DistrustFile, Remove, Undo,
        Goes, Return
<1>5. ASSUME NEW q \in Processes, pc'[q] = "remove"
      PROVE  AdminRemoves(q)'
  <2>1. CASE pc[q] = "remove"
    BY <2>1, LockStays DEF Inv, Undoing, AdminRemoves, TrustedDir
  <2>2. CASE DistrustFile(p) /\ q = p
    BY <2>2 DEF DistrustFile, Goes, Inv, Undoing, AdminRemoves, TrustedDir, TrustedFile, disk
  <2> QED BY <2>1, <2>2, <1>5 DEF Inv, TypeOK, Step, Begin, Make, MakeFails, TrustDir, DistrustDir,
        WriteMakes, WriteLocks, WriteReplaces, WriteFails, TrustFile, DistrustFile, Remove, Undo,
        Goes, Return
<1> QED BY <1>1, <1>2, <1>3, <1>4, <1>5 DEF Inv, Undoing

\* The inductive invariant of the guard.
THEOREM Invariance == Spec => []Inv
<1>1. Init => Inv
  BY InitInv
<1>2. Inv /\ [Next]_vars => Inv'
  <2>1. Inv /\ UNCHANGED vars => Inv'
    BY DEF vars, disk, history, Inv, TypeOK, ReportedIsRead, Undoing, AdminRemoves, TrustedDir,
           TrustedFile
  <2> QED BY <2>1, StepInv DEF Next
<1> QED BY <1>1, <1>2, PTL DEF Spec

\* Every variable keeps its type, and nothing is in a missing directory.
THEOREM TypeCorrect == Spec => []TypeOK
<1>1. Inv => TypeOK
  BY DEF Inv
<1> QED BY <1>1, Invariance, PTL

\* A write that reported success is read for good, whoever else writes.
THEOREM ReportedStaysRead == Spec => []ReportedIsRead
<1>1. Inv => ReportedIsRead
  BY DEF Inv
<1> QED BY <1>1, Invariance, PTL

-----------------------------------------------------------------------------
(* A call that nobody has overlapped knows what is on the disk, from what it *)
(* has found.  So it can tell what it undoes.                                *)

FoundDir(p)  == found[p][1]
FoundFile(p) == found[p][2]

\* The directory is the one found, or was made by this call.
Made(p) == dir = IF FoundDir(p) = None THEN Account[p] ELSE FoundDir(p)

Knows(p) ==
  /\ \A q \in Processes \ {p} : pc[q] = "idle"
  /\ fresh[p] = (FoundDir(p) = None)
  /\ FoundDir(p) = None => FoundFile(p) = None
  /\ pc[p] = "make" => dir = FoundDir(p) /\ file = FoundFile(p)
  /\ pc[p] = "trust_dir" =>
       Made(p) /\ file = FoundFile(p) /\ (FoundDir(p) = None => ~lock)
  /\ pc[p] \in {"write", "lock", "replace"} =>
       Made(p) /\ dir = Admin /\ file = FoundFile(p)
  /\ pc[p] \in {"trust_file", "remove"} =>
       /\ Made(p) /\ dir = Admin /\ file = Account[p]
       /\ Account[p] = Admin \/ FoundFile(p) \in {None, Account[p]}
  /\ pc[p] = "remove" => Account[p] # Admin
  /\ pc[p] = "refuse" =>
       /\ Made(p) /\ file \in {FoundFile(p), None}
       /\ FoundDir(p) = Admin /\ FoundFile(p) = Admin => file = Admin
       /\ FoundDir(p) = None => ~lock /\ file = None

AloneKnows == \A p \in Processes : alone[p] => Knows(p)

\* What a call that goes on alone knows after its step.
LEMMA OwnStep ==
  ASSUME TypeOK, NEW p \in Processes, alone[p], Knows(p), Step(p), alone'[p]
  PROVE  Knows(p)'
<1> USE DEF TypeOK, Goes, FoundDir, FoundFile
<1>1. CASE Begin(p)
  BY <1>1 DEF Begin, Knows, disk
<1>2. CASE MakeFails(p) \/ TrustFile(p) \/ Undo(p)
  BY <1>2 DEF MakeFails, TrustFile, Undo, Return
<1>3. CASE Make(p)
  BY <1>3 DEF Make, MkdirAll, Knows, Made, history, disk
<1>4. CASE WriteMakes(p)
  BY <1>4 DEF WriteMakes, MkdirAll, Knows, Made, history, disk
<1>5. CASE TrustDir(p) \/ DistrustDir(p)
  BY <1>5 DEF TrustDir, DistrustDir, TrustedDir, Knows, Made, history, disk
<1>6. CASE WriteLocks(p)
  BY <1>6 DEF WriteLocks, Knows, Made, history
<1>7. CASE WriteReplaces(p)
  BY <1>7 DEF WriteReplaces, MayReplace, MayRemove, Knows, Made, history
<1>8. CASE WriteFails(p)
  BY <1>8 DEF WriteFails, Knows, history, disk
<1>9. CASE DistrustFile(p)
  BY <1>9 DEF DistrustFile, TrustedFile, Knows, Made, history, disk
<1>10. CASE Remove(p)
  BY <1>10 DEF Remove, MayRemove, Knows, Made, history
<1> QED BY <1>1, <1>2, <1>3, <1>4, <1>5, <1>6, <1>7, <1>8, <1>9, <1>10 DEF Step

\* A call that begins while no other is at work knows what it has found.
LEMMA BeginKnows ==
  ASSUME TypeOK, NEW p \in Processes, Begin(p), alone'[p]
  PROVE  Knows(p)'
BY DEF TypeOK, Begin, Goes, Knows, FoundDir, FoundFile, disk

\* Every step keeps what the lone call knows.
LEMMA StepKnows ==
  ASSUME TypeOK, AloneKnows, NEW p \in Processes, Step(p)
  PROVE  AloneKnows'
<1> SUFFICES ASSUME NEW q \in Processes, alone'[q] PROVE Knows(q)'
  BY DEF AloneKnows
<1>1. CASE Begin(p)
  <2>1. q = p
    BY <1>1 DEF Begin
  <2> QED BY <1>1, <2>1, BeginKnows
<1>2. CASE ~Begin(p)
  <2>1. alone[q]
    BY <1>2 DEF TypeOK, Step, Make, MakeFails, TrustDir, DistrustDir, WriteMakes, WriteLocks,
        WriteReplaces, WriteFails, TrustFile, DistrustFile, Remove, Undo, Return, history
  <2>2. pc[p] # "idle"
    BY <1>2 DEF Step, Make, MakeFails, TrustDir, DistrustDir, WriteMakes, WriteLocks,
        WriteReplaces, WriteFails, TrustFile, DistrustFile, Remove, Undo, Return, Goes
  <2>3. q = p
    BY <2>1, <2>2 DEF AloneKnows, Knows
  <2> QED BY <2>1, <2>3, OwnStep DEF AloneKnows
<1> QED BY <1>1, <1>2

\* Until it ends, a lone refusal leaves what it has found.
LEMMA UndoRestores ==
  ASSUME TypeOK, NEW p \in Processes, Knows(p), pc[p] = "refuse", Undo(p)
  PROVE  /\ dir' = FoundDir(p)
         /\ file' \in {FoundFile(p), None}
         /\ found[p] = <<Admin, Admin>> => file' = Admin
<1>1. file' = file
  BY DEF Undo
<1>2. CASE FoundDir(p) = None
  <2>1. file = None /\ ~lock /\ FoundFile(p) = None
    BY <1>2 DEF Knows
  <2>2. dir = Account[p] /\ dir # None
    BY <1>2 DEF Knows, Made
  <2>3. fresh[p]
    BY <1>2 DEF Knows
  <2>4. dir' = None
    BY <2>1, <2>2, <2>3 DEF Undo, MayUnmake
  <2>5. found[p] # <<Admin, Admin>>
    BY <1>2 DEF FoundDir
  <2> QED BY <1>1, <1>2, <2>1, <2>4, <2>5
<1>3. CASE FoundDir(p) # None
  <2>1. ~fresh[p] /\ dir = FoundDir(p)
    BY <1>3 DEF Knows, Made
  <2>2. dir' = FoundDir(p)
    BY <2>1 DEF Undo
  <2>3. found[p] = <<Admin, Admin>> => FoundDir(p) = Admin /\ FoundFile(p) = Admin
    BY DEF FoundDir, FoundFile
  <2>4. file \in {FoundFile(p), None} /\ (found[p] = <<Admin, Admin>> => file = Admin)
    BY <2>3 DEF Knows
  <2> QED BY <1>1, <2>2, <2>4
<1> QED BY <1>2, <1>3

\* A refusal that met no other call leaves the directory and the file as found.
THEOREM RefusalRestores == Spec => RefusedAlone
<1>1. Init => AloneKnows
  BY DEF Init, AloneKnows
<1>2. TypeOK /\ AloneKnows /\ [Next]_vars => AloneKnows'
  <2>1. AloneKnows /\ UNCHANGED vars => AloneKnows'
    BY DEF vars, disk, history, AloneKnows, Knows, Made, FoundDir, FoundFile
  <2> QED BY <2>1, StepKnows DEF Next
<1>3. TypeOK /\ AloneKnows /\ [Next]_vars =>
        [\A p \in Processes :
           pc[p] = "refuse" /\ pc'[p] = "idle" /\ alone[p] =>
             /\ dir' = found[p][1]
             /\ file' \in {found[p][2], None}
             /\ found[p] = <<Admin, Admin>> => file' = Admin]_vars
  <2> SUFFICES ASSUME TypeOK, AloneKnows, NEW r \in Processes, Step(r), NEW p \in Processes,
                      pc[p] = "refuse", pc'[p] = "idle", alone[p]
               PROVE  /\ dir' = found[p][1]
                      /\ file' \in {found[p][2], None}
                      /\ found[p] = <<Admin, Admin>> => file' = Admin
    BY DEF Next
  <2>1. Undo(p)
    BY DEF TypeOK, Step, Begin, Make, MakeFails, TrustDir, DistrustDir, WriteMakes, WriteLocks,
        WriteReplaces, WriteFails, TrustFile, DistrustFile, Remove, Undo, Return, Goes
  <2> QED BY <2>1, UndoRestores DEF AloneKnows, FoundDir, FoundFile
<1> QED BY <1>1, <1>2, <1>3, TypeCorrect, PTL DEF Spec, RefusedAlone
=============================================================================
