--------------------------- MODULE NotifierProofs ---------------------------
(***************************************************************************)
(* Proofs about the notifiers: of the BSDs and of Windows, for any set of   *)
(* directories, inodes and folders, and of the Python subscription, for any *)
(* versions and any number of changes; then of the composition.             *)
(***************************************************************************)
EXTENDS Notifiers, TLAPS

-----------------------------------------------------------------------------
(* KqueueNotifier.                                                         *)

USE NoneAssumption

\* The two paths of a directory.
LEMMA PathFacts ==
  /\ \A d \in Dirs : DirPath(d) \in Paths /\ FilePath(d) \in Paths
  /\ \A d, e \in Dirs : DirPath(d) # FilePath(e)
  /\ \A d \in Dirs : DirPath(d).kind = "dir" /\ FilePath(d).kind = "file"
  /\ \A d \in Dirs : DirPath(d).dir = d /\ FilePath(d).dir = d
  /\ \A d, e \in Dirs : DirPath(d) = DirPath(e) \/ FilePath(d) = FilePath(e) => d = e
  /\ \A p \in Paths : p.dir \in Dirs /\ p \in {DirPath(p.dir), FilePath(p.dir)}
<1>1. \A d \in Dirs : /\ DirPath(d) \in Paths /\ FilePath(d) \in Paths
                      /\ DirPath(d).kind = "dir" /\ FilePath(d).kind = "file"
                      /\ DirPath(d).dir = d /\ FilePath(d).dir = d
  BY DEF DirPath, FilePath, Paths
<1>2. \A p \in Paths : p.dir \in Dirs /\ p \in {DirPath(p.dir), FilePath(p.dir)}
  BY DEF DirPath, FilePath, Paths
<1> QED
  BY <1>1, <1>2

-----------------------------------------------------------------------------
(* The inductive invariant.                                                *)

\* Where the goroutine can stand at each stage.
Stages ==
  /\ step = "wait" => todo = {} /\ stage \in {"serving", "ended"}
  /\ stage \in {"none", "ended", "failed"} => step \in {"choose", "wait"}
  /\ stage \in {"none", "adding", "first"} => untold = {}
  /\ stopping # "no" => stage \in {"serving", "ended"}

\* No two paths lead to one vnode or hold one open, the one being added
\* included; what add holds is not yet registered.
Apart ==
  /\ \A p, q \in Paths : p # q =>
       /\ at[p] # None => at[p] # at[q] /\ at[p] # opened[q]
       /\ opened[p] # None => opened[p] # opened[q]
  /\ step = "register" =>
       /\ fd # None
       /\ \A q \in Paths \ {turn} : fd # at[q] /\ fd # opened[q]
  /\ step # "register" => fd = None
  /\ Refreshing /\ step \in {"open", "register"} => opened[turn] = None

\* A directory is watched with its file, and refreshed before it.
FilesLast ==
  Refreshing => \A d \in Dirs : DirPath(d) \in paths =>
    /\ FilePath(d) \in paths
    /\ DirPath(d) \in todo \/ (turn = DirPath(d) /\ step \in {"open", "register"})
         => FilePath(d) \in todo

\* A directory's watch is on what its name leads to, or will be renewed.
DirsHeld ==
  Refreshing => \A d \in Dirs :
    DirPath(d) \in paths \ refused /\ d \notin astray =>
      /\ \/ opened[DirPath(d)] \in {None, at[DirPath(d)]} \cup queue
         \/ DirPath(d) \in todo
      /\ turn = DirPath(d) /\ step = "register" => fd = at[DirPath(d)]

\* So is its file's, wherever the directory is watched.
FilesHeld ==
  Refreshing => \A d \in Dirs :
    /\ DirPath(d) \in paths \ refused /\ FilePath(d) \notin refused /\ d \notin astray
    /\ opened[DirPath(d)] # None
    => \/ opened[FilePath(d)] = at[FilePath(d)] /\ ~(turn = FilePath(d) /\ step = "register")
       \/ FilePath(d) \in todo
       \/ turn = FilePath(d) /\ step = "open"
       \/ turn = FilePath(d) /\ step = "register" /\ fd = at[FilePath(d)]
       \/ opened[DirPath(d)] \in queue

KqueueInv ==
  /\ KqueueTypeOK /\ Stages /\ Apart /\ FilesLast /\ DirsHeld /\ FilesHeld
  /\ KqueueLeavesNothingUntold /\ KqueueStoppedOwnsNothing

USE DEF Refreshing

\* Before notifyDirs is called nothing is watched.
LEMMA KqueueStarts == KqueueInit => KqueueInv
BY DEF KqueueInit, KqueueInv, KqueueTypeOK, Stages, Apart, FilesLast, DirsHeld,
       FilesHeld, KqueueLeavesNothingUntold, KqueueStoppedOwnsNothing

-----------------------------------------------------------------------------
(* The disk.                                                               *)

\* What a change of the files does, whichever it is: the names of one
\* directory move to vnodes nobody has, and the registered ones among those
\* that were touched are events.
LEMMA DiskKeeps ==
  ASSUME KqueueInv, NEW d \in Dirs,
         at' \in [Paths -> Inodes \cup {None}],
         \A p \in Paths : at'[p] = at[p] \/ at'[p] \in Free \cup {None},
         \A p, q \in Paths : p # q /\ at'[p] # at[p] /\ at'[p] # None => at'[p] # at'[q],
         \A p \in Paths : at'[p] # at[p] => p \in {DirPath(d), FilePath(d)},
         queue \subseteq queue', queue' \subseteq Inodes,
         at' # at /\ at[DirPath(d)] \in {opened[p] : p \in Paths} \ {None}
           => at[DirPath(d)] \in queue',
         at'[DirPath(d)] # at[DirPath(d)] /\ turn = DirPath(d)
           /\ step \in {"open", "register"} => d \in astray',
         astray' \in {astray, astray \cup {d}},
         Change(d),
         untold' # untold /\ step = "wait" => queue' # {},
         UNCHANGED <<opened, paths, refused, goroutine, channels>>
  PROVE  KqueueInv'
<1> USE DEF KqueueInv, goroutine, channels
<1>1. KqueueTypeOK' /\ Stages' /\ KqueueStoppedOwnsNothing' /\ FilesLast'
  BY DEF KqueueTypeOK, Stages, KqueueStoppedOwnsNothing, FilesLast, Change, Sighted
<1>2. Apart'
  <2>1. \A p \in Paths : at'[p] \in Free =>
          /\ at'[p] # fd
          /\ \A q \in Paths : at'[p] # at[q] /\ at'[p] # opened[q]
    BY DEF Free
  <2>2. ASSUME NEW p \in Paths, NEW q \in Paths, p # q, at'[p] # None
        PROVE  at'[p] # at'[q] /\ at'[p] # opened[q]
    <3>1. at'[p] # opened[q]
      BY <2>1, <2>2 DEF Apart
    <3>2. at'[p] # at'[q]
      BY <2>1, <2>2 DEF Apart
    <3> QED
      BY <3>1, <3>2
  <2>3. step = "register" => \A q \in Paths \ {turn} : fd # at'[q] /\ fd # opened[q]
    BY <2>1 DEF Apart
  <2> QED
    BY <2>2, <2>3 DEF Apart
<1>3. DirsHeld'
  <2> SUFFICES ASSUME Refreshing, NEW e \in Dirs,
                      DirPath(e) \in paths \ refused, e \notin astray'
               PROVE  /\ \/ opened[DirPath(e)] \in {None, at'[DirPath(e)]} \cup queue'
                         \/ DirPath(e) \in todo
                      /\ turn = DirPath(e) /\ step = "register" => fd = at'[DirPath(e)]
    BY DEF DirsHeld
  <2>1. e \notin astray
    OBVIOUS
  <2>2. CASE at'[DirPath(e)] = at[DirPath(e)]
    BY <2>1, <2>2 DEF DirsHeld
  <2>3. CASE at'[DirPath(e)] # at[DirPath(e)]
    <3>1. e = d
      BY <2>3, PathFacts
    <3>2. opened[DirPath(d)] \in {opened[p] : p \in Paths}
      BY PathFacts
    <3> QED
      BY <2>1, <2>3, <3>1, <3>2 DEF DirsHeld
  <2> QED
    BY <2>2, <2>3
<1>4. FilesHeld'
  <2> SUFFICES ASSUME Refreshing, NEW e \in Dirs, DirPath(e) \in paths \ refused,
                      FilePath(e) \notin refused, e \notin astray',
                      opened[DirPath(e)] # None, FilePath(e) \notin todo,
                      opened[DirPath(e)] \notin queue'
               PROVE  \/ /\ opened[FilePath(e)] = at'[FilePath(e)]
                         /\ ~(turn = FilePath(e) /\ step = "register")
                      \/ turn = FilePath(e) /\ step = "open"
                      \/ turn = FilePath(e) /\ step = "register" /\ fd = at'[FilePath(e)]
    BY DEF FilesHeld
  <2>1. e \notin astray /\ opened[DirPath(e)] \notin queue
    OBVIOUS
  <2>2. CASE at'[FilePath(e)] = at[FilePath(e)]
    BY <2>1, <2>2 DEF FilesHeld
  <2>3. CASE at'[FilePath(e)] # at[FilePath(e)]
    <3>1. e = d
      BY <2>3, PathFacts
    <3>2. opened[DirPath(d)] = at[DirPath(d)]
      BY <2>1, <3>1, PathFacts DEF DirsHeld, FilesLast
    <3>3. opened[DirPath(d)] \in {opened[p] : p \in Paths} \ {None}
      BY <3>1, PathFacts
    <3> QED
      BY <2>3, <3>1, <3>2, <3>3
  <2> QED
    BY <2>2, <2>3
<1>5. KqueueLeavesNothingUntold'
  BY DEF KqueueLeavesNothingUntold, KqueueTypeOK
<1> QED
  BY <1>1, <1>2, <1>3, <1>4, <1>5

\* Where the goroutine waits, a directory it answers for and its file are
\* watched as they are, or an event is there already.
LEMMA WatchedWhileWaiting ==
  ASSUME KqueueInv, NEW d \in Dirs, Sighted(d), step = "wait", queue = {}
  PROVE  /\ opened[DirPath(d)] = at[DirPath(d)]
         /\ opened[FilePath(d)] = at[FilePath(d)]
BY PathFacts DEF KqueueInv, Sighted, Stages, DirsHeld, FilesHeld

\* Every change of the files keeps the invariant.
LEMMA AnyDiskKeeps ==
  ASSUME KqueueInv, Disk
  PROVE  KqueueInv'
<1> USE DEF KqueueInv
<1>0. PICK d \in Dirs : SaveFile(d) \/ WriteFile(d) \/ RemoveFile(d) \/ MoveDir(d)
  BY DEF Disk
<1>a. ASSUME untold' # untold, Change(d), step = "wait", queue = {}
      PROVE  /\ Sighted(d)
             /\ opened[DirPath(d)] = at[DirPath(d)]
             /\ opened[FilePath(d)] = at[FilePath(d)]
             /\ opened[DirPath(d)] # None
  <2>1. Sighted(d)
    BY <1>a DEF Change
  <2> QED
    BY <1>a, <2>1, WatchedWhileWaiting DEF Sighted
<1>b. DirPath(d) \in Paths /\ FilePath(d) \in Paths /\ DirPath(d) # FilePath(d)
  BY PathFacts
<1>c. \A n \in Free : n \in Inodes
  BY DEF Free
<1>1. CASE SaveFile(d)
  <2>1. PICK n \in Free : at' = [at EXCEPT ![FilePath(d)] = n]
    BY <1>1 DEF SaveFile
  <2>2. n \in Inodes /\ \A p \in Paths : n # at[p]
    BY <1>c DEF Free
  <2>3. /\ at' \in [Paths -> Inodes \cup {None}]
        /\ \A p \in Paths : at'[p] = at[p] \/ at'[p] \in Free \cup {None}
        /\ \A p \in Paths : at'[p] # at[p] => p \in {DirPath(d), FilePath(d)}
        /\ \A p, q \in Paths : p # q /\ at'[p] # at[p] /\ at'[p] # None => at'[p] # at'[q]
    BY <1>b, <2>1, <2>2 DEF KqueueTypeOK
  <2>4. /\ queue \subseteq queue' /\ queue' \subseteq Inodes
        /\ at[DirPath(d)] \in {opened[p] : p \in Paths} \ {None} => at[DirPath(d)] \in queue'
    BY <1>1 DEF SaveFile, Event, KqueueTypeOK
  <2>5. untold' # untold /\ step = "wait" => queue' # {}
    BY <1>1, <1>a, <1>b, <2>4 DEF SaveFile
  <2> QED
    BY <1>1, <1>b, <2>1, <2>3, <2>4, <2>5, DiskKeeps DEF SaveFile
<1>2. CASE WriteFile(d)
  <2>1. /\ queue \subseteq queue' /\ queue' \subseteq Inodes
        /\ at[FilePath(d)] \in {opened[p] : p \in Paths} \ {None} => at[FilePath(d)] \in queue'
    BY <1>2 DEF WriteFile, Event, KqueueTypeOK
  <2>2. untold' # untold /\ step = "wait" => queue' # {}
    BY <1>2, <1>a, <1>b, <2>1 DEF WriteFile
  <2> QED
    BY <1>2, <2>1, <2>2, DiskKeeps DEF WriteFile, KqueueTypeOK
<1>3. CASE RemoveFile(d)
  <2>1. at' = [at EXCEPT ![FilePath(d)] = None]
    BY <1>3 DEF RemoveFile
  <2>2. /\ at' \in [Paths -> Inodes \cup {None}]
        /\ \A p \in Paths : at'[p] = at[p] \/ at'[p] \in Free \cup {None}
        /\ \A p \in Paths : at'[p] # at[p] => p \in {DirPath(d), FilePath(d)}
        /\ \A p, q \in Paths : p # q /\ at'[p] # at[p] /\ at'[p] # None => at'[p] # at'[q]
    BY <1>b, <2>1 DEF KqueueTypeOK
  <2>3. /\ queue \subseteq queue' /\ queue' \subseteq Inodes
        /\ \A p \in {DirPath(d), FilePath(d)} :
             at[p] \in {opened[q] : q \in Paths} \ {None} => at[p] \in queue'
    BY <1>3 DEF RemoveFile, Event, KqueueTypeOK
  <2>4. untold' # untold /\ step = "wait" => queue' # {}
    BY <1>3, <1>a, <1>b, <2>3 DEF RemoveFile
  <2> QED
    BY <1>3, <1>b, <2>1, <2>2, <2>3, <2>4, DiskKeeps DEF RemoveFile
<1>4. CASE MoveDir(d)
  <2>1. PICK n \in Free \cup {None} : \E m \in IF n = None THEN {None} ELSE (Free \ {n}) \cup {None} :
          at' = [at EXCEPT ![DirPath(d)] = n, ![FilePath(d)] = m]
    BY <1>4 DEF MoveDir
  <2>2. PICK m \in Free \cup {None} :
          at' = [at EXCEPT ![DirPath(d)] = n, ![FilePath(d)] = m] /\ (m = n => m = None)
    BY <2>1
  <2>3. /\ at' \in [Paths -> Inodes \cup {None}]
        /\ at'[DirPath(d)] = n /\ at'[FilePath(d)] = m
        /\ \A p \in Paths \ {DirPath(d), FilePath(d)} : at'[p] = at[p]
    BY <1>b, <1>c, <2>2 DEF KqueueTypeOK
  <2>4. \A k \in Free, p \in Paths : k # at[p]
    BY DEF Free
  <2>5. /\ \A p \in Paths : at'[p] = at[p] \/ at'[p] \in Free \cup {None}
        /\ \A p \in Paths : at'[p] # at[p] => p \in {DirPath(d), FilePath(d)}
        /\ \A p, q \in Paths : p # q /\ at'[p] # at[p] /\ at'[p] # None => at'[p] # at'[q]
    BY <1>b, <2>2, <2>3, <2>4
  <2>6. /\ queue \subseteq queue' /\ queue' \subseteq Inodes
        /\ at[DirPath(d)] \in {opened[q] : q \in Paths} \ {None} => at[DirPath(d)] \in queue'
    BY <1>4 DEF MoveDir, Event, KqueueTypeOK
  <2>7. untold' # untold /\ step = "wait" => queue' # {}
    BY <1>4, <1>a, <1>b, <2>6 DEF MoveDir
  <2> QED
    BY <1>4, <2>3, <2>5, <2>6, <2>7, DiskKeeps DEF MoveDir
<1> QED
  BY <1>0, <1>1, <1>2, <1>3, <1>4

-----------------------------------------------------------------------------
(* notifyDirs and its goroutine.                                           *)

\* The beginning and the end of notifyDirs.
LEMMA StartKeeps ==
  ASSUME KqueueInv, StartAdding \/ Added \/ StartFails \/ StartServing
  PROVE  KqueueInv'
<1> USE DEF KqueueInv
<1>1. CASE StartAdding
  BY <1>1, PathFacts DEF StartAdding, watches, channels, KqueueTypeOK, Stages, Apart, FilesLast,
     DirsHeld, FilesHeld, KqueueLeavesNothingUntold, KqueueStoppedOwnsNothing
<1>2. CASE Added
  BY <1>2, PathFacts DEF Added, channels, KqueueTypeOK, Stages, Apart, FilesLast,
     DirsHeld, FilesHeld, KqueueLeavesNothingUntold, KqueueStoppedOwnsNothing
<1>3. CASE StartFails
  BY <1>3 DEF StartFails, Cleanup, channels, KqueueTypeOK, Stages, Apart, FilesLast,
     DirsHeld, FilesHeld, KqueueLeavesNothingUntold, KqueueStoppedOwnsNothing
<1>4. CASE StartServing
  BY <1>4 DEF StartServing, watches, channels, KqueueTypeOK, Stages, Apart, FilesLast,
     DirsHeld, FilesHeld, KqueueLeavesNothingUntold, KqueueStoppedOwnsNothing
<1> QED
  BY <1>1, <1>2, <1>3, <1>4

\* A path is taken in its turn.
LEMMA TurnKeeps ==
  ASSUME KqueueInv, NEW p \in Paths,
         AddBegins(p) \/ LookFails(p) \/ LookFindsSame(p) \/ LookFindsOther(p)
  PROVE  KqueueInv'
<1> USE DEF KqueueInv
<1>1. /\ step = "choose" /\ p \in todo /\ turn' = p /\ todo' = todo \ {p}
      /\ p.kind = "file" => \A d \in Dirs : DirPath(d) \notin todo
      /\ UNCHANGED <<at, paths, stage, fd, channels, untold, astray>>
  BY PathFacts DEF AddBegins, LookFails, LookFindsSame, LookFindsOther, Takes, KqueueTypeOK
<1>2. /\ opened' \in [Paths -> Inodes \cup {None}] /\ queue' \subseteq Inodes
      /\ refused' \subseteq Paths /\ step' \in {"choose", "open"}
  BY <1>1 DEF AddBegins, LookFails, LookFindsSame, LookFindsOther, KqueueTypeOK
<1>3. KqueueTypeOK' /\ Stages'
  BY <1>1, <1>2 DEF KqueueTypeOK, Stages, channels, AddBegins, LookFails, LookFindsSame, LookFindsOther
<1>4. KqueueLeavesNothingUntold' /\ KqueueStoppedOwnsNothing'
  BY <1>1, <1>2 DEF KqueueLeavesNothingUntold, KqueueStoppedOwnsNothing, channels,
     AddBegins, LookFails, LookFindsSame, LookFindsOther, KqueueTypeOK
<1>5. FilesLast'
  BY <1>1, <1>2, PathFacts DEF FilesLast, channels, AddBegins, LookFails, LookFindsSame, LookFindsOther
<1>6. \A q \in Paths : opened'[q] = opened[q] \/ (q = p /\ opened'[q] = None)
  BY <1>1 DEF AddBegins, LookFails, LookFindsSame, LookFindsOther, KqueueTypeOK
<1>7. Apart'
  BY <1>1, <1>2, <1>6 DEF Apart, AddBegins, LookFails, LookFindsSame, LookFindsOther, KqueueTypeOK
<1>8. \A q \in Paths \ {p} : opened[q] \in queue => opened[q] \in queue'
  BY DEF Apart, KqueueTypeOK, AddBegins, LookFails, LookFindsSame, LookFindsOther
<1>9. refused' \in {refused \cup {p}, refused \ {p}} \/ stage = "adding"
  BY DEF AddBegins, LookFails, LookFindsSame, LookFindsOther
<1>10. DirsHeld'
  <2> SUFFICES ASSUME Refreshing, NEW e \in Dirs,
                      DirPath(e) \in paths \ refused', e \notin astray
               PROVE  \/ opened'[DirPath(e)] \in {None, at[DirPath(e)]} \cup queue'
                      \/ DirPath(e) \in todo'
    BY <1>1, <1>2 DEF DirsHeld
  <2>1. CASE p = DirPath(e)
    BY <2>1, PathFacts DEF AddBegins, LookFails, LookFindsSame, LookFindsOther, KqueueTypeOK
  <2>2. CASE p # DirPath(e)
    <3>1. DirPath(e) \notin refused
      BY <1>9, <2>2
    <3>2. \/ opened[DirPath(e)] \in {None, at[DirPath(e)]} \cup queue
          \/ DirPath(e) \in todo
      BY <3>1 DEF DirsHeld
    <3> QED
      BY <1>1, <1>6, <1>8, <2>2, <3>2, PathFacts
  <2> QED
    BY <2>1, <2>2
<1>11. FilesHeld'
  <2> SUFFICES ASSUME Refreshing, NEW e \in Dirs, DirPath(e) \in paths \ refused',
                      FilePath(e) \notin refused', e \notin astray,
                      opened'[DirPath(e)] # None, FilePath(e) \notin todo'
               PROVE  \/ opened'[FilePath(e)] = at[FilePath(e)]
                      \/ p = FilePath(e) /\ step' = "open"
                      \/ opened'[DirPath(e)] \in queue'
    BY <1>1, <1>2 DEF FilesHeld
  <2>1. CASE p = FilePath(e)
    BY <1>6, <2>1, PathFacts DEF AddBegins, LookFails, LookFindsSame, LookFindsOther, KqueueTypeOK
  <2>2. CASE p # FilePath(e)
    <3>1. FilePath(e) \notin todo /\ FilePath(e) \notin refused
      BY <1>1, <1>9, <2>2
    <3>2. p # DirPath(e)
      BY <1>1, <3>1 DEF FilesLast
    <3>3. DirPath(e) \notin refused /\ opened[DirPath(e)] # None
      BY <1>6, <1>9, <3>2, PathFacts
    <3>4. opened[FilePath(e)] = at[FilePath(e)] \/ opened[DirPath(e)] \in queue
      BY <1>1, <3>1, <3>3 DEF FilesHeld
    <3> QED
      BY <1>6, <1>8, <2>2, <3>2, <3>4, PathFacts
  <2> QED
    BY <2>1, <2>2
<1> QED
  BY <1>3, <1>4, <1>5, <1>7, <1>10, <1>11

\* add: open, fstat and kevent, or one of them fails.
LEMMA AddKeeps ==
  ASSUME KqueueInv, Opens \/ OpenFindsNothing \/ AddFails \/ Registers
  PROVE  KqueueInv'
<1> USE DEF KqueueInv
<1>1. CASE Opens
  BY <1>1, PathFacts DEF Opens, watches, channels, KqueueTypeOK, Stages, Apart, FilesLast,
     DirsHeld, FilesHeld, KqueueLeavesNothingUntold, KqueueStoppedOwnsNothing
<1>2. CASE OpenFindsNothing
  BY <1>2, PathFacts DEF OpenFindsNothing, watches, channels, KqueueTypeOK, Stages, Apart, FilesLast,
     DirsHeld, FilesHeld, KqueueLeavesNothingUntold, KqueueStoppedOwnsNothing
<1>3. CASE AddFails
  BY <1>3, PathFacts DEF AddFails, channels, KqueueTypeOK, Stages, Apart, FilesLast,
     DirsHeld, FilesHeld, KqueueLeavesNothingUntold, KqueueStoppedOwnsNothing
<1>4. CASE Registers
  <2>1. /\ step = "register" /\ step' = "choose" /\ fd' = None /\ fd \in Inodes
        /\ opened' \in [Paths -> Inodes \cup {None}] /\ opened'[turn] = fd
        /\ \A p \in Paths \ {turn} : opened'[p] = opened[p]
        /\ Refreshing => paths' = paths /\ opened[turn] = None
        /\ UNCHANGED <<at, queue, refused, stage, turn, todo, channels, untold, astray>>
    BY <1>4 DEF Registers, KqueueTypeOK, Apart
  <2>2. KqueueTypeOK' /\ Stages' /\ KqueueLeavesNothingUntold' /\ KqueueStoppedOwnsNothing'
    BY <1>4, <2>1 DEF Registers, channels, KqueueTypeOK, Stages, KqueueLeavesNothingUntold,
       KqueueStoppedOwnsNothing
  <2>3. Apart'
    BY <2>1 DEF Apart, KqueueTypeOK
  <2>4. FilesLast'
    BY <2>1 DEF FilesLast
  <2>5. DirsHeld'
    BY <2>1, PathFacts DEF DirsHeld
  <2>6. FilesHeld'
    <3> SUFFICES ASSUME Refreshing, NEW e \in Dirs, DirPath(e) \in paths \ refused,
                        FilePath(e) \notin refused, e \notin astray,
                        opened'[DirPath(e)] # None, FilePath(e) \notin todo
                 PROVE  \/ opened'[FilePath(e)] = at[FilePath(e)]
                        \/ opened'[DirPath(e)] \in queue
      BY <2>1 DEF FilesHeld
    <3>1. turn # DirPath(e)
      BY <2>1 DEF FilesLast
    <3>2. opened'[DirPath(e)] = opened[DirPath(e)]
      BY <2>1, <3>1, PathFacts
    <3>3. CASE turn = FilePath(e)
      BY <2>1, <3>2, <3>3, PathFacts DEF FilesHeld
    <3>4. CASE turn # FilePath(e)
      BY <2>1, <3>2, <3>4, PathFacts DEF FilesHeld
    <3> QED
      BY <3>3, <3>4
  <2> QED
    BY <2>2, <2>3, <2>4, <2>5, <2>6
<1> QED
  BY <1>1, <1>2, <1>3, <1>4

\* The loop and its end, the stop and the receiver.
LEMMA ServingKeeps ==
  ASSUME KqueueInv,
         Hears \/ Announces \/ EndsOnWake \/ KeventFails \/ StopAsks \/ StopReturns \/ TakeEvent
  PROVE  KqueueInv'
<1> USE DEF KqueueInv
<1>1. CASE Hears
  BY <1>1, PathFacts DEF Hears, channels, KqueueTypeOK, Stages, Apart, FilesLast,
     DirsHeld, FilesHeld, KqueueLeavesNothingUntold, KqueueStoppedOwnsNothing
<1>2. CASE Announces
  BY <1>2 DEF Announces, watches, KqueueTypeOK, Stages, Apart, FilesLast,
     DirsHeld, FilesHeld, KqueueLeavesNothingUntold, KqueueStoppedOwnsNothing
<1>3. CASE EndsOnWake \/ KeventFails
  BY <1>3 DEF EndsOnWake, KeventFails, Ends, Cleanup, KqueueTypeOK, Stages, Apart, FilesLast,
     DirsHeld, FilesHeld, KqueueLeavesNothingUntold, KqueueStoppedOwnsNothing
<1>4. CASE StopAsks \/ StopReturns
  BY <1>4 DEF StopAsks, StopReturns, watches, goroutine, KqueueTypeOK, Stages, Apart, FilesLast,
     DirsHeld, FilesHeld, KqueueLeavesNothingUntold, KqueueStoppedOwnsNothing
<1>5. CASE TakeEvent
  BY <1>5 DEF TakeEvent, watches, goroutine, KqueueTypeOK, Stages, Apart, FilesLast,
     DirsHeld, FilesHeld, KqueueLeavesNothingUntold, KqueueStoppedOwnsNothing
<1> QED
  BY <1>1, <1>2, <1>3, <1>4, <1>5

\* No step of the disk, the goroutine or its caller breaks the invariant.
LEMMA KqueueSteps == KqueueInv /\ [KqueueNext]_kqueueVars => KqueueInv'
<1> SUFFICES ASSUME KqueueInv, [KqueueNext]_kqueueVars PROVE KqueueInv'
  OBVIOUS
<1>1. CASE KqueueNext
  BY <1>1, AnyDiskKeeps, StartKeeps, TurnKeeps, AddKeeps, ServingKeeps DEF KqueueNext, Loop, Refresh
<1>2. CASE UNCHANGED kqueueVars
  BY <1>2 DEF kqueueVars, watches, goroutine, channels, KqueueInv, KqueueTypeOK, Stages, Apart,
     FilesLast, DirsHeld, FilesHeld, KqueueLeavesNothingUntold, KqueueStoppedOwnsNothing
<1> QED
  BY <1>1, <1>2

\* The inductive invariant of the BSD notifier.
THEOREM KqueueInvariance == KqueueSpec => []KqueueInv
BY KqueueStarts, KqueueSteps, PTL DEF KqueueSpec

\* Every variable keeps its type, for any directories and inodes.
THEOREM KqueueTypeCorrect == KqueueSpec => []KqueueTypeOK
<1>1. KqueueInv => KqueueTypeOK
  BY DEF KqueueInv
<1> QED
  BY <1>1, KqueueInvariance, PTL

\* No change in a directory the notifier answers for goes unannounced, between
\* whichever two system calls of the goroutine it is made.
THEOREM KqueueTellsAll == KqueueSpec => []KqueueLeavesNothingUntold
<1>1. KqueueInv => KqueueLeavesNothingUntold
  BY DEF KqueueInv
<1> QED
  BY <1>1, KqueueInvariance, PTL

\* Nothing stays open once the goroutine is gone or the start has failed.
THEOREM KqueueOwnsNothing == KqueueSpec => []KqueueStoppedOwnsNothing
<1>1. KqueueInv => KqueueStoppedOwnsNothing
  BY DEF KqueueInv
<1> QED
  BY <1>1, KqueueInvariance, PTL

HIDE NoneAssumption DEF Refreshing

-----------------------------------------------------------------------------
(* WindowsNotifier.                                                        *)

\* Which reads a folder can have where its goroutine stands: one while it waits
\* and none once it has taken a completion, until it has asked for the next.
ReadsOwned ==
  \A f \in Folders :
    /\ report[f] \in {"waiting", "telling"} => request[f] # "none"
    /\ report[f] \in {"none", "woken", "told off", "telling last"} => request[f] = "none"
    /\ report[f] \in {"leaving", "gone"} /\ f \notin severed => request[f] = "none"

\* What a read can have completed with.
CompletionsExplained ==
  \A f \in Folders :
    /\ request[f] = "failed" => f \in gone
    /\ request[f] = "aborted" => f \in shut

\* The stop is the only one that closes a folder under its goroutine, and it
\* begins when every folder has been opened.
StopOrdered ==
  /\ shut # {} => stop # "no"
  /\ uncut # {} => stop # "no"
  /\ stop # "no" => up = "returned"

\* A folder that is still to be opened has no goroutine.
OpeningOrdered ==
  /\ \A f \in next : report[f] = "none"
  /\ up = "no" => \A f \in Folders : report[f] = "none"

\* A handle belongs to a goroutine that runs.
HandlesOwned == \A f \in handle : report[f] \notin {"none", "gone"}

WindowsInv ==
  /\ WindowsTypeOK /\ ReadsOwned /\ CompletionsExplained /\ StopOrdered
  /\ OpeningOrdered /\ HandlesOwned
  /\ WindowsLeavesNothingUntold
  /\ stop = "returned" => handle = {}

\* The parts of the invariant, for a leaf that expands one of them.
LEMMA WindowsInvParts ==
  WindowsInv => /\ WindowsTypeOK /\ ReadsOwned /\ CompletionsExplained /\ StopOrdered
                /\ OpeningOrdered /\ HandlesOwned /\ WindowsLeavesNothingUntold
                /\ stop = "returned" => handle = {}
BY DEF WindowsInv

\* The notifier starts with nothing opened.
LEMMA WindowsStarts == WindowsInit => WindowsInv
BY DEF WindowsInit, WindowsInv, WindowsTypeOK, ReadsOwned, CompletionsExplained, StopOrdered,
       OpeningOrdered, HandlesOwned, WindowsLeavesNothingUntold

\* What the system does to the folders: a change completes a pending read, or
\* is buffered for one that will be asked for.
LEMMA SystemKeeps ==
  ASSUME WindowsInv, NEW f \in Folders, FolderChanges(f) \/ FolderGoes(f)
  PROVE  WindowsInv'
<1>0. /\ WindowsTypeOK /\ ReadsOwned /\ CompletionsExplained /\ StopOrdered
      /\ OpeningOrdered /\ HandlesOwned /\ WindowsLeavesNothingUntold
      /\ stop = "returned" => handle = {}
  BY WindowsInvParts
<1>1. CASE FolderChanges(f)
  <2>1. /\ UNCHANGED <<handle, gone, shut, report, next, up, signal, stop, uncut, severed>>
        /\ request' = [request EXCEPT ![f] = IF @ = "pending" THEN "changed" ELSE @]
        /\ f \notin gone
    BY <1>1 DEF FolderChanges
  <2>2. /\ request'[f] = (IF request[f] = "pending" THEN "changed" ELSE request[f])
        /\ \A g \in Folders \ {f} : request'[g] = request[g]
    BY <1>0, <2>1 DEF WindowsTypeOK
  <2>3. unheard' \subseteq Folders /\ buffered' \subseteq Folders
    BY <1>0, <1>1 DEF FolderChanges, WindowsTypeOK
  <2>4. WindowsTypeOK'
    <3>1. request' \in [Folders -> {"none", "pending", "changed", "failed", "aborted"}]
      BY <1>0, <2>1 DEF WindowsTypeOK
    <3> QED
      BY <1>0, <2>1, <2>3, <3>1 DEF WindowsTypeOK
  <2>5. ReadsOwned'
    <3>1. \A g \in Folders : request'[g] = "none" <=> request[g] = "none"
      BY <2>2
    <3> QED
      BY <1>0, <2>1, <3>1 DEF ReadsOwned
  <2>6. CompletionsExplained'
    BY <1>0, <2>1, <2>2 DEF CompletionsExplained
  <2>7. StopOrdered' /\ OpeningOrdered' /\ HandlesOwned' /\ (stop = "returned" => handle = {})'
    BY <1>0, <2>1 DEF StopOrdered, OpeningOrdered, HandlesOwned
  <2>8. WindowsLeavesNothingUntold'
    <3> SUFFICES ASSUME NEW g \in unheard' \ severed', signal = FALSE, stop = "no"
                 PROVE  \/ request'[g] = "changed" /\ report'[g] # "gone"
                        \/ report'[g] \in {"woken", "telling", "telling last"}
      BY <1>0, <2>1, <2>3 DEF WindowsLeavesNothingUntold, WindowsTypeOK
    <3>1. g \in Folders /\ g \notin severed
      BY <2>1, <2>3
    <3>2. CASE g \in unheard
      <4>1. \/ request[g] = "changed" /\ report[g] # "gone"
            \/ report[g] \in {"woken", "telling", "telling last"}
        BY <1>0, <3>1, <3>2 DEF WindowsLeavesNothingUntold
      <4> QED
        BY <2>1, <2>2, <3>1, <4>1
    <3>3. CASE g \notin unheard
      <4>1. g = f /\ report[f] \in {"waiting", "woken", "telling"}
        BY <1>1, <3>3 DEF FolderChanges
      <4>2. CASE report[f] = "waiting"
        <5>1. request[f] \in {"pending", "changed", "failed", "aborted"}
          BY <1>0, <4>2 DEF ReadsOwned, WindowsTypeOK
        <5>2. request[f] # "failed" /\ request[f] # "aborted"
          BY <1>0, <2>1 DEF CompletionsExplained, StopOrdered
        <5> QED
          BY <2>1, <2>2, <4>1, <4>2, <5>1, <5>2
      <4> QED
        BY <2>1, <4>1, <4>2
    <3> QED
      BY <3>2, <3>3
  <2> QED
    BY <2>4, <2>5, <2>6, <2>7, <2>8 DEF WindowsInv
<1>2. CASE FolderGoes(f)
  <2>1. /\ UNCHANGED <<handle, buffered, shut, report, next, up, signal, stop, uncut,
                       unheard, severed>>
        /\ request' = [request EXCEPT ![f] = IF @ = "pending" THEN "failed" ELSE @]
        /\ gone' = gone \cup {f}
    BY <1>2 DEF FolderGoes
  <2>2. /\ request'[f] = (IF request[f] = "pending" THEN "failed" ELSE request[f])
        /\ \A g \in Folders \ {f} : request'[g] = request[g]
    BY <1>0, <2>1 DEF WindowsTypeOK
  <2>3. WindowsTypeOK'
    <3>1. request' \in [Folders -> {"none", "pending", "changed", "failed", "aborted"}]
      BY <1>0, <2>1 DEF WindowsTypeOK
    <3> QED
      BY <1>0, <2>1, <3>1 DEF WindowsTypeOK
  <2>4. ReadsOwned' /\ CompletionsExplained'
    <3>1. \A g \in Folders : request'[g] = "none" <=> request[g] = "none"
      BY <2>2
    <3>2. ReadsOwned'
      BY <1>0, <2>1, <3>1 DEF ReadsOwned
    <3>3. CompletionsExplained'
      BY <1>0, <2>1, <2>2 DEF CompletionsExplained
    <3> QED
      BY <3>2, <3>3
  <2>5. StopOrdered' /\ OpeningOrdered' /\ HandlesOwned' /\ (stop = "returned" => handle = {})'
    BY <1>0, <2>1 DEF StopOrdered, OpeningOrdered, HandlesOwned
  <2>6. WindowsLeavesNothingUntold'
    <3>1. unheard \subseteq Folders
      BY <1>0 DEF WindowsTypeOK
    <3> QED
      BY <1>0, <2>1, <2>2, <3>1 DEF WindowsLeavesNothingUntold
  <2> QED
    BY <2>3, <2>4, <2>5, <2>6 DEF WindowsInv
<1> QED
  BY <1>1, <1>2

\* notifyDirs: the stop has not begun.
LEMMA OpeningKeeps ==
  ASSUME WindowsInv,
         StartOpening \/ Opened \/ \E f \in Folders : OpenFolder(f) \/ SkipFolder(f)
  PROVE  WindowsInv'
<1>0. /\ WindowsTypeOK /\ ReadsOwned /\ CompletionsExplained /\ StopOrdered
      /\ OpeningOrdered /\ HandlesOwned /\ WindowsLeavesNothingUntold
      /\ stop = "returned" => handle = {}
  BY WindowsInvParts
<1>1. CASE StartOpening
  <2>1. /\ up = "no" /\ up' = "opening" /\ next' = Folders \ gone
        /\ UNCHANGED <<handle, request, buffered, gone, shut, report, signal, stop, uncut,
                       unheard, severed>>
    BY <1>1 DEF StartOpening
  <2>2. WindowsTypeOK'
    BY <1>0, <2>1 DEF WindowsTypeOK
  <2>3. StopOrdered' /\ OpeningOrdered'
    BY <1>0, <2>1 DEF StopOrdered, OpeningOrdered
  <2>4. ReadsOwned' /\ CompletionsExplained' /\ HandlesOwned' /\ WindowsLeavesNothingUntold'
    BY <1>0, <2>1 DEF ReadsOwned, CompletionsExplained, HandlesOwned, WindowsLeavesNothingUntold
  <2> QED
    BY <1>0, <2>1, <2>2, <2>3, <2>4 DEF WindowsInv
<1>2. CASE Opened
  <2>1. /\ up = "opening" /\ up' \in {"failed", "returned"}
        /\ UNCHANGED <<handle, request, buffered, gone, shut, report, next, signal, stop,
                       uncut, unheard, severed>>
    BY <1>2 DEF Opened
  <2>2. WindowsTypeOK'
    BY <1>0, <2>1 DEF WindowsTypeOK
  <2>3. StopOrdered' /\ OpeningOrdered'
    BY <1>0, <2>1 DEF StopOrdered, OpeningOrdered
  <2>4. ReadsOwned' /\ CompletionsExplained' /\ HandlesOwned' /\ WindowsLeavesNothingUntold'
    BY <1>0, <2>1 DEF ReadsOwned, CompletionsExplained, HandlesOwned, WindowsLeavesNothingUntold
  <2> QED
    BY <1>0, <2>1, <2>2, <2>3, <2>4 DEF WindowsInv
<1>3. ASSUME NEW f \in Folders, OpenFolder(f) PROVE WindowsInv'
  <2>1. /\ f \in next /\ report[f] = "none" /\ stop = "no" /\ up = "opening"
        /\ request' = [request EXCEPT ![f] = IF f \in buffered THEN "changed" ELSE "pending"]
        /\ report' = [report EXCEPT ![f] = "waiting"]
        /\ handle' = handle \cup {f} /\ next' = next \ {f} /\ buffered' = buffered \ {f}
        /\ UNCHANGED <<gone, shut, up, signal, stop, uncut, unheard, severed>>
    BY <1>0, <1>3 DEF OpenFolder, Arms, OpeningOrdered, StopOrdered
  <2>2. /\ request'[f] \in {"changed", "pending"} /\ report'[f] = "waiting"
        /\ \A g \in Folders \ {f} : request'[g] = request[g] /\ report'[g] = report[g]
    BY <1>0, <2>1 DEF WindowsTypeOK
  <2>3. WindowsTypeOK'
    <3>1. request' \in [Folders -> {"none", "pending", "changed", "failed", "aborted"}]
      BY <1>0, <2>1 DEF WindowsTypeOK
    <3>2. report' \in [Folders -> {"none", "waiting", "woken", "told off", "telling",
                                   "telling last", "leaving", "gone"}]
      BY <1>0, <2>1 DEF WindowsTypeOK
    <3> QED
      BY <1>0, <2>1, <3>1, <3>2 DEF WindowsTypeOK
  <2>4. ReadsOwned' /\ CompletionsExplained'
    BY <1>0, <2>1, <2>2 DEF ReadsOwned, CompletionsExplained
  <2>5. StopOrdered' /\ (stop = "returned" => handle = {})'
    BY <1>0, <2>1 DEF StopOrdered
  <2>6. OpeningOrdered' /\ HandlesOwned'
    <3>1. next \subseteq Folders /\ handle \subseteq Folders
      BY <1>0 DEF WindowsTypeOK
    <3> QED
      BY <1>0, <2>1, <2>2, <3>1 DEF OpeningOrdered, HandlesOwned
  <2>7. WindowsLeavesNothingUntold'
    <3>1. unheard \subseteq Folders
      BY <1>0 DEF WindowsTypeOK
    <3>2. f \in unheard \ severed => signal
      BY <1>0, <2>1 DEF WindowsLeavesNothingUntold, ReadsOwned
    <3> QED
      BY <1>0, <2>1, <2>2, <3>1, <3>2 DEF WindowsLeavesNothingUntold
  <2> QED
    BY <2>3, <2>4, <2>5, <2>6, <2>7 DEF WindowsInv
<1>4. ASSUME NEW f \in Folders, SkipFolder(f) PROVE WindowsInv'
  <2>1. /\ next' = next \ {f}
        /\ UNCHANGED <<handle, request, buffered, gone, shut, report, up, signal, stop,
                       uncut, unheard, severed>>
    BY <1>4 DEF SkipFolder
  <2>2. WindowsTypeOK'
    BY <1>0, <2>1 DEF WindowsTypeOK
  <2>3. StopOrdered' /\ OpeningOrdered'
    BY <1>0, <2>1 DEF StopOrdered, OpeningOrdered
  <2>4. ReadsOwned' /\ CompletionsExplained' /\ HandlesOwned' /\ WindowsLeavesNothingUntold'
    BY <1>0, <2>1 DEF ReadsOwned, CompletionsExplained, HandlesOwned, WindowsLeavesNothingUntold
  <2> QED
    BY <1>0, <2>1, <2>2, <2>3, <2>4 DEF WindowsInv
<1> QED
  BY <1>1, <1>2, <1>3, <1>4

\* What a step of a folder's goroutine leaves alone, and where it leads: the
\* goroutine to p and its read to q.
FolderReports(f, p, q) ==
  /\ report[f] \notin {"none", "gone"}
  /\ p \in {"waiting", "woken", "told off", "telling", "telling last", "leaving"}
  /\ q \in {"none", "pending", "changed", "failed", "aborted"}
  /\ report' = [report EXCEPT ![f] = p] /\ request' = [request EXCEPT ![f] = q]
  /\ UNCHANGED <<handle, gone, shut, next, up, stop, uncut, unheard>>
  /\ buffered' \subseteq Folders
  /\ signal' = signal \/ signal' = TRUE

\* Nothing fails in the folder's port, or it does.
PortsHeld(f) == severed' = severed \/ severed' = severed \cup {f}

\* What the invariant asks of the folder after the step.
FolderAsked(f, p, q) ==
  /\ p \in {"waiting", "telling"} => q # "none"
  /\ p \in {"woken", "told off", "telling last"} => q = "none"
  /\ p = "leaving" /\ f \notin severed' => q = "none"
  /\ q = "failed" => f \in gone
  /\ q = "aborted" => f \in shut
  /\ f \in unheard \ severed' /\ signal' = FALSE /\ stop = "no" =>
       q = "changed" \/ p \in {"woken", "telling", "telling last"}

\* One folder's goroutine takes a step that does not end it, with its read: what
\* the invariant asks of that folder is all there is to show.
LEMMA OneReports ==
  ASSUME WindowsInv, NEW f \in Folders, NEW p, NEW q,
         FolderReports(f, p, q), PortsHeld(f), FolderAsked(f, p, q)
  PROVE  WindowsInv'
<1>1. /\ WindowsTypeOK /\ ReadsOwned /\ CompletionsExplained /\ StopOrdered
      /\ OpeningOrdered /\ HandlesOwned /\ WindowsLeavesNothingUntold
      /\ stop = "returned" => handle = {}
  BY WindowsInvParts
<1>2. /\ report'[f] = p /\ request'[f] = q
      /\ \A g \in Folders \ {f} : report'[g] = report[g] /\ request'[g] = request[g]
  BY <1>1 DEF FolderReports, WindowsTypeOK
<1>3. \A g \in Folders \ {f} : g \in severed' <=> g \in severed
  BY DEF PortsHeld
<1>4. WindowsTypeOK'
  <2>1. severed' \subseteq Folders
    BY <1>1 DEF PortsHeld, WindowsTypeOK
  <2> QED
    BY <1>1, <2>1 DEF FolderReports, WindowsTypeOK
<1>5. ReadsOwned'
  <2>1. ASSUME NEW g \in Folders \ {f}
        PROVE  /\ report'[g] \in {"waiting", "telling"} => request'[g] # "none"
               /\ report'[g] \in {"none", "woken", "told off", "telling last"} => request'[g] = "none"
               /\ report'[g] \in {"leaving", "gone"} /\ g \notin severed' => request'[g] = "none"
    BY <1>1, <1>2, <1>3 DEF ReadsOwned
  <2>2. /\ p \in {"waiting", "telling"} => q # "none"
        /\ p \in {"none", "woken", "told off", "telling last"} => q = "none"
        /\ p \in {"leaving", "gone"} /\ f \notin severed' => q = "none"
    BY DEF FolderReports, FolderAsked
  <2> QED
    BY <1>2, <2>1, <2>2 DEF ReadsOwned
<1>6. CompletionsExplained'
  BY <1>1, <1>2 DEF CompletionsExplained, FolderReports, FolderAsked
<1>7. StopOrdered' /\ (stop = "returned" => handle = {})'
  BY <1>1 DEF StopOrdered, FolderReports
<1>8. OpeningOrdered'
  <2>1. f \notin next /\ up # "no"
    BY <1>1 DEF OpeningOrdered, FolderReports
  <2>2. next' = next /\ up' = up /\ next \subseteq Folders
    BY <1>1 DEF FolderReports, WindowsTypeOK
  <2> QED
    BY <1>1, <1>2, <2>1, <2>2 DEF OpeningOrdered
<1>9. HandlesOwned'
  <2>1. handle' = handle /\ handle \subseteq Folders /\ p \notin {"none", "gone"}
    BY <1>1 DEF FolderReports, WindowsTypeOK
  <2> QED
    BY <1>1, <1>2, <2>1 DEF HandlesOwned
<1>10. WindowsLeavesNothingUntold'
  <2>1. /\ unheard' = unheard /\ stop' = stop /\ unheard \subseteq Folders
        /\ signal \in BOOLEAN /\ signal' \in BOOLEAN /\ (signal' = FALSE => signal = FALSE)
    BY <1>1 DEF FolderReports, WindowsTypeOK
  <2>2. SUFFICES ASSUME NEW g \in unheard \ severed', signal' = FALSE, stop = "no"
                 PROVE  \/ request'[g] = "changed" /\ report'[g] # "gone"
                        \/ report'[g] \in {"woken", "telling", "telling last"}
    BY <2>1 DEF WindowsLeavesNothingUntold
  <2>3. CASE g = f
    <3>1. q = "changed" \/ p \in {"woken", "telling", "telling last"}
      BY <2>2, <2>3 DEF FolderAsked
    <3>2. p # "gone"
      BY DEF FolderReports
    <3> QED
      BY <1>2, <2>3, <3>1, <3>2
  <2>4. CASE g # f
    <3>1. g \in Folders \ {f} /\ g \in unheard \ severed
      BY <1>3, <2>1, <2>2, <2>4
    <3> QED
      BY <1>1, <1>2, <2>1, <2>2, <3>1 DEF WindowsLeavesNothingUntold
  <2> QED
    BY <2>3, <2>4
<1> QED
  BY <1>4, <1>5, <1>6, <1>7, <1>8, <1>9, <1>10 DEF WindowsInv

\* The goroutine of a folder.
LEMMA ReportKeeps ==
  ASSUME WindowsInv, NEW f \in Folders, ReportStep(f) \/ PortFails(f)
  PROVE  WindowsInv'
<1>0. /\ WindowsTypeOK /\ ReadsOwned /\ CompletionsExplained /\ StopOrdered
      /\ OpeningOrdered /\ HandlesOwned /\ WindowsLeavesNothingUntold
      /\ stop = "returned" => handle = {}
  BY WindowsInvParts
<1>8. /\ report[f] \in {"waiting", "telling"} => request[f] # "none"
      /\ report[f] \in {"woken", "told off", "telling last"} => request[f] = "none"
      /\ request[f] \in {"none", "pending", "changed", "failed", "aborted"}
      /\ buffered \subseteq Folders
  BY <1>0 DEF WindowsTypeOK, ReadsOwned
<1>9. request = [request EXCEPT ![f] = request[f]]
  BY <1>0 DEF WindowsTypeOK
<1>10. /\ request[f] = "failed" => f \in gone
       /\ request[f] = "aborted" => f \in shut
       /\ shut # {} => stop # "no"
       /\ f \in unheard \ severed /\ signal = FALSE /\ stop = "no" =>
            \/ request[f] = "changed" /\ report[f] # "gone"
            \/ report[f] \in {"woken", "telling", "telling last"}
  BY <1>0 DEF CompletionsExplained, StopOrdered, WindowsLeavesNothingUntold
<1>1. CASE Dequeues(f)
  <2> DEFINE p == IF request[f] = "changed" THEN "woken" ELSE "told off"
  <2>1. FolderReports(f, p, "none") /\ PortsHeld(f)
    BY <1>1, <1>8 DEF Dequeues, FolderReports, PortsHeld
  <2>2. FolderAsked(f, p, "none")
    BY <1>1, <1>10 DEF Dequeues, FolderAsked
  <2> QED
    BY <2>1, <2>2, OneReports
<1>2. CASE Leaves(f)
  <2>1. FolderReports(f, "leaving", request[f]) /\ PortsHeld(f)
    BY <1>2, <1>8, <1>9 DEF Leaves, FolderReports, PortsHeld
  <2>2. FolderAsked(f, "leaving", request[f])
    BY <1>2, <1>10, <1>8 DEF Leaves, FolderAsked
  <2> QED
    BY <2>1, <2>2, OneReports
<1>3. CASE Rearms(f)
  <2> DEFINE q == IF f \in buffered THEN "changed" ELSE "pending"
  <2>1. FolderReports(f, "telling", q) /\ PortsHeld(f)
    BY <1>3, <1>8 DEF Rearms, Arms, FolderReports, PortsHeld
  <2>2. FolderAsked(f, "telling", q)
    BY DEF FolderAsked
  <2> QED
    BY <2>1, <2>2, OneReports
<1>4. CASE RearmFails(f)
  <2>1. FolderReports(f, "telling last", request[f]) /\ PortsHeld(f)
    BY <1>4, <1>8, <1>9 DEF RearmFails, ArmRefused, FolderReports, PortsHeld
  <2>2. FolderAsked(f, "telling last", request[f])
    BY <1>4, <1>8 DEF RearmFails, FolderAsked
  <2> QED
    BY <2>1, <2>2, OneReports
<1>5. CASE Tells(f)
  <2> DEFINE p == IF report[f] = "telling" THEN "waiting" ELSE "leaving"
  <2>1. FolderReports(f, p, request[f]) /\ PortsHeld(f)
    BY <1>5, <1>8, <1>9 DEF Tells, FolderReports, PortsHeld
  <2>2. FolderAsked(f, p, request[f])
    BY <1>5, <1>10, <1>8 DEF Tells, FolderAsked
  <2> QED
    BY <2>1, <2>2, OneReports
<1>6. CASE Goes(f)
  <2>1. /\ report[f] = "leaving" /\ report' = [report EXCEPT ![f] = "gone"]
        /\ handle' = handle \ {f} /\ buffered' = buffered \ {f}
        /\ UNCHANGED <<request, gone, shut, next, up, signal, stop, uncut, unheard, severed>>
    BY <1>6 DEF Goes
  <2>2. /\ report'[f] = "gone"
        /\ \A g \in Folders \ {f} : report'[g] = report[g]
    BY <1>0, <2>1 DEF WindowsTypeOK
  <2>3. WindowsTypeOK'
    <3>1. report' \in [Folders -> {"none", "waiting", "woken", "told off", "telling",
                                   "telling last", "leaving", "gone"}]
      BY <1>0, <2>1 DEF WindowsTypeOK
    <3> QED
      BY <1>0, <2>1, <3>1 DEF WindowsTypeOK
  <2>4. ReadsOwned' /\ CompletionsExplained'
    BY <1>0, <2>1, <2>2 DEF ReadsOwned, CompletionsExplained
  <2>5. StopOrdered' /\ (stop = "returned" => handle = {})'
    BY <1>0, <2>1 DEF StopOrdered
  <2>6. OpeningOrdered' /\ HandlesOwned'
    <3>1. next \subseteq Folders /\ handle \subseteq Folders /\ f \notin next /\ up # "no"
      BY <1>0, <2>1 DEF WindowsTypeOK, OpeningOrdered
    <3> QED
      BY <1>0, <2>1, <2>2, <3>1 DEF OpeningOrdered, HandlesOwned
  <2>7. WindowsLeavesNothingUntold'
    <3>1. unheard \subseteq Folders
      BY <1>0 DEF WindowsTypeOK
    <3>2. f \in unheard \ severed => signal \/ stop # "no"
      <4>1. f \notin severed => request[f] # "changed"
        BY <1>0, <2>1 DEF ReadsOwned
      <4> QED
        BY <1>0, <2>1, <4>1 DEF WindowsLeavesNothingUntold
    <3> QED
      BY <1>0, <2>1, <2>2, <3>1, <3>2 DEF WindowsLeavesNothingUntold
  <2> QED
    BY <2>3, <2>4, <2>5, <2>6, <2>7 DEF WindowsInv
<1>7. CASE PortFails(f)
  <2>1. FolderReports(f, "leaving", request[f]) /\ PortsHeld(f)
    BY <1>7, <1>8, <1>9 DEF PortFails, FolderReports, PortsHeld
  <2>2. FolderAsked(f, "leaving", request[f])
    BY <1>7, <1>10 DEF PortFails, FolderAsked
  <2> QED
    BY <2>1, <2>2, OneReports
<1> QED
  BY <1>1, <1>2, <1>3, <1>4, <1>5, <1>6, <1>7 DEF ReportStep

\* The stop, and the receiver.
LEMMA StopKeeps ==
  ASSUME WindowsInv, StopBegins \/ StopStep \/ TakeSignal
  PROVE  WindowsInv'
<1>0. /\ WindowsTypeOK /\ ReadsOwned /\ CompletionsExplained /\ StopOrdered
      /\ OpeningOrdered /\ HandlesOwned /\ WindowsLeavesNothingUntold
      /\ stop = "returned" => handle = {}
  BY WindowsInvParts
<1>1. CASE StopBegins
  BY <1>0, <1>1
     DEF StopBegins, WindowsInv, WindowsTypeOK, ReadsOwned, CompletionsExplained,
         StopOrdered, OpeningOrdered, HandlesOwned, WindowsLeavesNothingUntold
<1>2. ASSUME NEW f \in Folders, StopCuts(f) PROVE WindowsInv'
  <2>1. /\ f \in uncut /\ uncut' = uncut \ {f} /\ shut' = shut \cup {f}
        /\ request' = [request EXCEPT ![f] =
                         IF f \in handle /\ @ = "pending" THEN "aborted" ELSE @]
        /\ UNCHANGED <<handle, buffered, gone, report, next, up, signal, stop, unheard,
                       severed>>
    BY <1>2 DEF StopCuts
  <2>2. /\ request'[f] = (IF f \in handle /\ request[f] = "pending"
                            THEN "aborted" ELSE request[f])
        /\ \A g \in Folders \ {f} : request'[g] = request[g]
    BY <1>0, <2>1 DEF WindowsTypeOK
  <2>3. WindowsTypeOK'
    <3>1. request' \in [Folders -> {"none", "pending", "changed", "failed", "aborted"}]
      BY <1>0, <2>1 DEF WindowsTypeOK
    <3> QED
      BY <1>0, <2>1, <3>1 DEF WindowsTypeOK
  <2>4. ReadsOwned' /\ CompletionsExplained'
    <3>1. \A g \in Folders : request'[g] = "none" <=> request[g] = "none"
      BY <2>2
    <3>2. ReadsOwned'
      BY <1>0, <2>1, <3>1 DEF ReadsOwned
    <3>3. CompletionsExplained'
      BY <1>0, <2>1, <2>2 DEF CompletionsExplained
    <3> QED
      BY <3>2, <3>3
  <2>5. StopOrdered' /\ OpeningOrdered' /\ HandlesOwned' /\ (stop = "returned" => handle = {})'
    BY <1>0, <2>1 DEF StopOrdered, OpeningOrdered, HandlesOwned
  <2>6. stop' # "no"
    BY <1>0, <2>1 DEF StopOrdered
  <2>7. WindowsLeavesNothingUntold'
    BY <2>6 DEF WindowsLeavesNothingUntold
  <2> QED
    BY <2>3, <2>4, <2>5, <2>7 DEF WindowsInv
<1>3. CASE StopDone
  <2>1. /\ stop = "cancelling" /\ stop' = "returned"
        /\ \A f \in Folders : report[f] \in {"none", "gone"}
        /\ UNCHANGED <<handle, request, buffered, gone, shut, report, next, up, signal, uncut,
                       unheard, severed>>
    BY <1>3 DEF StopDone
  <2>2. handle = {}
    BY <1>0, <2>1 DEF HandlesOwned, WindowsTypeOK
  <2>3. WindowsTypeOK' /\ StopOrdered'
    BY <1>0, <2>1 DEF WindowsTypeOK, StopOrdered
  <2>4. /\ ReadsOwned' /\ CompletionsExplained' /\ OpeningOrdered' /\ HandlesOwned'
        /\ WindowsLeavesNothingUntold'
    BY <1>0, <2>1 DEF ReadsOwned, CompletionsExplained, OpeningOrdered, HandlesOwned,
                      WindowsLeavesNothingUntold
  <2> QED
    BY <2>1, <2>2, <2>3, <2>4 DEF WindowsInv
<1>4. CASE TakeSignal
  <2>1. /\ signal' = FALSE /\ unheard' = {}
        /\ UNCHANGED <<handle, request, buffered, gone, shut, report, next, up, stop, uncut,
                       severed>>
    BY <1>4 DEF TakeSignal
  <2>2. WindowsTypeOK' /\ WindowsLeavesNothingUntold'
    BY <1>0, <2>1 DEF WindowsTypeOK, WindowsLeavesNothingUntold
  <2>3. ReadsOwned' /\ CompletionsExplained' /\ StopOrdered' /\ OpeningOrdered' /\ HandlesOwned'
    BY <1>0, <2>1 DEF ReadsOwned, CompletionsExplained, StopOrdered, OpeningOrdered, HandlesOwned
  <2> QED
    BY <1>0, <2>1, <2>2, <2>3 DEF WindowsInv
<1> QED
  BY <1>1, <1>2, <1>3, <1>4 DEF StopStep

\* No step of the system, a goroutine or the stop breaks the invariant.
LEMMA WindowsSteps == WindowsInv /\ [WindowsNext]_winVars => WindowsInv'
<1> SUFFICES ASSUME WindowsInv, [WindowsNext]_winVars PROVE WindowsInv'
  OBVIOUS
<1>1. CASE WindowsNext
  BY <1>1, SystemKeeps, OpeningKeeps, ReportKeeps, StopKeeps DEF WindowsNext
<1>2. CASE UNCHANGED winVars
  BY <1>2 DEF winVars, WindowsInv, WindowsTypeOK, ReadsOwned, CompletionsExplained,
              StopOrdered, OpeningOrdered, HandlesOwned, WindowsLeavesNothingUntold
<1> QED
  BY <1>1, <1>2

\* The inductive invariant of the Windows notifier.
THEOREM WindowsInvariance == WindowsSpec => []WindowsInv
BY WindowsStarts, WindowsSteps, PTL DEF WindowsSpec

\* Every variable keeps its type, for any set of folders.
THEOREM WindowsTypeCorrect == WindowsSpec => []WindowsTypeOK
<1>1. WindowsInv => WindowsTypeOK
  BY WindowsInvParts
<1> QED
  BY <1>1, WindowsInvariance, PTL

\* No change in a folder whose goroutine listens goes unannounced, whatever
\* read completes, fails or cannot be asked for again.
THEOREM WindowsTellsAll == WindowsSpec => []WindowsLeavesNothingUntold
<1>1. WindowsInv => WindowsLeavesNothingUntold
  BY WindowsInvParts
<1> QED
  BY <1>1, WindowsInvariance, PTL

\* A goroutine that is gone has no read pending in its memory, and a stop that
\* has returned has left no handle.
THEOREM WindowsOwnsNothing == WindowsSpec => []WindowsStoppedOwnsNothing
<1>1. WindowsInv => WindowsStoppedOwnsNothing
  BY WindowsInvParts DEF WindowsStoppedOwnsNothing, ReadsOwned
<1> QED
  BY <1>1, WindowsInvariance, PTL

-----------------------------------------------------------------------------
(* PythonSubscription.                                                     *)

\* Who is there when: nobody before the call; the settling thread from the end
\* of the first load to the end of the close, or to the file that kills it.
PyShape ==
  /\ how = "not yet" =>
       listening = {} /\ notices = {} /\ mail = "empty" /\ \A t \in Rungs : drain[t] = "none"
  /\ how \in {"not yet", "loading"} => settler = "none" /\ closing = "no"
  /\ closing = "no" => mail # "end"
  /\ how = "told" /\ closing = "no" => settler \in {"waiting", "settling", "reading", "dead"}

\* What the system reports on, and what it has reported, has a thread that will
\* read it; on Windows nothing is held of a directory it does not report on.
PyHeard ==
  closing = "no" =>
    /\ \A r \in listening \cup notices :
         \E t \in Rungs : r \in Hearing(t) /\ drain[t] \in {"reading", "telling"}
    /\ system = "windows" => notices \subseteq listening

\* What a load has read is what the file holds, or a report is on its way.  The
\* settling thread starts after the first load, and finds the queue as it is.
PyLoaded ==
  closing = "no" /\ (how = "loading" \/ (how = "told" /\ settler = "reading")) =>
    \A r \in Rungs \ (unread \cup missed) :
      found[r] # content[r] => ReportOnItsWay(r) \/ mail = "notice"

PyInv == PyTypeOK /\ PyShape /\ PyHeard /\ PyLoaded /\ PyLeavesNothingUnread

\* The subscription starts with nothing heard and nothing read.
LEMMA PyStarts == PyInit => PyInv
<1> SUFFICES ASSUME PyInit PROVE PyInv
  OBVIOUS
<1>0. 0 \in 0 .. MaxChanges
  BY VersionsAssumption
<1>1. folders \subseteq Rungs /\ content \in [Rungs -> Versions]
  BY DEF PyInit
<1>2. found \in [Rungs -> Versions] /\ current \in [Rungs -> Versions]
  BY VersionsAssumption DEF PyInit, Nothing
<1>3. drain \in [Rungs -> {"none", "starting", "reading", "telling", "gone"}]
  BY DEF PyInit
<1>4. PyTypeOK
  BY <1>0, <1>1, <1>2, <1>3 DEF PyInit, PyTypeOK
<1> QED
  BY <1>4 DEF PyInit, PyInv, PyShape, PyHeard, PyLoaded, PyLeavesNothingUnread

\* A report of a rung that is reported on finds a thread to read it.
LEMMA ReportTravels ==
  ASSUME PyInv, closing = "no", NEW r \in Rungs, r \in listening \cup notices,
         r \in notices', system' = system,
         \A t \in Rungs : drain[t] \in {"reading", "telling"} => drain'[t] = drain[t]
  PROVE  ReportOnItsWay(r)'
<1>1. PICK t \in Rungs : r \in Hearing(t) /\ drain[t] \in {"reading", "telling"}
  BY DEF PyInv, PyHeard
<1>2. r \in Hearing(t)' /\ drain'[t] \in {"reading", "telling"}
  BY <1>1 DEF Hearing
<1> QED
  BY <1>2 DEF ReportOnItsWay

\* What is on its way stays on its way while reports are only added and the
\* threads, the files in writing and the queue stay as they are.
LEMMA StaysOnItsWay ==
  ASSUME NEW r \in Rungs, ReportOnItsWay(r),
         inPlace \cap listening \subseteq inPlace' \cap listening',
         notices \subseteq notices',
         UNCHANGED <<system, drain, mail, settler>>
  PROVE  ReportOnItsWay(r)'
BY DEF ReportOnItsWay, Bytewise, Hearing

\* What a writer does to one rung: it is reported, now or when the writer
\* closes the file, or counted among what nothing reports.
LEMMA FilesKeep ==
  ASSUME PyInv, NEW r \in Rungs,
         content' \in [Rungs -> Versions], \A q \in Rungs \ {r} : content'[q] = content[q],
         folders' \subseteq Rungs, inPlace' \subseteq Rungs, changed' \in 0 .. MaxChanges,
         listening' = listening, notices \subseteq notices', notices' \subseteq notices \cup ({r} \cap listening),
         \A q \in Rungs \ {r} : q \in inPlace => q \in inPlace',
         missed' \subseteq Rungs, missed \subseteq missed' \cup {r},
         \/ r \in missed'
         \/ r \in listening /\ ((r \in inPlace' /\ Bytewise) \/ r \in notices')
         \/ UNCHANGED <<content, missed>> /\ (r \in inPlace \cap listening => ~Bytewise),
         UNCHANGED <<system, drain, unreached, mail, how, settler, answers, closing>>
  PROVE  PyInv'
<1> USE DEF answers
<1>1. PyTypeOK' /\ PyShape' /\ PyHeard'
  BY DEF PyInv, PyTypeOK, PyShape, PyHeard, Hearing
<1>2. ASSUME NEW q \in Rungs, closing = "no", ReportOnItsWay(q), q # r
      PROVE  ReportOnItsWay(q)'
  BY <1>2 DEF ReportOnItsWay, Bytewise, Hearing
<1>3. ASSUME closing = "no", r \notin missed', content'[r] # content[r] \/ missed' # missed \/ ReportOnItsWay(r)
      PROVE  ReportOnItsWay(r)'
  <2>1. CASE r \in listening /\ r \in inPlace' /\ Bytewise
    BY <2>1 DEF ReportOnItsWay, Bytewise
  <2>2. CASE r \in listening /\ r \in notices'
    BY <1>3, <2>2, ReportTravels
  <2>3. CASE UNCHANGED <<content, missed>> /\ (r \in inPlace \cap listening => ~Bytewise)
    BY <1>3, <2>3 DEF ReportOnItsWay, Bytewise, Hearing
  <2> QED
    BY <1>3, <2>1, <2>2, <2>3
<1>4. PyLoaded'
  BY <1>2, <1>3 DEF PyInv, PyLoaded
<1>5. PyLeavesNothingUnread'
  BY <1>2, <1>3 DEF PyInv, PyLeavesNothingUnread, WillBeRead
<1> QED
  BY <1>1, <1>4, <1>5 DEF PyInv

-----------------------------------------------------------------------------
\* The bound on the changes is kept.
LEMMA Bounded ==
  ASSUME PyTypeOK, NEW r, NEW c, NEW reported, Changes(r, c, reported)
  PROVE  changed' \in 0 .. MaxChanges
<1>1. changed \in 0 .. MaxChanges /\ changed < MaxChanges /\ changed' = changed + 1
  BY DEF PyTypeOK, Changes
<1> QED
  BY <1>1, VersionsAssumption

\* Every step of a writer.
LEMMA WritersKeep ==
  ASSUME PyInv, Writers
  PROVE  PyInv'
<1> PICK r \in Rungs :
       CloseFile(r) \/ RemoveFolder(r) \/ \E c \in Versions : ReplaceFile(r, c) \/ WriteInPlace(r, c)
  BY DEF Writers
<1>t. PyTypeOK
  BY DEF PyInv
<1> USE DEF answers, told, files
<1>1. ASSUME NEW c \in Versions, ReplaceFile(r, c)
      PROVE  PyInv'
  <2>1. changed' \in 0 .. MaxChanges
    BY <1>1, <1>t, Bounded DEF ReplaceFile
  <2>2. content' \in [Rungs -> Versions] /\ \A q \in Rungs \ {r} : content'[q] = content[q]
    BY <1>1, <1>t DEF ReplaceFile, Changes, PyTypeOK
  <2> QED
    BY <1>1, <1>t, <2>1, <2>2, FilesKeep DEF ReplaceFile, Changes, Reports, PyTypeOK
<1>2. ASSUME NEW c \in Versions, WriteInPlace(r, c)
      PROVE  PyInv'
  <2>1. changed' \in 0 .. MaxChanges
    BY <1>2, <1>t, Bounded DEF WriteInPlace
  <2>2. content' \in [Rungs -> Versions] /\ \A q \in Rungs \ {r} : content'[q] = content[q]
    BY <1>2, <1>t DEF WriteInPlace, Changes, PyTypeOK
  <2>3. folders' \subseteq Rungs /\ inPlace' = inPlace \cup {r} /\ missed' \subseteq Rungs
    BY <1>2, <1>t DEF WriteInPlace, Changes, PyTypeOK
  <2>4. notices \subseteq notices' /\ notices' \subseteq notices \cup ({r} \cap listening)
    BY <1>2 DEF WriteInPlace, Reports
  <2>5. r \in missed' \/ (r \in listening /\ Bytewise)
    BY <1>2 DEF WriteInPlace, Changes
  <2> QED
    BY <1>2, <1>t, <2>1, <2>2, <2>3, <2>4, <2>5, FilesKeep DEF WriteInPlace, Changes, PyTypeOK
<1>3. CASE CloseFile(r)
  BY <1>3, <1>t, FilesKeep DEF CloseFile, Reports, PyTypeOK
<1>4. CASE RemoveFolder(r)
  <2>1. PyTypeOK' /\ PyShape' /\ PyHeard'
    BY <1>4 DEF RemoveFolder, Reports, PyInv, PyTypeOK, PyShape, PyHeard, Hearing
  <2>2. ASSUME NEW q \in Rungs \ missed', closing = "no", ReportOnItsWay(q)
        PROVE  ReportOnItsWay(q)'
    <3>1. CASE system # "windows" /\ q = r /\ r \in listening
      BY <1>4, <2>2, <3>1, ReportTravels DEF RemoveFolder, Reports, PyInv, PyTypeOK
    <3>2. CASE system # "windows" /\ ~(q = r /\ r \in listening)
      BY <1>4, <2>2, <3>2, <1>t DEF RemoveFolder, Reports, ReportOnItsWay, Bytewise, Hearing, PyTypeOK
    <3>3. CASE system = "windows"
      BY <1>4, <2>2, <3>3, <1>t DEF RemoveFolder, ReportOnItsWay, Bytewise, Hearing, PyTypeOK
    <3> QED
      BY <3>1, <3>2, <3>3
  <2>3. PyLoaded'
    BY <1>4, <2>2 DEF RemoveFolder, PyInv, PyLoaded
  <2>4. PyLeavesNothingUnread'
    BY <1>4, <2>2 DEF RemoveFolder, PyInv, PyLeavesNothingUnread, WillBeRead
  <2> QED
    BY <2>1, <2>3, <2>4 DEF PyInv
<1> QED
  BY <1>1, <1>2, <1>3, <1>4

\* _notify_dirs: what it listens to has its thread.
LEMMA NotifierKeeps ==
  ASSUME PyInv, NEW W \in SUBSET Rungs, NotifyDirs(W)
  PROVE  PyInv'
<1>1. PyTypeOK'
  BY DEF NotifyDirs, files, PyInv, PyTypeOK
<1>2. PyShape' /\ PyLoaded' /\ PyLeavesNothingUnread'
  BY DEF NotifyDirs, files, PyInv, PyShape, PyLoaded, PyLeavesNothingUnread
<1>3. notices' = {} /\ system' = system /\ listening' = IF system = "windows" THEN {} ELSE W
  BY DEF NotifyDirs, PyInv, PyShape
<1>4. PyHeard'
  <2>1. system # "windows" => "user" \in Rungs /\ drain'["user"] = "reading"
    BY DEF NotifyDirs, Threads, Rungs
  <2> QED
    BY <1>3, <2>1 DEF PyHeard, Hearing
<1> QED
  BY <1>1, <1>2, <1>4 DEF PyInv

\* A thread that drains passes on what it takes before it takes more.
LEMMA DrainKeeps ==
  ASSUME PyInv, NEW t \in Rungs, DrainStep(t)
  PROVE  PyInv'
<1> USE DEF answers, told, files
<1>t. PyTypeOK
  BY DEF PyInv
<1>0. PyTypeOK'
  <2>1. drain' \in [Rungs -> {"none", "starting", "reading", "telling", "gone"}]
    BY <1>t DEF DrainStep, FirstRead, ReportsRead, DrainPuts, DrainEnds, PyTypeOK
  <2>2. listening' \subseteq Rungs /\ notices' \subseteq Rungs /\ mail' \in {"empty", "notice", "end"}
    BY <1>t DEF DrainStep, FirstRead, ReportsRead, DrainPuts, DrainEnds, PyTypeOK
  <2>3. UNCHANGED <<files, system, unreached, how, settler, answers, closing, missed>>
    BY DEF DrainStep, FirstRead, ReportsRead, DrainPuts, DrainEnds
  <2> QED
    BY <1>t, <2>1, <2>2, <2>3 DEF PyTypeOK
<1>1. PyShape'
  BY DEF DrainStep, FirstRead, ReportsRead, DrainPuts, DrainEnds, PyInv, PyTypeOK, PyShape
<1>2. \A s \in Rungs \ {t} : drain'[s] = drain[s]
  BY <1>t DEF DrainStep, FirstRead, ReportsRead, DrainPuts, DrainEnds, PyTypeOK
<1>3. ASSUME closing = "no"
      PROVE  /\ PyHeard'
             /\ \A r \in Rungs : ReportOnItsWay(r) =>
                  ReportOnItsWay(r)' \/ mail' = "notice"
             /\ \A r \in Rungs : ReportOnItsWay(r) /\ settler \in {"waiting", "settling", "reading"} =>
                  ReportOnItsWay(r)'
  <2>1. CASE FirstRead(t)
    <3>1. drain'[t] = "reading"
      BY <2>1, <1>t DEF FirstRead, PyTypeOK
    <3>2. PyHeard'
      BY <1>2, <1>3, <2>1, <3>1 DEF FirstRead, PyInv, PyTypeOK, PyHeard, Hearing
    <3>3. \A r \in Rungs : ReportOnItsWay(r) => ReportOnItsWay(r)'
      BY <1>2, <2>1, <3>1 DEF FirstRead, ReportOnItsWay, Hearing, Bytewise
    <3> QED
      BY <3>2, <3>3
  <2>2. CASE ReportsRead(t)
    <3>1. drain'[t] = "telling"
      BY <2>2, <1>t DEF ReportsRead, PyTypeOK
    <3> QED
      BY <1>2, <1>3, <2>2, <3>1 DEF ReportsRead, PyInv, PyTypeOK, PyHeard, ReportOnItsWay, Hearing, Bytewise
  <2>3. CASE DrainPuts(t)
    <3>1. drain'[t] = "reading" /\ mail' = "notice"
      BY <1>3, <2>3, <1>t DEF DrainPuts, PyTypeOK, PyInv, PyShape
    <3> QED
      BY <1>2, <1>3, <2>3, <3>1 DEF DrainPuts, PyInv, PyTypeOK, PyHeard, ReportOnItsWay, Hearing, Bytewise
  <2>4. CASE DrainEnds(t)
    <3>1. system = "windows" /\ t \notin listening /\ t \notin notices
      BY <1>3, <2>4 DEF DrainEnds, Woken, PyInv, PyHeard
    <3>2. listening' = listening /\ notices' = notices /\ UNCHANGED <<system, inPlace, mail, settler>>
      BY <2>4, <3>1 DEF DrainEnds, Hearing
    <3>3. PyHeard'
      BY <1>2, <1>3, <3>1, <3>2 DEF PyInv, PyHeard, Hearing
    <3>4. \A r \in Rungs : ReportOnItsWay(r) => ReportOnItsWay(r)'
      BY <1>2, <2>4, <3>1, <3>2 DEF DrainEnds, ReportOnItsWay, Hearing, Bytewise
    <3> QED
      BY <3>3, <3>4
  <2> QED
    BY <2>1, <2>2, <2>3, <2>4 DEF DrainStep
<1>4. UNCHANGED <<content, found, current, closing, how, settler, unread, missed>>
  BY DEF DrainStep, FirstRead, ReportsRead, DrainPuts, DrainEnds
<1>5. PyLoaded'
  BY <1>3, <1>4 DEF PyInv, PyLoaded, DrainStep, FirstRead, ReportsRead, DrainPuts, DrainEnds
<1>6. PyLeavesNothingUnread'
  BY <1>3, <1>4 DEF PyInv, PyShape, PyLeavesNothingUnread, WillBeRead
<1>7. PyHeard'
  BY <1>3, <1>4 DEF PyHeard
<1> QED
  BY <1>0, <1>1, <1>5, <1>6, <1>7 DEF PyInv

\* Loading, at first and for every burst; what was read is posted as it was read.
LEMMA LoadKeeps ==
  ASSUME PyInv, LoadStep
  PROVE  PyInv'
<1> USE DEF answers, told, files
<1>t. PyTypeOK
  BY DEF PyInv
<1>1. ASSUME NEW r \in Rungs, ReadInto(r)
      PROVE  PyInv'
  <2>1. found'[r] = content[r] /\ \A q \in Rungs \ {r} : found'[q] = found[q]
    BY <1>1, <1>t DEF ReadInto, PyTypeOK
  <2>2. PyTypeOK' /\ PyShape' /\ PyHeard'
    BY <1>1 DEF ReadInto, PyInv, PyTypeOK, PyShape, PyHeard, Hearing
  <2>3. \A q \in Rungs : ReportOnItsWay(q)' = ReportOnItsWay(q)
    BY <1>1 DEF ReadInto, ReportOnItsWay, Hearing, Bytewise
  <2>4. PyLoaded'
    BY <1>1, <2>1, <2>3 DEF ReadInto, PyInv, PyLoaded
  <2>5. PyLeavesNothingUnread'
    BY <1>1, <2>1, <2>3 DEF ReadInto, Loading, PyInv, PyShape, PyLeavesNothingUnread, WillBeRead
  <2> QED
    BY <2>2, <2>4, <2>5 DEF PyInv
<1>2. CASE Push \/ Posts
  <2>1. PyTypeOK' /\ PyShape' /\ PyHeard' /\ PyLoaded'
    BY <1>2, VersionsAssumption
       DEF Push, Posts, Nothing, PyInv, PyTypeOK, PyShape, PyHeard, PyLoaded, Hearing
  <2>2. \A q \in Rungs : ReportOnItsWay(q) \/ mail = "notice" => ReportOnItsWay(q)'
    BY <1>2 DEF Push, Posts, ReportOnItsWay, Hearing, Bytewise
  <2>3. PyLeavesNothingUnread'
    BY <1>2, <2>2 DEF Push, Posts, PyInv, PyLoaded, PyLeavesNothingUnread, WillBeRead
  <2> QED
    BY <2>1, <2>3 DEF PyInv
<1>3. CASE SettlerHears \/ SettlerEnds
  <2>1. PyTypeOK' /\ PyShape' /\ PyHeard'
    BY <1>3 DEF SettlerHears, SettlerEnds, PyInv, PyTypeOK, PyShape, PyHeard, Hearing
  <2>2. PyLoaded' /\ PyLeavesNothingUnread'
    BY <1>3 DEF SettlerHears, SettlerEnds, PyInv, PyShape, PyLoaded, PyLeavesNothingUnread, WillBeRead
  <2> QED
    BY <2>1, <2>2 DEF PyInv
<1>4. CASE SettlerLoads
  <2>1. PyTypeOK' /\ PyShape' /\ PyHeard'
    BY <1>4 DEF SettlerLoads, PyInv, PyTypeOK, PyShape, PyHeard, Hearing
  <2>2. PyLoaded' /\ PyLeavesNothingUnread'
    BY <1>4 DEF SettlerLoads, PyInv, PyShape, PyLoaded, PyLeavesNothingUnread, WillBeRead
  <2> QED
    BY <2>1, <2>2 DEF PyInv
<1>5. ASSUME NEW r \in Rungs, ReadIntoRaises(r)
      PROVE  PyInv'
  <2>1. PyTypeOK' /\ PyShape' /\ PyHeard'
    BY <1>5, VersionsAssumption
       DEF ReadIntoRaises, Loading, Nothing, PyInv, PyTypeOK, PyShape, PyHeard, Hearing
  <2>2. PyLoaded' /\ PyLeavesNothingUnread'
    BY <1>5 DEF ReadIntoRaises, Loading, PyInv, PyShape, PyLoaded, PyLeavesNothingUnread
  <2> QED
    BY <2>1, <2>2 DEF PyInv
<1> QED
  BY <1>1, <1>2, <1>3, <1>4, <1>5 DEF LoadStep

\* The close, and the library's asking, are outside what is promised.
LEMMA CloseKeeps ==
  ASSUME PyInv, Asks \/ Stops \/ PutsEnd \/ Joins
  PROVE  PyInv'
<1> USE DEF answers, told, files
<1>1. PyTypeOK'
  BY DEF Asks, Stops, PutsEnd, Joins, PyInv, PyTypeOK
<1>2. PyShape'
  BY DEF Asks, Stops, PutsEnd, Joins, PyInv, PyShape
<1>3. PyHeard' /\ PyLoaded' /\ PyLeavesNothingUnread'
  BY DEF Asks, Stops, PutsEnd, Joins, PyInv, PyShape, PyHeard, PyLoaded, PyLeavesNothingUnread, Hearing
<1> QED
  BY <1>1, <1>2, <1>3 DEF PyInv

\* No step of a writer, a thread or the close breaks the invariant.
LEMMA PySteps == PyInv /\ [PyNext]_pyVars => PyInv'
<1>1. ASSUME PyInv, UNCHANGED pyVars
      PROVE  PyInv'
  <2> USE <1>1 DEF PyInv, pyVars, files, told, answers
  <2>1. PyTypeOK' /\ PyShape' /\ PyHeard'
    BY DEF PyTypeOK, PyShape, PyHeard, Hearing
  <2>2. \A r \in Rungs : ReportOnItsWay(r) => ReportOnItsWay(r)'
    BY DEF ReportOnItsWay, Hearing, Bytewise
  <2>3. PyLoaded' /\ PyLeavesNothingUnread'
    BY <2>2 DEF PyLoaded, PyLeavesNothingUnread, WillBeRead
  <2> QED
    BY <2>1, <2>3
<1> QED
  BY <1>1, WritersKeep, NotifierKeeps, DrainKeeps, LoadKeeps, CloseKeeps DEF PyNext

\* The invariant holds however the threads and the writers interleave.
THEOREM PythonInvariance == PySpec => []PyInv
BY PyStarts, PySteps, PTL DEF PySpec

\* The subscription never rests on an answer that is out of date, for any
\* versions and any number of changes.
THEOREM PythonTellsAll == PySpec => []PyLeavesNothingUnread
<1>1. PyInv => PyLeavesNothingUnread
  BY DEF PyInv
<1> QED
  BY <1>1, PythonInvariance, PTL

-----------------------------------------------------------------------------
(* The composition: a process holds one notifier, and what one of them does *)
(* leaves the state of the others alone.                                    *)

\* Each part's invariant is one of the whole.
THEOREM NotifiersInvariance == Spec => [](KqueueInv /\ WindowsInv /\ PyInv)
<1>1. Init => KqueueInv /\ WindowsInv /\ PyInv
  BY KqueueStarts, WindowsStarts, PyStarts DEF Init
<1>2. [OnBSD \/ OnWindows \/ InPython]_notifierVars =>
        [KqueueNext]_kqueueVars /\ [WindowsNext]_winVars /\ [PyNext]_pyVars
  BY DEF OnBSD, OnWindows, InPython, notifierVars
<1> QED
  BY <1>1, <1>2, KqueueSteps, WindowsSteps, PySteps, PTL DEF Spec

\* Whatever the notifier of the platform or of the language is, no change it
\* answers for is lost between two steps of its threads.
THEOREM NotifiersTellAll ==
  Spec => [](KqueueLeavesNothingUntold /\ WindowsLeavesNothingUntold /\ PyLeavesNothingUnread)
<1>1. KqueueInv /\ WindowsInv /\ PyInv =>
        KqueueLeavesNothingUntold /\ WindowsLeavesNothingUntold /\ PyLeavesNothingUnread
  BY WindowsInvParts DEF KqueueInv, PyInv
<1> QED
  BY <1>1, NotifiersInvariance, PTL

\* What is stopped owns nothing, on either platform.
THEOREM NotifiersOwnNothing ==
  Spec => [](KqueueStoppedOwnsNothing /\ WindowsStoppedOwnsNothing)
<1>1. KqueueInv /\ WindowsInv => KqueueStoppedOwnsNothing /\ WindowsStoppedOwnsNothing
  BY WindowsInvParts DEF KqueueInv, WindowsStoppedOwnsNothing, ReadsOwned
<1> QED
  BY <1>1, NotifiersInvariance, PTL
=============================================================================
