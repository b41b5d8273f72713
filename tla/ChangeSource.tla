---------------------------- MODULE ChangeSource ----------------------------
(***************************************************************************)
(* What the config service expects of a notification source: the contract  *)
(* of ObservationSource (go/service/observer.go), stated over the two      *)
(* files it reports on.  Module Invalidation is the source the service     *)
(* uses, and implements this one; module Observation is the service on top *)
(* of any such source.                                                     *)
(***************************************************************************)
EXTENDS Naturals

CONSTANTS
  Contents,    \* what a file may hold, its absence and its ownership included
  Absent,      \* no file
  MaxWrites    \* bound on the changes made to the files

ASSUME ContentsAssumption == Absent \in Contents
ASSUME MaxWritesAssumption == MaxWrites \in Nat

Machine == "machine"
User    == "user"
Rungs   == {Machine, User}

VARIABLES
  files,    \* the content of each rung's file
  writes,   \* how many changes were made
  phase,    \* the source: not started, up, silently broken, channel closed
  owed,     \* a signal is in the channel or on its way to it
  blind     \* history: rungs changed where the source does not look

sourceVars == <<files, writes, phase, owed, blind>>

SourceTypeOK ==
  /\ files \in [Rungs -> Contents]
  /\ writes \in 0 .. MaxWrites
  /\ phase \in {"none", "up", "silent", "ended"}
  /\ owed \in BOOLEAN
  /\ blind \subseteq Rungs

SourceInit ==
  /\ files \in [Rungs -> Contents]
  /\ writes = 0
  /\ phase = "none"
  /\ owed = FALSE
  /\ blind = {}

Write(r, c) ==
  /\ writes < MaxWrites
  /\ c # files[r]
  /\ files' = [files EXCEPT ![r] = c]
  /\ writes' = writes + 1
  /\ UNCHANGED phase

\* A change the source covers is owed a signal from the moment it is made.
CoveredWrite(r, c) ==
  /\ phase = "up" /\ Write(r, c)
  /\ owed' = TRUE
  /\ UNCHANGED blind

\* A directory that did not exist, a change of owner: no mechanism looks.
BlindWrite(r, c) ==
  /\ Write(r, c)
  /\ blind' = blind \cup {r}
  /\ UNCHANGED owed

\* Before the source starts, or when it is broken, a change is owed nothing;
\* an edit of this process may still be announced.
UnreportedWrite(r, c) ==
  /\ phase # "up" /\ Write(r, c)
  /\ owed' \in (IF phase = "silent" THEN {owed, TRUE} ELSE {owed})
  /\ UNCHANGED blind

\* The history starts with the source: nobody has yet read a value.  The
\* mechanism may break while it is being set up.
SourceStarts ==
  /\ phase = "none"
  /\ phase' \in {"up", "silent"}
  /\ owed' \in BOOLEAN
  /\ blind' = {}
  /\ UNCHANGED <<files, writes>>

\* A signal without a change: a removed directory, an edit told twice.
SpuriousSignal ==
  /\ phase = "up" /\ ~owed
  /\ owed' = TRUE
  /\ UNCHANGED <<files, writes, phase, blind>>

\* The receiver takes a signal; another may already be on its way, unless the
\* channel is closed.
SignalTaken ==
  /\ owed
  /\ owed' \in (IF phase = "ended" THEN {FALSE} ELSE BOOLEAN)
  /\ UNCHANGED <<files, writes, phase, blind>>

\* The mechanism breaks, or is being stopped, and the channel stays open.
GoesSilent ==
  /\ phase = "up"
  /\ phase' = "silent"
  /\ UNCHANGED <<files, writes, owed, blind>>

\* What is on its way in a broken source may come or not.
SilentDrift ==
  /\ phase = "silent"
  /\ owed' = ~owed
  /\ UNCHANGED <<files, writes, phase, blind>>

\* The source closes its channel, for good; a signal may be left in it.
SourceEnds ==
  /\ phase \in {"up", "silent"}
  /\ phase' = "ended"
  /\ owed' \in {owed, FALSE}
  /\ UNCHANGED <<files, writes, blind>>

SourceWrite ==
  \E r \in Rungs, c \in Contents :
    CoveredWrite(r, c) \/ BlindWrite(r, c) \/ UnreportedWrite(r, c)

SourceNext ==
  \/ SourceWrite \/ SourceStarts \/ SpuriousSignal \/ SignalTaken
  \/ GoesSilent \/ SilentDrift \/ SourceEnds

SourceSpec == SourceInit /\ [][SourceNext]_sourceVars
=============================================================================
