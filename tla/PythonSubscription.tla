------------------------- MODULE PythonSubscription -------------------------
(***************************************************************************)
(* legacy_watch (python/abstraction_config.py): the Python reader told by   *)
(* notifications of its own.  A thread drains them into a queue of one, a   *)
(* second settles them, loads both files again and posts the answer; the    *)
(* close stops the first and tells the second to end.  The threads of       *)
(* abstraction_watch (settle, push, poll) are a library's, modelled from    *)
(* how they are used.                                                      *)
(***************************************************************************)
EXTENDS Naturals

CONSTANTS
  Versions,   \* what a configuration file may hold, its absence included
  NoVersion,  \* no file
  MaxChanges  \* bound on the changes made to the files

ASSUME VersionsAssumption == NoVersion \in Versions /\ MaxChanges \in Nat

Rungs == {"machine", "user"}

VARIABLES
  content,    \* what each rung's file holds
  folders,    \* the rungs whose directory exists
  inPlace,    \* the rungs whose file a writer holds open, written to
  changed,    \* how many changes were made
  system,     \* sys.platform
  listening,  \* the rungs whose directory the system reports on
  notices,    \* the rungs with a report the process has not read
  drain,      \* the threads that read them: one, on Windows one for each directory
  unreached,      \* the threads the stop could not cancel
  mail,       \* the queue of one: empty, a notice, the end
  how,        \* how far legacy_watch is, and how the subscription is told
  settler,    \* the thread that settles, or that asks
  unread,     \* the rungs the load under way has still to read
  found,      \* what it has read, until it is posted
  current,    \* the answer the subscription holds
  closing,    \* how far the close is
  missed      \* history: rungs changed where nothing looks, and not read since

files    == <<content, folders, inPlace, changed>>
told     == <<listening, notices, drain, unreached>>
answers  == <<unread, found, current>>
pyVars   == <<files, system, told, mail, how, settler, answers, closing, missed>>

Nothing == [r \in Rungs |-> NoVersion]

PyInit ==
  /\ folders \in SUBSET Rungs
  /\ content \in {c \in [Rungs -> Versions] : \A r \in Rungs \ folders : c[r] = NoVersion}
  /\ inPlace = {} /\ changed = 0
  /\ system \in {"linux", "darwin", "windows"}
  /\ listening = {} /\ notices = {} /\ unreached = {}
  /\ drain = [t \in Rungs |-> "none"]
  /\ mail = "empty" /\ how = "not yet" /\ settler = "none"
  /\ unread = {}
  /\ found = Nothing /\ current = Nothing
  /\ closing = "no" /\ missed = {}

-----------------------------------------------------------------------------
(* The files.                                                              *)

\* Bound: nobody writes once the close has returned.
Changes(r, c, reported) ==
  /\ changed < MaxChanges /\ closing # "closed"
  /\ c # content[r]
  /\ content' = [content EXCEPT ![r] = c]
  /\ changed' = changed + 1
  /\ missed' = IF reported THEN missed \ {r} ELSE missed \cup {r}

Reports(r) == notices' = notices \cup ({r} \cap listening)

\* A rename into place, a file that is removed.
ReplaceFile(r, c) ==
  /\ Changes(r, c, r \in listening)
  /\ folders' = folders \cup {r}
  /\ Reports(r)
  /\ UNCHANGED <<inPlace, system, listening, drain, unreached, mail, how, settler, answers, closing>>

\* kqueue reports the names of a directory, not the bytes of its files.
Bytewise == system # "darwin"

\* A writer in place: what it writes is reported when it closes the file.
WriteInPlace(r, c) ==
  /\ c # NoVersion
  /\ Changes(r, c, r \in listening /\ Bytewise)
  /\ folders' = folders \cup {r} /\ inPlace' = inPlace \cup {r}
  /\ IF content[r] = NoVersion THEN Reports(r) ELSE UNCHANGED notices
  /\ UNCHANGED <<system, listening, drain, unreached, mail, how, settler, answers, closing>>

CloseFile(r) ==
  /\ r \in inPlace
  /\ inPlace' = inPlace \ {r}
  /\ IF Bytewise THEN Reports(r) ELSE UNCHANGED notices
  /\ UNCHANGED <<content, folders, changed, system, listening, drain, unreached, mail, how,
                 settler, answers, closing, missed>>

\* An empty directory goes, and with it what Windows still held of it; a read
\* of it, the first included, will fail.
RemoveFolder(r) ==
  /\ r \in folders /\ content[r] = NoVersion
  /\ folders' = folders \ {r} /\ listening' = listening \ {r}
  /\ IF system = "windows"
       THEN notices' = notices \ {r} /\ missed' = missed \cup {r}
       ELSE Reports(r) /\ UNCHANGED missed
  /\ drain' = IF drain[r] = "starting" THEN [drain EXCEPT ![r] = "reading"] ELSE drain
  /\ UNCHANGED <<content, inPlace, changed, system, unreached, mail, how, settler, answers,
                 closing>>

-----------------------------------------------------------------------------
(* legacy_watch and the threads of its notifier.                           *)

Threads(W) == IF system = "windows" THEN W ELSE {"user"}
Hearing(t) == IF system = "windows" THEN {t} ELSE Rungs

\* _notify_dirs: a directory that cannot be watched is passed over, on macOS it
\* is an error.  The system reports from here on, on Windows only once the
\* thread has asked it to.
NotifyDirs(W) ==
  /\ how = "not yet"
  /\ W \subseteq folders /\ W # {}
  /\ system = "darwin" => W = folders
  /\ listening' = IF system = "windows" THEN {} ELSE W
  /\ drain' = [t \in Rungs |-> IF t \notin Threads(W) THEN "none"
                               ELSE IF system = "windows" THEN "starting" ELSE "reading"]
  /\ how' = "loading" /\ unread' = Rungs
  /\ UNCHANGED <<files, system, notices, unreached, mail, settler, found, current, closing, missed>>

\* No directory, none that can be watched, no notifier: the library asks.
Asks ==
  /\ how = "not yet"
  /\ how' = "asking" /\ settler' = "waiting"
  /\ UNCHANGED <<files, system, told, mail, answers, closing, missed>>

\* The first ReadDirectoryChangesW of a handle.
FirstRead(t) ==
  /\ drain[t] = "starting"
  /\ drain' = [drain EXCEPT ![t] = "reading"]
  /\ listening' = listening \cup ({t} \cap folders)
  /\ UNCHANGED <<files, system, notices, unreached, mail, how, settler, answers, closing, missed>>

\* The byte in the pipe, which goes before any report.
Woken == system # "windows" /\ closing # "no"

ReportsRead(t) ==
  /\ drain[t] = "reading" /\ ~Woken
  /\ notices \cap Hearing(t) # {}
  /\ notices' = notices \ Hearing(t)
  /\ drain' = [drain EXCEPT ![t] = "telling"]
  /\ UNCHANGED <<files, system, listening, unreached, mail, how, settler, answers, closing, missed>>

\* _drain: a full queue already says it.
DrainPuts(t) ==
  /\ drain[t] = "telling"
  /\ drain' = [drain EXCEPT ![t] = "reading"]
  /\ mail' = IF mail = "empty" THEN "notice" ELSE mail
  /\ UNCHANGED <<files, system, listening, notices, unreached, how, settler, answers, closing, missed>>

\* The pipe, or a read that failed or was cancelled; the thread closes what it read.
DrainEnds(t) ==
  /\ drain[t] = "reading"
  /\ Woken \/ (system = "windows" /\ t \notin listening)
  /\ drain' = [drain EXCEPT ![t] = "gone"]
  /\ listening' = listening \ Hearing(t) /\ notices' = notices \ Hearing(t)
  /\ UNCHANGED <<files, system, unreached, mail, how, settler, answers, closing, missed>>

-----------------------------------------------------------------------------
(* Loading the answer, at first and for every burst of notices.            *)

Loading == how = "loading" \/ settler = "reading"

\* _read_into: the machine file before the user's.
ReadInto(r) ==
  /\ Loading /\ r \in unread /\ (r = "user" => "machine" \notin unread)
  /\ found' = [found EXCEPT ![r] = content[r]]
  /\ unread' = unread \ {r}
  /\ missed' = missed \ {r}
  /\ UNCHANGED <<files, system, told, mail, how, settler, current, closing>>

\* ... and where json.loads raises what it does not catch (a text nested deeper
\* than Python's stack): the caller of legacy_watch gets the exception, or the
\* thread that settles dies of it.  What a file holds is not told apart here.
ReadIntoRaises(r) ==
  /\ Loading /\ r \in unread /\ (r = "user" => "machine" \notin unread)
  /\ content[r] # NoVersion
  /\ unread' = {} /\ found' = Nothing
  /\ IF how = "loading" THEN how' = "raised" /\ UNCHANGED settler
                        ELSE settler' = "dead" /\ UNCHANGED how
  /\ UNCHANGED <<files, system, told, mail, current, closing, missed>>

\* A bug the run rules out: what came during the first load is taken for read.
PushAfresh ==
  /\ how = "loading" /\ unread = {}
  /\ how' = "told" /\ settler' = "waiting"
  /\ current' = found /\ found' = Nothing /\ mail' = "empty"
  /\ UNCHANGED <<files, system, told, unread, closing, missed>>

Push ==
  /\ how = "loading" /\ unread = {}
  /\ how' = "told" /\ settler' = "waiting"
  /\ current' = found /\ found' = Nothing
  /\ UNCHANGED <<files, system, told, mail, unread, closing, missed>>

SettlerHears ==
  /\ settler \in {"waiting", "settling"} /\ mail = "notice"
  /\ mail' = "empty" /\ settler' = "settling"
  /\ UNCHANGED <<files, system, told, how, answers, closing, missed>>

SettlerLoads ==
  /\ \/ settler = "settling"
     \/ settler = "waiting" /\ how = "asking" /\ closing = "no"
  /\ settler' = "reading" /\ unread' = Rungs
  /\ UNCHANGED <<files, system, told, mail, how, found, current, closing, missed>>

Posts ==
  /\ settler = "reading" /\ unread = {}
  /\ settler' = "waiting" /\ current' = found /\ found' = Nothing
  /\ UNCHANGED <<files, system, told, mail, how, unread, closing, missed>>

\* A bug the run rules out: the thread leaves as soon as the stop is told.
SettlerEndsEarly ==
  /\ settler \in {"waiting", "settling"} /\ (mail = "end" \/ closing # "no")
  /\ settler' = "gone" /\ mail' = IF mail = "end" THEN "empty" ELSE mail
  /\ UNCHANGED <<files, system, told, how, answers, closing, missed>>

SettlerEnds ==
  /\ settler \in {"waiting", "settling"} /\ mail = "end"
  /\ settler' = "gone" /\ mail' = "empty"
  /\ UNCHANGED <<files, system, told, how, answers, closing, missed>>

-----------------------------------------------------------------------------
(* Subscription.close.                                                     *)

\* stop: a byte in the pipe; on Windows the cancellation of the reads that are
\* pending, which reaches no thread that is before its first read or between two.
Stops ==
  /\ how = "told" /\ closing = "no"
  /\ closing' = "stopped"
  /\ LET pending == {t \in Rungs : drain[t] = "reading" /\ t \notin notices}
     IN  IF system = "windows"
           THEN /\ listening' = listening \ pending
                /\ unreached' = {t \in Rungs : drain[t] \notin {"none", "gone"}} \ pending
           ELSE UNCHANGED <<listening, unreached>>
  /\ UNCHANGED <<files, system, notices, drain, mail, how, settler, answers, missed>>

\* events.put(None), which waits for room.
PutsEnd ==
  /\ closing = "stopped" /\ mail = "empty"
  /\ mail' = "end" /\ closing' = "joining"
  /\ UNCHANGED <<files, system, told, how, settler, answers, missed>>

\* The join, for one second, and the library's close.
Joins ==
  /\ \/ closing = "joining"
     \/ how = "asking" /\ closing = "no"
  /\ closing' = "closed"
  /\ UNCHANGED <<files, system, told, mail, how, settler, answers, missed>>

-----------------------------------------------------------------------------
Writers ==
  \E r \in Rungs :
    \/ CloseFile(r) \/ RemoveFolder(r)
    \/ \E c \in Versions : ReplaceFile(r, c) \/ WriteInPlace(r, c)

DrainStep(t) == FirstRead(t) \/ ReportsRead(t) \/ DrainPuts(t) \/ DrainEnds(t)

LoadStep ==
  \/ \E r \in Rungs : ReadInto(r) \/ ReadIntoRaises(r)
  \/ Push \/ SettlerHears \/ SettlerLoads \/ Posts \/ SettlerEnds

PyNext ==
  \/ Writers \/ Asks \/ LoadStep \/ Stops \/ PutsEnd \/ Joins
  \/ \E W \in SUBSET Rungs : NotifyDirs(W)
  \/ \E t \in Rungs : DrainStep(t)

\* The threads run, and a close that has begun goes on.
PyFairness ==
  /\ WF_pyVars(LoadStep)
  /\ WF_pyVars(PutsEnd) /\ WF_pyVars(closing # "no" /\ Joins)
  /\ \A t \in Rungs : WF_pyVars(DrainStep(t))

PySpec == PyInit /\ [][PyNext]_pyVars /\ PyFairness

-----------------------------------------------------------------------------
PyTypeOK ==
  /\ content \in [Rungs -> Versions] /\ found \in [Rungs -> Versions]
  /\ current \in [Rungs -> Versions]
  /\ folders \subseteq Rungs /\ inPlace \subseteq Rungs /\ changed \in 0 .. MaxChanges
  /\ system \in {"linux", "darwin", "windows"}
  /\ listening \subseteq Rungs /\ notices \subseteq Rungs /\ unreached \subseteq Rungs
  /\ drain \in [Rungs -> {"none", "starting", "reading", "telling", "gone"}]
  /\ mail \in {"empty", "notice", "end"}
  /\ how \in {"not yet", "loading", "told", "asking", "raised"}
  /\ settler \in {"none", "waiting", "settling", "reading", "gone", "dead"}
  /\ unread \subseteq Rungs /\ missed \subseteq Rungs
  /\ closing \in {"no", "stopped", "joining", "closed"}

\* A report that covers the rung is on its way to the settling thread, from the
\* file that is still being written to the queue, and somebody takes it on.
ReportOnItsWay(r) ==
  \/ r \in inPlace \cap listening /\ Bytewise
  \/ \E t \in Rungs :
       \/ r \in Hearing(t) /\ notices \cap Hearing(t) # {} /\ drain[t] \in {"reading", "telling"}
       \/ drain[t] = "telling"
  \/ mail = "notice" /\ settler \in {"waiting", "settling", "reading"}

\* ... or the load it asks for is to come, or under way: it has still to read
\* the rung, or will post what the file holds.
WillBeRead(r) ==
  \/ ReportOnItsWay(r)
  \/ settler = "settling"
  \/ settler = "reading" /\ (r \in unread \/ found[r] = content[r])

\* The subscription never rests on an answer that is out of date: whenever the
\* notifier, the first load and the threads come between each other, a change
\* that was reported is read, or something is on its way that will read it.
\* Left out are changes nothing reports: of a directory that is not watched,
\* of bytes on macOS, and on Windows before a directory's first read; and a
\* subscription whose rereading thread a file has killed, for it is told nothing.
PyLeavesNothingUnread ==
  how = "told" /\ closing = "no" /\ settler # "dead" =>
    \A r \in Rungs \ missed : current[r] # content[r] => WillBeRead(r)

\* A close that has begun returns, though the queue may be full when it puts
\* its end there, and the threads of the notifier end.  Two things are left out,
\* which the code does not do: with its thread killed by a file, the close waits
\* for room in a queue that nobody empties; and on Windows a thread that was not
\* in its read when the reads were cancelled stays.
PyCloseReturns ==
  closing # "no" ~>
    /\ closing = "closed" \/ settler = "dead"
    /\ \A t \in Rungs : drain[t] \in {"none", "gone"} \/ t \in unreached
=============================================================================
