---------------------------- MODULE EditorClient ----------------------------
(***************************************************************************)
(* client.Editor (go/client/editor.go) before the workers of UserEditor.    *)
(* A call of the client ends after its two seconds or with its caller's     *)
(* context; nothing tells the worker, whose own context is the host's, and  *)
(* the replacement goes on.  A caller may then ask again with the revision  *)
(* it has: several attempts of one edit are under way at once.             *)
(***************************************************************************)
EXTENDS UserEditor

CONSTANTS
  Clients,  \* the callers of ReplaceUser that are followed
  Read,     \* bound: the revisions they have read
  Wanted,   \* bound: the contents they want
  Open,     \* bound: the workers that may serve anybody else
  Nobody    \* no client, no worker

ASSUME ClientAssumption ==
  /\ Nobody \notin Clients \cup Workers
  /\ Read \subseteq Contents /\ Wanted \subseteq Contents /\ Open \subseteq Workers

VARIABLES
  edit,      \* the revision and the content of each client's edit
  waitsFor,  \* the worker whose answer the client still waits for
  told,      \* what the last call of the edit returned to the caller
  serves,    \* the client whose request a worker has, waited for or not
  wrote,     \* history: the attempt last made has written the record
  standing   \* history: an attempt of the edit has written, and nobody since

clientVars == <<edit, waitsFor, told, serves, wrote, standing>>
allVars    == <<vars, clientVars>>

NoEdit == [expected |-> NoRevision, values |-> Empty]

ClientInit ==
  /\ Init
  /\ edit = [c \in Clients |-> NoEdit]
  /\ waitsFor = [c \in Clients |-> Nobody]
  /\ told = [c \in Clients |-> "nothing"]
  /\ serves = [w \in Workers |-> Nobody]
  /\ wrote = [c \in Clients |-> FALSE]
  /\ standing = [c \in Clients |-> FALSE]

-----------------------------------------------------------------------------
Send(c, w) ==
  /\ waitsFor[c] = Nobody
  /\ CallReplace(w, edit'[c].expected, edit'[c].values)
  /\ waitsFor' = [waitsFor EXCEPT ![c] = w]
  /\ serves' = [serves EXCEPT ![w] = c]
  /\ told' = [told EXCEPT ![c] = "nothing"]
  /\ wrote' = [wrote EXCEPT ![c] = FALSE]

\* ReplaceUserContext with what the caller has read and wants.  Bound: a new
\* edit is begun when no attempt of the last is left behind.
BeginEdit(c, w, x, v) ==
  /\ \A u \in Workers : serves[u] # c
  /\ edit' = [edit EXCEPT ![c] = [expected |-> x, values |-> v]]
  /\ standing' = [standing EXCEPT ![c] = FALSE]
  /\ Send(c, w)

\* A call of somebody who is not followed.
OthersCall(w) ==
  /\ w \in Open
  /\ \/ CallRead(w)
     \/ \E x \in Contents \cup {NoRevision}, v \in Contents : CallReplace(w, x, v)
  /\ UNCHANGED clientVars

\* The same edit again: nothing but its revision says that it is the same.
Retry(c, w) ==
  /\ told[c] \in {"unresolved", "unavailable"}
  /\ UNCHANGED <<edit, standing>>
  /\ Send(c, w)

\* A bug the run rules out: an ended wait is reported as a refusal.
TimeOutRefused(c) ==
  /\ waitsFor[c] # Nobody
  /\ waitsFor' = [waitsFor EXCEPT ![c] = Nobody]
  /\ told' = [told EXCEPT ![c] = "refused"]
  /\ UNCHANGED <<vars, edit, serves, wrote, standing>>

\* Two seconds, the caller's context, or a connection that broke: "A waiting
\* error leaves replacement unresolved."
TimeOut(c) ==
  /\ waitsFor[c] # Nobody
  /\ waitsFor' = [waitsFor EXCEPT ![c] = Nobody]
  /\ told' = [told EXCEPT ![c] = "unresolved"]
  /\ UNCHANGED <<vars, edit, serves, wrote, standing>>

\* The answer as the client hands it on.
Told(outcome) ==
  IF outcome \in {"applied", "unavailable"} THEN outcome ELSE "refused"

\* The worker replies to whoever still waits.
Deliver(w) ==
  /\ Reply(w)
  /\ serves' = [serves EXCEPT ![w] = Nobody]
  /\ waitsFor' = [c \in Clients |-> IF waitsFor[c] = w THEN Nobody ELSE waitsFor[c]]
  /\ told' = [c \in Clients |-> IF waitsFor[c] = w THEN Told(reply[w].outcome) ELSE told[c]]
  /\ UNCHANGED <<edit, wrote, standing>>

\* The write of a worker, and whose it was.
Apply(w) ==
  /\ WriteApplies(w)
  /\ wrote' = [c \in Clients |-> wrote[c] \/ waitsFor[c] = w]
  /\ standing' = [c \in Clients |->
       serves[w] = c \/ (standing[c] /\ Content(store') = Content(store))]
  /\ UNCHANGED <<edit, waitsFor, told, serves>>

\* The steps that neither write nor reply.
WorkerGoesOn(w) ==
  /\ \/ ReadUser(w) \/ Admit(w) \/ AskPolicy(w) \/ Prepare(w) \/ ReadBase(w)
     \/ WriteMoved(w) \/ WriteFails(w) \/ Announce(w)
  /\ UNCHANGED clientVars

OthersWrite(b) ==
  /\ ForeignWrite(b)
  /\ standing' = [c \in Clients |-> standing[c] /\ Content(b) = Content(store)]
  /\ UNCHANGED <<edit, waitsFor, told, serves, wrote>>

\* Whoever waited finds the connection closed.
ServiceCrash ==
  /\ Crash
  /\ serves' = [w \in Workers |-> Nobody]
  /\ waitsFor' = [c \in Clients |-> Nobody]
  /\ told' = [c \in Clients |-> IF waitsFor[c] = Nobody THEN told[c] ELSE "unresolved"]
  /\ UNCHANGED <<edit, wrote, standing>>

WorkerRuns(w) == WorkerGoesOn(w) \/ Apply(w) \/ Deliver(w)

ClientNext ==
  \/ \E w \in Workers :
       \/ WorkerRuns(w)
       \/ OthersCall(w)
       \/ \E c \in Clients :
            \/ Retry(c, w)
            \/ \E x \in Read, v \in Wanted : BeginEdit(c, w, x, v)
  \/ \E c \in Clients : TimeOut(c)
  \/ \E b \in Bytes : OthersWrite(b)
  \/ ServiceCrash

ClientSpec ==
  /\ ClientInit /\ [][ClientNext]_allVars
  /\ \A w \in Workers : WF_allVars(WorkerRuns(w))

-----------------------------------------------------------------------------
\* What a caller is told for certain is what its attempt did: applied means
\* that this attempt wrote the record, and a refusal that it did not.  A wait that ended says neither.
ToldTruth ==
  \A c \in Clients :
    /\ told[c] = "applied" => wrote[c]
    /\ told[c] \in {"refused", "unavailable"} => ~wrote[c]

\* Attempts of one edit that carry one revision write it once: an attempt left
\* behind, or its retry, writes a second time only if somebody else has changed
\* the record in between and then restored what the edit expects (CFG-W10: the
\* revision is no operation identity).
AppliedOnce ==
  [][\A w \in Workers, c \in Clients :
       serves[w] = c /\ pc[w] = "write" /\ pc'[w] = "announce" /\ standing[c]
         => edit[c].expected = edit[c].values]_allVars
=============================================================================
