---------------------------- MODULE UserRegister ----------------------------
(***************************************************************************)
(* What the config editor promises its callers (CONTRACT.md, CFG-W7 and    *)
(* CFG-W8): the user record is a compare-and-set register.  Every call     *)
(* takes effect at one instant between its request and its reply, whatever *)
(* other calls and other writers do.                                       *)
(***************************************************************************)
CONSTANTS
  Contents,     \* normalized user values; equal content is an equal revision
  Unreadable,   \* the record is there and is not a user record
  NoRevision,   \* the empty expected revision
  Workers       \* calls under way

VARIABLES
  record,       \* the content of the user record
  call          \* what each worker is doing, and its answer once it has one

registerVars == <<record, call>>

Idle                  == [at |-> "idle"]
PendingRead           == [at |-> "pending", op |-> "read"]
PendingReplace(x, v)  == [at |-> "pending", op |-> "replace", expected |-> x, values |-> v]
Done(out, c)          == [at |-> "done", outcome |-> out, content |-> c]

\* The answers that carry no content and come with no change of the record.
Refusals == {"forbidden", "unavailable", "invalid_revision", "storage_unavailable",
             "caller_refused"}

RegisterInit ==
  /\ record \in Contents \cup {Unreadable}
  /\ call = [w \in Workers |-> Idle]

RequestRead(w) ==
  /\ call[w] = Idle
  /\ call' = [call EXCEPT ![w] = PendingRead]
  /\ UNCHANGED record

RequestReplace(w, x, v) ==
  /\ call[w] = Idle
  /\ call' = [call EXCEPT ![w] = PendingReplace(x, v)]
  /\ UNCHANGED record

ReadTakesEffect(w) ==
  /\ call[w] = PendingRead /\ record \in Contents
  /\ call' = [call EXCEPT ![w] = Done("read", record)]
  /\ UNCHANGED record

\* The record holds the expected content and now holds the new one.
Apply(w, x, v) ==
  /\ call[w] = PendingReplace(x, v) /\ record = x
  /\ record' = v
  /\ call' = [call EXCEPT ![w] = Done("applied", v)]

\* It holds another content, which the caller is told.
Conflict(w, x, v) ==
  /\ call[w] = PendingReplace(x, v) /\ record \in Contents \ {x}
  /\ call' = [call EXCEPT ![w] = Done("conflict", record)]
  /\ UNCHANGED record

RefuseCall(w) ==
  /\ call[w].at = "pending"
  /\ \E out \in Refusals : call' = [call EXCEPT ![w] = Done(out, Unreadable)]
  /\ UNCHANGED record

Answered(w) ==
  /\ call[w].at = "done"
  /\ call' = [call EXCEPT ![w] = Idle]
  /\ UNCHANGED record

\* Another program writes the record.
OtherWriter ==
  /\ record' \in Contents \cup {Unreadable}
  /\ UNCHANGED call

\* The service dies; its callers learn nothing.
ServiceDies ==
  /\ call' = [w \in Workers |-> Idle]
  /\ UNCHANGED record

RegisterNext ==
  \/ \E w \in Workers :
       \/ RequestRead(w) \/ ReadTakesEffect(w) \/ RefuseCall(w) \/ Answered(w)
       \/ \E x \in Contents \cup {NoRevision}, v \in Contents :
            RequestReplace(w, x, v) \/ Apply(w, x, v) \/ Conflict(w, x, v)
  \/ OtherWriter \/ ServiceDies

RegisterSpec == RegisterInit /\ [][RegisterNext]_registerVars
=============================================================================
