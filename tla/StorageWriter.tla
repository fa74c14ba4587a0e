--------------------------- MODULE StorageWriter ---------------------------
(* The storage writer of BotGate (storage.rs): request handlers hand their *)
(* events to one writer thread through two bounded queues.  A request log  *)
(* that meets a full queue is dropped; a security event or a ban waits for *)
(* room, and a rejected challenge answer waits while its handler holds the *)
(* lock of the challenges (verification.rs, note_challenge_failure).  The  *)
(* writer takes a batch, security events first, and writes it in one       *)
(* transaction; a failed transaction drops its batch.  It stops for good,  *)
(* and closes both queues, when it cannot open the database.               *)
(*                                                                          *)
(* Probes are single events that are followed from their handler to their  *)
(* row; all other events are Noise and have no identity.                   *)
EXTENDS Naturals, Sequences, FiniteSets

CONSTANTS
  Handler,      \* request handlers, each on a thread of its own
  NoOne,        \* the owner of a lock that is free
  Urgent,       \* probes among the security events and ban records
  Log,          \* probes among the request logs
  Noise,        \* any other event
  SecurityCap,  \* sync_channel(256)
  RequestCap,   \* REQUEST_QUEUE
  BatchSize,    \* LOG_BATCH_SIZE
  MaxSends      \* bound: security events of one call

ASSUME WriterAssumptions ==
  /\ NoOne \notin Handler
  /\ Urgent \cap Log = {}
  /\ Noise \notin Urgent \cup Log
  /\ SecurityCap \in Nat \ {0} /\ RequestCap \in Nat \ {0}
  /\ BatchSize \in Nat \ {0} /\ MaxSends \in Nat

VARIABLES
  handlers,   \* what each handler is doing
  lock,       \* the owner of the challenges' lock
  security,   \* the queue of security events and bans
  requests,   \* the queue of request logs
  writer,     \* where the writer thread is
  batch,      \* the events it has taken
  inserted,   \* the probes of the batch that the open transaction holds
  accepted,   \* history: the probes a queue took, in order
  committed,  \* history: the probes of committed transactions, in order
  lost        \* history: the probes that will never be written

history == <<accepted, committed, lost>>
queues == <<security, requests>>
vars == <<handlers, lock, security, requests, writer, batch, inserted,
          history>>

Probe == Urgent \cup Log
UrgentEvent == Urgent \cup {Noise}
LogEvent == Log \cup {Noise}
Elements(s) == {s[i] : i \in DOMAIN s}

Idle == [pc |-> "idle"]
HandlerState ==
  [pc: {"idle"}]
    \cup [pc: {"enter"}, todo: Seq(UrgentEvent)]
    \cup [pc: {"send"}, todo: Seq(UrgentEvent), locked: BOOLEAN]

TypeOK ==
  /\ handlers \in [Handler -> HandlerState]
  /\ lock \in Handler \cup {NoOne}
  /\ security \in Seq(UrgentEvent) /\ Len(security) <= SecurityCap
  /\ requests \in Seq(LogEvent) /\ Len(requests) <= RequestCap
  /\ writer \in {"opening", "receive", "fill", "top", "write", "clean", "gone"}
  /\ batch \in Seq(Probe \cup {Noise}) /\ Len(batch) <= BatchSize
  /\ inserted \in Seq(Probe)
  /\ accepted \in Seq(Probe) /\ committed \in Seq(Probe)
  /\ lost \subseteq Probe

Init ==
  /\ handlers = [h \in Handler |-> Idle]
  /\ lock = NoOne
  /\ security = <<>> /\ requests = <<>>
  /\ writer = "opening" /\ batch = <<>> /\ inserted = <<>>
  /\ accepted = <<>> /\ committed = <<>>
  /\ lost = {}

Become(h, hs) == handlers' = [handlers EXCEPT ![h] = hs]
Todo(h) == IF handlers[h].pc = "idle" THEN <<>> ELSE handlers[h].todo

\* A probe is one event: it is made once.
Made == Elements(accepted) \cup lost
          \cup UNION {Elements(Todo(h)) : h \in Handler}
Fresh == Probe \ Made

\* The history takes probes only.
Noted(s, e) == IF e \in Probe THEN Append(s, e) ELSE s

---------------------------------------------------------------------------
(* The handlers.                                                            *)

\* The events one call sends: none, a rejected answer, or a ban and its event.
Calls ==
  {s \in UNION {[1..n -> (Fresh \cap Urgent) \cup {Noise}] : n \in 0..MaxSends} :
     \A i, j \in DOMAIN s : s[i] = s[j] => i = j \/ s[i] = Noise}

\* An answer to a challenge: it works under the lock of the challenges.
SubmitAnswer(h, todo) ==
  /\ handlers[h] = Idle
  /\ Become(h, [pc |-> "enter", todo |-> todo])
  /\ UNCHANGED <<lock, queues, writer, batch, inserted, history>>

AcquireChallenges(h) ==
  /\ handlers[h].pc = "enter"
  /\ lock = NoOne
  /\ lock' = h
  /\ Become(h, [pc |-> "send", todo |-> handlers[h].todo, locked |-> TRUE])
  /\ UNCHANGED <<queues, writer, batch, inserted, history>>

\* Any other request that the risk engine bans: no lock is held.
BanAddress(h, todo) ==
  /\ handlers[h] = Idle
  /\ todo # <<>>
  /\ Become(h, [pc |-> "send", todo |-> todo, locked |-> FALSE])
  /\ UNCHANGED <<lock, queues, writer, batch, inserted, history>>

NeverClosed == FALSE                                              \* mutant
Closed == writer = "gone"

\* record_security and record_ban: send blocks until there is room, and fails
\* at once when the writer has dropped its end.
Send(h) ==
  LET hs == handlers[h]
      e == Head(hs.todo) IN
  /\ hs.pc = "send"
  /\ hs.todo # <<>>
  /\ Become(h, [hs EXCEPT !.todo = Tail(hs.todo)])
  /\ \/ /\ Closed
        /\ lost' = lost \cup ({e} \cap Probe)
        /\ UNCHANGED <<security, accepted>>
     \/ /\ ~Closed
        /\ Len(security) < SecurityCap
        /\ security' = Append(security, e)
        /\ accepted' = Noted(accepted, e)
        /\ UNCHANGED lost
  /\ UNCHANGED <<lock, requests, writer, batch, inserted, committed>>

LockKept(h) == lock                                               \* mutant
Released(h) == IF handlers[h].locked THEN NoOne ELSE lock

Return(h) ==
  /\ handlers[h].pc = "send"
  /\ handlers[h].todo = <<>>
  /\ lock' = Released(h)
  /\ Become(h, Idle)
  /\ UNCHANGED <<queues, writer, batch, inserted, history>>

\* record_request: a full or closed queue drops the log.
RecordRequest(h, e) ==
  /\ handlers[h] = Idle
  /\ e \in LogEvent
  /\ e = Noise \/ e \in Fresh
  /\ IF ~Closed /\ Len(requests) < RequestCap
     THEN /\ requests' = Append(requests, e)
          /\ accepted' = Noted(accepted, e)
          /\ UNCHANGED lost
     ELSE /\ lost' = lost \cup ({e} \cap Probe)
          /\ UNCHANGED <<requests, accepted>>
  /\ UNCHANGED <<handlers, lock, security, writer, batch, inserted, committed>>

---------------------------------------------------------------------------
(* The writer thread: writer_loop.                                          *)

OpenDatabase ==
  /\ writer = "opening"
  /\ writer' = "receive"
  /\ UNCHANGED <<handlers, lock, queues, batch, inserted, history>>

\* The thread ends; its ends of the queues go with it.
CannotOpen ==
  /\ writer = "opening"
  /\ writer' = "gone"
  /\ lost' = lost \cup ((Elements(security) \cup Elements(requests)) \cap Probe)
  /\ security' = <<>> /\ requests' = <<>>
  /\ UNCHANGED <<handlers, lock, batch, inserted, accepted, committed>>

Taken(e) == Append(batch, e)

TakeSecurity ==
  /\ security # <<>>
  /\ batch' = Taken(Head(security))
  /\ security' = Tail(security)

\* recv_timeout: an event, or none for a second.
Receive ==
  /\ writer = "receive"
  /\ \/ TakeSecurity
     \/ security = <<>> /\ UNCHANGED <<security, batch>>
  /\ writer' = "fill"
  /\ UNCHANGED <<handlers, lock, requests, inserted, history>>

RoomForOneMore == Len(batch) <= BatchSize                         \* mutant
Room == Len(batch) < BatchSize

Fill ==
  /\ writer = "fill"
  /\ \/ Room /\ TakeSecurity /\ UNCHANGED writer
     \/ /\ ~Room \/ security = <<>>
        /\ writer' = "top"
        /\ UNCHANGED <<security, batch>>
  /\ UNCHANGED <<handlers, lock, requests, inserted, history>>

TopUp ==
  /\ writer = "top"
  /\ \/ /\ Room
        /\ requests # <<>>
        /\ batch' = Taken(Head(requests))
        /\ requests' = Tail(requests)
        /\ UNCHANGED writer
     \/ /\ ~Room \/ requests = <<>>
        /\ writer' = IF batch = <<>> THEN "clean" ELSE "write"
        /\ UNCHANGED <<requests, batch>>
  /\ UNCHANGED <<handlers, lock, security, inserted, history>>

\* write_batch: the inserts of one transaction.
Insert ==
  /\ writer = "write"
  /\ batch # <<>>
  /\ inserted' = Noted(inserted, Head(batch))
  /\ batch' = Tail(batch)
  /\ UNCHANGED <<handlers, lock, queues, writer, history>>

Commit ==
  /\ writer = "write"
  /\ batch = <<>>
  /\ committed' = committed \o inserted
  /\ inserted' = <<>>
  /\ writer' = "clean"
  /\ UNCHANGED <<handlers, lock, queues, batch, accepted, lost>>

PartlyWritten == committed \o inserted                             \* mutant
RolledBack == committed

\* An insert or the commit fails: the transaction is rolled back, the error
\* ignored and the whole batch forgotten.
WriteFails ==
  /\ writer = "write"
  /\ lost' = lost \cup ((Elements(batch) \cup Elements(inserted)) \cap Probe)
  /\ committed' = RolledBack
  /\ batch' = <<>>
  /\ inserted' = <<>>
  /\ writer' = "clean"
  /\ UNCHANGED <<handlers, lock, queues, accepted>>

\* cleanup: it deletes old rows, or fails; the model has no rows.
Cleanup ==
  /\ writer = "clean"
  /\ writer' = "receive"
  /\ UNCHANGED <<handlers, lock, queues, batch, inserted, history>>

---------------------------------------------------------------------------
(* The end of the process.                                                  *)

\* The process ends, at any point, and starts again.
Restart ==
  /\ lost' = lost \cup ((Elements(security) \cup Elements(requests)
                          \cup Elements(batch) \cup Elements(inserted)
                          \cup UNION {Elements(Todo(h)) : h \in Handler}) \cap Probe)
  /\ handlers' = [h \in Handler |-> Idle]
  /\ lock' = NoOne
  /\ security' = <<>> /\ requests' = <<>>
  /\ batch' = <<>> /\ inserted' = <<>>
  /\ writer' = "opening"
  /\ UNCHANGED <<accepted, committed>>

WriterStep ==
  \/ OpenDatabase \/ CannotOpen
  \/ Receive \/ Fill \/ TopUp
  \/ Insert \/ Commit \/ WriteFails \/ Cleanup

Next ==
  \/ \E h \in Handler :
       \/ \E todo \in Calls : SubmitAnswer(h, todo) \/ BanAddress(h, todo)
       \/ AcquireChallenges(h) \/ Send(h) \/ Return(h)
       \/ \E e \in LogEvent : RecordRequest(h, e)
  \/ WriterStep
  \/ Restart

\* The writer is a thread that nothing blocks for ever, and so is a handler
\* that has returned from its last send.  The queue and the mutex wake a
\* waiting thread whenever there is room or the lock is free; a newcomer may
\* be faster, but not for ever.
Fairness ==
  /\ WF_vars(WriterStep)
  /\ \A h \in Handler : /\ WF_vars(Return(h))
                        /\ SF_vars(Send(h))
                        /\ SF_vars(AcquireChallenges(h))

Spec == Init /\ [][Next]_vars
FairSpec == Spec /\ Fairness

---------------------------------------------------------------------------
(* Properties.                                                              *)

InFlight == Elements(security) \cup Elements(requests)
              \cup Elements(batch) \cup Elements(inserted)
Settled == Elements(committed) \cup lost

\* Every event a queue took is in a queue, in the batch, in a committed
\* transaction or in one of the losses the code accepts (a failed batch, a
\* writer that never started, the end of the process), and never in two of
\* these places at once.
EachEventOnce ==
  /\ Elements(accepted) \subseteq InFlight \cup Settled
  /\ InFlight \cap Settled \subseteq {Noise}
  /\ Elements(committed) \cap lost = {}
  /\ \A s \in {security, requests, batch, inserted, committed} :
       \A i, j \in DOMAIN s : s[i] = s[j] => i = j \/ s[i] = Noise

\* Of two probes of s, a stands before b.
Before(s, a, b) == \E i, j \in DOMAIN s : i < j /\ s[i] = a /\ s[j] = b

\* Events of one queue are committed in the order in which the queue took
\* them: what was accepted and not lost is on one line, the committed events,
\* the open transaction, the batch and the queue, and nobody on it overtakes.
InOrder ==
  \A kind \in {Urgent, Log} :
    LET line == committed \o inserted \o batch
                  \o (IF kind = Urgent THEN security ELSE requests)
        alive == (Elements(accepted) \cap kind) \ lost
    IN  /\ Elements(line) \cap kind = alive
        /\ \A a, b \in alive : Before(accepted, a, b) <=> Before(line, a, b)

WaitsForWriter(h) ==
  handlers[h].pc = "send" /\ Len(security) = SecurityCap /\ ~Closed
GoesOn(h) ==
  \/ handlers[h].pc = "enter" /\ lock = NoOne
  \/ /\ handlers[h].pc = "send"
     /\ handlers[h].todo = <<>> \/ Closed \/ Len(security) < SecurityCap

\* A call that cannot go on waits for the writer, at most by way of the one
\* handler that has the lock of the challenges.
WaitsEndAtWriter ==
  \A h \in Handler : handlers[h].pc # "idle" =>
    \/ GoesOn(h) \/ WaitsForWriter(h)
    \/ /\ handlers[h].pc = "enter" /\ lock \in Handler \ {h}
       /\ GoesOn(lock) \/ WaitsForWriter(lock)

\* A handler that waits, for the lock of the challenges or for room in the
\* queue, is not stuck: every call returns, whatever fails in the writer.
CallsReturn ==
  \A h \in Handler : handlers[h].pc # "idle" ~> handlers[h].pc = "idle"

\* A security event that the queue took does not wait for ever.
EventsSettle ==
  \A p \in Urgent : p \in Elements(accepted) ~> p \in Settled

\* The writer implements the log of EventLog: a transaction writes the oldest
\* events of each queue, all of them or none, a failure drops no others, and
\* what is lost is never written.
Promise == INSTANCE EventLog WITH
  Lanes <- {Urgent, Log}, Batch <- BatchSize, written <- committed

ImplementsLog == Promise!Spec
===========================================================================
