------------------------------- MODULE Bans -------------------------------
(***************************************************************************)
(* Temporary bans: the map of backend/src/security.rs that requests are     *)
(* checked against, the bans table of backend/src/storage.rs that outlives  *)
(* the process, and the three ways they change.                             *)
(*                                                                         *)
(*   - SecurityState::ban, from a request whose risk is too high: the map   *)
(*     first, then a record and an event through the bounded security queue *)
(*     (a full queue blocks the request) to the SQLite writer thread, which *)
(*     commits batches.                                                     *)
(*   - admin_save_ban and admin_delete_ban: the table first, in a           *)
(*     transaction of their own, then the map.                              *)
(*   - a restart: the queue, the batch and every request in flight are      *)
(*     gone, and the map is loaded from the table.                          *)
(* The writer opens the database for itself; where it cannot, it returns,   *)
(* and every send fails unnoticed until the next start.                     *)
(*                                                                         *)
(* Of the table only the active row of an address matters, and of a row its *)
(* expiry; 0 is no ban.  Bans and storage are enabled, and the wall clock   *)
(* and the monotonic clock advance together.  ban() reads the clock several *)
(* times with nothing in between that waits: that is one reading.           *)
(***************************************************************************)
EXTENDS Integers, Sequences, FiniteSets

CONSTANTS Ip,
          Handler,   \* concurrent request handlers
          Admin,     \* concurrent administration requests
          Duration,  \* security.ban.duration_secs
          Term,      \* durations an administrator may ask for
          QueueSize, \* capacity of the security queue (256)
          BatchSize, \* LOG_BATCH_SIZE (100)
          MaxBlock,  \* bound: seconds a request waits for the queue
          MaxClock   \* bound: the last second

ASSUME ConfigAssumption ==
  /\ Duration \in Nat \ {0}
  /\ Term \subseteq Nat \ {0}
  /\ QueueSize \in Nat \ {0}
  /\ BatchSize \in Nat \ {0} /\ BatchSize <= QueueSize
  /\ MaxBlock \in Nat
  /\ MaxClock \in Nat

VARIABLES clock,
          bans,      \* SecurityState.bans: when the address's ban expires
          table,     \* the bans table: the expiry of its active row
          queue,     \* the security queue
          writer,    \* the writer thread: opening the database, running, or gone
          batch,     \* what the writer has received and not yet written
          handlers,  \* requests that have passed the ban check
          admins,    \* administration requests between table and map
          decided,   \* history: the latest expiry ever decided for an address
          touched,   \* history: addresses an administrator acted on
          standing,  \* history: what the last administrator's decision promised
          crossed,   \* history: addresses where it met another decision in flight
          lost       \* history: addresses whose latest ban lost a record

history == <<decided, touched, standing, crossed, lost>>
vars == <<clock, bans, table, queue, writer, batch, handlers, admins, history>>

\* StorageEvent::Ban and StorageEvent::Security.
BanRecord == [type: {"ban"}, ip: Ip, expires_at: Nat]
SecurityEvent == [type: {"event"}]
Event == [type |-> "event"]
StorageEvent == BanRecord \cup SecurityEvent

Idle == [pc |-> "idle"]
HandlerState ==
  [pc: {"idle", "event"}]
    \cup [pc: {"served"}, ip: Ip]
    \cup [pc: {"record"}, ip: Ip, expires_at: Nat]

\* A promise: until when the address is banned, or not banned at all, or nothing.
Lifted == -1
Nothing == 0

AdminState ==
  [pc: {"idle"}]
    \cup [pc: {"apply"}, ip: Ip, expires_at: Nat]
    \cup [pc: {"lift"}, ip: Ip]

TypeOK ==
  /\ clock \in Nat
  /\ bans \in [Ip -> Nat]
  /\ table \in [Ip -> Nat]
  /\ queue \in Seq(StorageEvent) /\ Len(queue) <= QueueSize
  /\ writer \in {"opening", "running", "gone"}
  /\ batch \in Seq(StorageEvent) /\ Len(batch) <= BatchSize
  /\ handlers \in [Handler -> HandlerState]
  /\ admins \in [Admin -> AdminState]
  /\ decided \in [Ip -> Nat]
  /\ touched \subseteq Ip /\ crossed \subseteq Ip /\ lost \subseteq Ip
  /\ standing \in [Ip -> Int]

Init ==
  /\ clock = 0
  /\ bans = [ip \in Ip |-> 0]
  /\ table = [ip \in Ip |-> 0]
  /\ queue = <<>> /\ batch = <<>> /\ writer = "opening"
  /\ handlers = [h \in Handler |-> Idle]
  /\ admins = [a \in Admin |-> Idle]
  /\ decided = [ip \in Ip |-> 0]
  /\ touched = {} /\ crossed = {} /\ lost = {}
  /\ standing = [ip \in Ip |-> Nothing]

\* The entries that have not expired.
Unexpired(f) == [ip \in Ip |-> IF f[ip] > clock THEN f[ip] ELSE 0]

---------------------------------------------------------------------------
(* A request: active_ban, then whatever it is served, then perhaps a ban.   *)

\* active_ban drops what has expired; a banned address goes no further.
Check(h, ip) ==
  /\ handlers[h] = Idle
  /\ bans' = Unexpired(bans)
  /\ handlers' = [handlers EXCEPT ![h] =
       IF bans[ip] > clock THEN Idle ELSE [pc |-> "served", ip |-> ip]]
  /\ UNCHANGED <<clock, table, queue, writer, batch, admins, history>>

\* A request with a valid cookie is not checked; it may fail a challenge yet.
Pass(h, ip) ==
  /\ handlers[h] = Idle
  /\ handlers' = [handlers EXCEPT ![h] = [pc |-> "served", ip |-> ip]]
  /\ UNCHANGED <<clock, bans, table, queue, writer, batch, admins, history>>

\* The request ends without reaching the ban threshold.
Serve(h) ==
  /\ handlers[h].pc = "served"
  /\ handlers' = [handlers EXCEPT ![h] = Idle]
  /\ UNCHANGED <<clock, bans, table, queue, writer, batch, admins, history>>

\* ban(): the map is changed at once, whatever it held.
Ban(h) ==
  LET ip == handlers[h].ip
      expires_at == clock + Duration IN
  /\ handlers[h].pc = "served"
  /\ bans' = [bans EXCEPT ![ip] = expires_at]
  /\ handlers' = [handlers EXCEPT ![h] =
       [pc |-> "record", ip |-> ip, expires_at |-> expires_at]]
  /\ decided' = [decided EXCEPT ![ip] =
       IF decided[ip] < expires_at THEN expires_at ELSE decided[ip]]
  /\ standing' = [standing EXCEPT ![ip] = IF @ = Lifted THEN Nothing ELSE @]
  /\ crossed' = crossed \cup (IF standing[ip] > clock THEN {ip} ELSE {})
  /\ lost' = lost \ {ip}
  /\ UNCHANGED <<clock, table, queue, writer, batch, admins, touched>>

\* SyncSender::send waits while the queue is full.
RoomForOneMore == Len(queue) <= QueueSize                         \* mutant
Room == Len(queue) < QueueSize

\* record_ban.
Recorded(h) ==
  Append(queue, [type |-> "ban", ip |-> handlers[h].ip,
                 expires_at |-> handlers[h].expires_at])

RecordBan(h) ==
  /\ handlers[h].pc = "record"
  /\ writer # "gone" /\ Room
  /\ queue' = Recorded(h)
  /\ handlers' = [handlers EXCEPT ![h] = [pc |-> "event"]]
  /\ UNCHANGED <<clock, bans, table, writer, batch, admins, history>>

\* Nobody receives: the send fails, a waiting one too, and its error is dropped.
BanUnsent(h) ==
  /\ handlers[h].pc = "record"
  /\ writer = "gone"
  /\ handlers' = [handlers EXCEPT ![h] = [pc |-> "event"]]
  /\ lost' = lost \cup {handlers[h].ip}
  /\ UNCHANGED <<clock, bans, table, queue, writer, batch, admins, decided, touched,
                 standing, crossed>>

\* record_security of the ban: it takes a place in the queue and nothing else.
RecordSecurity(h) ==
  /\ handlers[h].pc = "event"
  /\ writer # "gone" /\ Room
  /\ queue' = Append(queue, Event)
  /\ handlers' = [handlers EXCEPT ![h] = Idle]
  /\ UNCHANGED <<clock, bans, table, writer, batch, admins, history>>

EventUnsent(h) ==
  /\ handlers[h].pc = "event"
  /\ writer = "gone"
  /\ handlers' = [handlers EXCEPT ![h] = Idle]
  /\ UNCHANGED <<clock, bans, table, queue, writer, batch, admins, history>>

---------------------------------------------------------------------------
(* The writer thread: open, receive, write in one transaction, clean up.  A *)
(* batch is no longer than the queue, so an event that arrives while it is  *)
(* received could as well have arrived before: receiving is one step.       *)

Records(ip, s) == {i \in DOMAIN s : s[i].type = "ban" /\ s[i].ip = ip}

OpenDatabase ==
  /\ writer = "opening"
  /\ writer' = "running"
  /\ UNCHANGED <<clock, bans, table, queue, batch, handlers, admins, history>>

\* The thread returns, and what is queued goes with its receiver.
CannotOpen ==
  /\ writer = "opening"
  /\ writer' = "gone"
  /\ queue' = <<>>
  /\ lost' = lost \cup {ip \in Ip : Records(ip, queue) # {}}
  /\ UNCHANGED <<clock, bans, table, batch, handlers, admins, decided, touched, standing,
                 crossed>>

Receive(n) ==
  /\ writer = "running" /\ batch = <<>>
  /\ batch' = SubSeq(queue, 1, n)
  /\ queue' = SubSeq(queue, n + 1, Len(queue))
  /\ UNCHANGED <<clock, bans, table, writer, handlers, admins, history>>

\* Each record of a batch replaces the active row, so the last one stays.
LastRecord(ip, s) == CHOOSE i \in Records(ip, s) : \A j \in Records(ip, s) : j <= i
FirstRecord(ip, s) == CHOOSE i \in Records(ip, s) : \A j \in Records(ip, s) : j >= i

FirstStays(f, s) ==                                               \* mutant
  [ip \in Ip |-> IF Records(ip, s) = {} THEN f[ip]
                 ELSE s[FirstRecord(ip, s)].expires_at]
Written(f, s) ==
  [ip \in Ip |-> IF Records(ip, s) = {} THEN f[ip]
                 ELSE s[LastRecord(ip, s)].expires_at]

\* write_batch commits, then cleanup.
Commit ==
  /\ batch # <<>>
  /\ table' = Unexpired(Written(table, batch))
  /\ batch' = <<>>
  /\ UNCHANGED <<clock, bans, queue, writer, handlers, admins, history>>

\* write_batch fails: its error is dropped and so is the whole batch.
Fail ==
  /\ batch # <<>>
  /\ table' = Unexpired(table)
  /\ batch' = <<>>
  /\ lost' = lost \cup {ip \in Ip : Records(ip, batch) # {}}
  /\ UNCHANGED <<clock, bans, queue, writer, handlers, admins, decided, touched, standing,
                 crossed>>

\* A second without events: only the cleanup.
CleanUp ==
  /\ writer = "running" /\ batch = <<>> /\ queue = <<>>
  /\ table' = Unexpired(table)
  /\ UNCHANGED <<clock, bans, queue, writer, batch, handlers, admins, history>>

---------------------------------------------------------------------------
(* The administrator.                                                       *)

\* The record of a request's ban has not reached the table.
Pending(ip) ==
  \/ \E h \in Handler : handlers[h].pc = "record" /\ handlers[h].ip = ip
  \/ Records(ip, queue) # {}
  \/ Records(ip, batch) # {}

\* An administrator's call has changed the table and not yet the map.
Editing(ip) == \E a \in Admin : admins[a].pc # "idle" /\ admins[a].ip = ip

Crossed(ip) ==
  IF Pending(ip) \/ Editing(ip) THEN crossed \cup {ip} ELSE crossed \ {ip}

\* admin_save_ban: Storage::set_ban ...
SetBan(a, ip, term) ==
  LET expires_at == clock + term IN
  /\ admins[a] = Idle
  /\ table' = [table EXCEPT ![ip] = expires_at]
  /\ admins' = [admins EXCEPT ![a] =
       [pc |-> "apply", ip |-> ip, expires_at |-> expires_at]]
  /\ decided' = [decided EXCEPT ![ip] =
       IF decided[ip] < expires_at THEN expires_at ELSE decided[ip]]
  /\ touched' = touched \cup {ip}
  /\ standing' = [standing EXCEPT ![ip] = expires_at]
  /\ crossed' = Crossed(ip)
  /\ UNCHANGED <<clock, bans, queue, writer, batch, handlers, lost>>

LongerStays(ip, expires_at) ==                                    \* mutant
  IF bans[ip] > expires_at THEN bans[ip] ELSE expires_at
Armed(ip, expires_at) == IF expires_at > clock THEN expires_at ELSE clock

\* ... then set_manual_ban, for what remains of it.
SetManualBan(a) ==
  LET ip == admins[a].ip IN
  /\ admins[a].pc = "apply"
  /\ bans' = [bans EXCEPT ![ip] = Armed(ip, admins[a].expires_at)]
  /\ admins' = [admins EXCEPT ![a] = Idle]
  /\ UNCHANGED <<clock, table, queue, writer, batch, handlers, history>>

\* admin_delete_ban: Storage::clear_ban ...
ClearBan(a, ip) ==
  /\ admins[a] = Idle
  /\ table' = [table EXCEPT ![ip] = 0]
  /\ admins' = [admins EXCEPT ![a] = [pc |-> "lift", ip |-> ip]]
  /\ touched' = touched \cup {ip}
  /\ standing' = [standing EXCEPT ![ip] = Lifted]
  /\ crossed' = Crossed(ip)
  /\ UNCHANGED <<clock, bans, queue, writer, batch, handlers, decided, lost>>

\* ... then clear_ban_entry.
ClearBanEntry(a) ==
  LET ip == admins[a].ip IN
  /\ admins[a].pc = "lift"
  /\ bans' = [bans EXCEPT ![ip] = 0]
  /\ admins' = [admins EXCEPT ![a] = Idle]
  /\ UNCHANGED <<clock, table, queue, writer, batch, handlers, history>>

---------------------------------------------------------------------------
(* The environment.                                                         *)

\* build_state arms each loaded ban for what remains of it.
ArmedAnew == [ip \in Ip |-> IF table[ip] > clock THEN clock + Duration ELSE 0]  \* mutant
Loaded == Unexpired(table)

\* A crash or a stop, either way without draining the queue, and a start.  A
\* lift in progress is never answered.
Restart ==
  /\ bans' = Loaded
  /\ queue' = <<>> /\ batch' = <<>> /\ writer' = "opening"
  /\ lost' = lost \cup {ip \in Ip : Pending(ip)}
  /\ handlers' = [h \in Handler |-> Idle]
  /\ admins' = [a \in Admin |-> Idle]
  /\ standing' = [ip \in Ip |->
       IF \E a \in Admin : admins[a].pc = "lift" /\ admins[a].ip = ip
       THEN Nothing ELSE standing[ip]]
  /\ UNCHANGED <<clock, table, decided, touched, crossed>>

Blocked(h) == handlers[h].pc = "record"

Tick ==
  /\ clock < MaxClock
  /\ \A h \in Handler : Blocked(h) =>
       clock + Duration < handlers[h].expires_at + MaxBlock
  /\ clock' = clock + 1
  /\ UNCHANGED <<bans, table, queue, writer, batch, handlers, admins, history>>

RequestStep(h) ==
  \/ \E ip \in Ip : Check(h, ip) \/ Pass(h, ip)
  \/ Serve(h) \/ Ban(h)
  \/ RecordBan(h) \/ BanUnsent(h) \/ RecordSecurity(h) \/ EventUnsent(h)

WriterStep ==
  \/ OpenDatabase \/ CannotOpen
  \/ \E n \in 1..BatchSize : n <= Len(queue) /\ Receive(n)
  \/ Commit \/ Fail \/ CleanUp

AdminStep(a) ==
  \/ \E ip \in Ip : ClearBan(a, ip) \/ \E term \in Term : SetBan(a, ip, term)
  \/ SetManualBan(a) \/ ClearBanEntry(a)

Next ==
  \/ \E h \in Handler : RequestStep(h)
  \/ WriterStep
  \/ \E a \in Admin : AdminStep(a)
  \/ Tick
  \/ Restart

Spec == Init /\ [][Next]_vars

---------------------------------------------------------------------------
(* Properties.                                                              *)

\* No ban outlives the longest that was ever decided for its address, however
\* often it is written, loaded and armed again.
TermRespected ==
  \A ip \in Ip :
    /\ bans[ip] > clock => bans[ip] <= decided[ip]
    /\ table[ip] <= decided[ip]

\* docs/SECURITY.md: active bans are persisted.  Until its term is over, a ban
\* of a request is in force, through every restart, and in the table or on its
\* way there, unless a record of it was lost: with a batch that failed, with a
\* writer that could not open the database, or in the queue at a stop.  Two
\* requests of one address may queue their records in the other order than they
\* decide, so the row that stays may expire earlier, by the time one was blocked.
BansPersisted ==
  \A ip \in Ip \ (touched \cup lost) : decided[ip] > clock + MaxBlock =>
    /\ bans[ip] + MaxBlock >= decided[ip]
    /\ Pending(ip) \/ table[ip] + MaxBlock >= decided[ip]

\* Once an administrator's lift of a ban is answered, the address is not banned
\* before somebody decides a ban again.  README.md: dashboard changes are
\* persisted.
LiftedStaysLifted ==
  (\A a \in Admin : admins[a] = Idle) =>
    \A ip \in Ip : standing[ip] = Lifted => bans[ip] <= clock

\* Once an administrator's ban is answered, the address is banned for the term
\* that was asked for, or until an administrator decides otherwise.
AdminTermStands ==
  (\A a \in Admin : admins[a] = Idle) =>
    \A ip \in Ip : standing[ip] > clock => bans[ip] >= standing[ip]

\* An administrator's decision, to ban or to lift, is what both the map and the
\* table say from the answer on, through restarts, until the next decision:
\* unless the record of an automatic ban was on its way at the time, or a call
\* of another administrator, or a request that was let in overrides the ban.
EditsStand ==
  \A ip \in Ip \ crossed : ~Editing(ip) =>
    /\ standing[ip] = Lifted => bans[ip] <= clock /\ table[ip] = 0
    /\ standing[ip] > clock => bans[ip] = standing[ip] /\ table[ip] = standing[ip]
===========================================================================
