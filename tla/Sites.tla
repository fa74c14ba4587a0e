------------------------------- MODULE Sites -------------------------------
(* admin.rs, gateway.rs and the start of main.rs: the protected sites.     *)
(* What the operator asked for is the table of the database; the map the   *)
(* gateway serves from, the files of Nginx (NginxSync) and the listening   *)
(* gateway have to follow it.  Every dashboard call is a task of its own:  *)
(* it reads the table, edits the files, writes the table and copies the    *)
(* whole table into the map, and holds no lock from one step to the next.  *)
(*                                                                          *)
(* nginx.enabled is TRUE throughout.  The gateway listens on a port of the *)
(* system's choice (the default server.listen ends in :0), so each start   *)
(* may bring another address.                                              *)
EXTENDS NginxSync

CONSTANTS
  MaxCalls,    \* bound: calls and starts
  MaxStops     \* bound: crashes and stops of the gateway

ASSUME SitesAssumptions == MaxCalls \in Nat /\ MaxStops \in Nat

VARIABLES
  table,       \* the rows of the sites table: a site or Absent for each host
  runtime,     \* AppState.sites: the map requests are answered from
  gateway,     \* the address the gateway listens on, None when stopped
  up,          \* is the process up, booting (no dashboard yet) or down?
  calls,       \* what each worker is doing
  begun,       \* how many calls and starts there were
  stops,       \* how many crashes and stops there were
  met,         \* history: hosts on which a worker's call met another call
  excused,     \* history: hosts whose files may differ from the table
  old,         \* history: workers whose copy of the table was overtaken
  torn         \* history: the map was filled from such a copy, or not filled

history == <<met, excused, old, torn>>
vars == <<syncVars, table, runtime, gateway, up, calls, begun, stops, history>>

Site == [mode: {"proxy", "nginx"}, enabled: BOOLEAN]
Absent == [mode |-> "none", enabled |-> FALSE]
Row == Site \cup {Absent}
Table == [Host -> Row]

\* Nginx is no part of a proxied site: one, enabled, stands for all.
Offered == {[mode |-> "proxy", enabled |-> TRUE]} \cup [mode: {"nginx"}, enabled: BOOLEAN]

Nothing == [pc |-> "none"]
Edit == [pc: {"status"}, op: {"save", "toggle", "delete"}, host: Host, new: Row, was: Row]
          \cup [pc: {"store"}, host: Host, new: Row]
          \cup [pc: {"refresh"}, host: Host]
          \cup [pc: {"publish"}, host: Host, copy: Table]
Start == [pc: {"load"}, op: {"start", "boot"}, listen: Listen]
           \cup [pc: {"resync"}, op: {"start", "boot"}, listen: Listen,
                 todo: SUBSET [host: Host, on: BOOLEAN]]

TypeOK ==
  /\ SyncTypeOK
  /\ table \in Table /\ runtime \in Table
  /\ gateway \in Address /\ up \in {"up", "booting", "down"}
  /\ calls \in [Worker -> {Nothing} \cup Edit \cup Start]
  /\ begun \in 0..MaxCalls /\ stops \in 0..MaxStops
  /\ met \in [Worker -> SUBSET Host] /\ excused \in SUBSET Host
  /\ old \in SUBSET Worker /\ torn \in BOOLEAN

Inline(row) == row.mode = "nginx"
Guarded(row) == Inline(row) /\ row.enabled
IsStart(c) == c.pc \in {"load", "resync"}
InFlight == {w \in Worker : calls[w].pc # "none"}
Touches(c) == IF IsStart(c) THEN Host ELSE IF c.pc = "none" THEN {} ELSE {c.host}
Busy == UNION {Touches(calls[w]) : w \in InFlight}

\* The files agree with the table; the operator has run BotGate for a while.
Init ==
  /\ shared \in BOOLEAN
  /\ table \in [Host -> {Absent} \cup Offered]
  /\ runtime = table
  /\ up = "up"
  /\ gateway \in Address
  /\ vhost = {h \in Host : Guarded(table[h])}
  /\ \E last \in IF gateway = None THEN Listen ELSE {gateway} :
       includes = [h \in Host |-> IF h \in vhost THEN last ELSE None]
  /\ Valid
  /\ sync = [w \in Worker |-> Off]
  /\ calls = [w \in Worker |-> Nothing]
  /\ begun = 0 /\ stops = 0
  /\ met = [w \in Worker |-> {}] /\ excused = {} /\ old = {} /\ torn = FALSE

---------------------------------------------------------------------------
(* A call begins and ends.  Two calls meet on the hosts that both touch;   *)
(* doubt holds the hosts whose row the call could not read.                *)

Begin(w, c, doubt) ==
  LET meets(v) == Touches(calls[v]) \cap Touches(c)
      common == UNION {meets(v) : v \in Worker} IN
  /\ calls[w] = Nothing
  /\ begun < MaxCalls
  /\ begun' = begun + 1
  /\ calls' = [calls EXCEPT ![w] = c]
  /\ met' = [v \in Worker |-> IF v = w THEN common ELSE met[v] \cup meets(v)]
  /\ excused' = excused \cup common \cup doubt

Continue(w, c) == calls' = [calls EXCEPT ![w] = c]
End(w) == Continue(w, Nothing) /\ Go(w, Off) /\ met' = [met EXCEPT ![w] = {}]
Excuse(hosts) == excused' = excused \cup hosts

---------------------------------------------------------------------------
(* The dashboard's calls on one site, up to the edit of the files. *)

BeginEdit(w, c, doubt) ==
  /\ up = "up"
  /\ Begin(w, c, doubt)
  /\ UNCHANGED <<syncVars, table, runtime, gateway, up, stops, old, torn>>

\* The row as save and delete read it: an error counts as "no such row".
Looked(h) == {table[h], Absent}
Doubt(h, was) == IF was = table[h] THEN {} ELSE {h}

SaveSite(w) ==
  \E h \in Host, new \in Offered : \E was \in Looked(h) :
    BeginEdit(w, [pc |-> "status", op |-> "save", host |-> h, new |-> new, was |-> was],
              Doubt(h, was))

KnownOrNot(h) == TRUE                                             \* mutant
Known(h) == table[h] # Absent

\* The rest of the row is written back as it was read.
ToggleSite(w) ==
  \E h \in Host :
    LET new == [table[h] EXCEPT !.enabled = ~@] IN
    /\ Known(h)
    /\ BeginEdit(w, [pc |-> "status", op |-> "toggle", host |-> h, new |-> new,
                     was |-> table[h]], {})

DeleteSite(w) ==
  \E h \in Host : \E was \in Looked(h) :
    BeginEdit(w, [pc |-> "status", op |-> "delete", host |-> h, new |-> Absent,
                  was |-> was], Doubt(h, was))

\* Without a gateway an inline site is refused, except to disable it.
Refused(c) == gateway = None /\ Inline(c.new) /\ (c.op = "save" \/ c.new.enabled)

FilesFollow(c) == Inline(c.new) \/ Inline(c.was)

\* gateway.status(), and the call of sync_site or remove_site it leads to.
SeeGateway(w) ==
  LET c == calls[w] IN
  /\ c.pc = "status"
  /\ IF Refused(c)
       THEN End(w)
       ELSE /\ Continue(w, [pc |-> "store", host |-> c.host, new |-> c.new])
            /\ IF FilesFollow(c)
                 THEN Go(w, Called(c.host, Guarded(c.new), gateway))
                 ELSE UNCHANGED sync
            /\ UNCHANGED met
  /\ UNCHANGED <<shared, files, table, runtime, gateway, up, begun, stops, excused, old, torn>>

---------------------------------------------------------------------------
(* sync_site, run by an edit or by a start of the gateway. *)

Writing == {w \in Worker : sync[w].pc \notin {"off", "read", "done", "failed"}}
\* Two calls whose edits of the files overlap meet on both their sites.
SyncReads(w) ==
  LET others == {sync[v].host : v \in Writing} IN
  /\ VhostNotFound(w) \/ ReadFiles(w)
  /\ IF sync'[w].pc = "include" /\ Writing # {}
       THEN /\ met' = [v \in Worker |->
                         IF v \in Writing \cup {w} THEN met[v] \cup {sync[v].host} ELSE met[v]]
            /\ Excuse(others \cup {sync[w].host})
       ELSE UNCHANGED <<met, excused>>

SyncWrites(w) ==
  /\ WriteInclude(w) \/ WriteVhost(w)
  /\ Excuse(IF sync'[w].pc = "failed" THEN {sync[w].host} ELSE {})
  /\ UNCHANGED met

\* A site that a call has synchronised on its own is right again.
SyncTests(w) ==
  /\ TestAndReload(w)
  /\ excused' = IF sync'[w].pc = "done" THEN excused \ ({sync[w].host} \ met[w]) ELSE excused
  /\ UNCHANGED met

SyncRestores(w) ==
  LET s == sync[w] IN
  /\ RestoreVhost(w) \/ RestoreInclude(w)
  /\ Excuse(IF (s.pc = "restore vhost" /\ vhost' # s.original)
              \/ (s.pc = "restore include" /\ includes'[s.host] # Restored(s))
            THEN {s.host} ELSE {})
  /\ UNCHANGED met

Sync(w) ==
  /\ SyncReads(w) \/ SyncWrites(w) \/ SyncTests(w) \/ SyncRestores(w)
  /\ UNCHANGED <<table, runtime, gateway, up, calls, begun, stops, old, torn>>

---------------------------------------------------------------------------
(* The table, and the map that is copied from it. *)

CopiedAlone(c) == [runtime EXCEPT ![c.host] = table[c.host]]       \* mutant
Copied(c) == table
Overtaken == {v \in Worker : calls[v].pc = "publish"}

\* upsert_site or delete_site.
Store(w) ==
  LET c == calls[w] IN
  /\ c.pc = "store"
  /\ sync[w].pc \in {"off", "done"}
  /\ table' = [table EXCEPT ![c.host] = c.new]
  /\ old' = old \cup Overtaken
  /\ Continue(w, [pc |-> "refresh", host |-> c.host])
  /\ Go(w, Off)
  /\ UNCHANGED <<shared, files, runtime, gateway, up, begun, stops, met, excused, torn>>

\* The files were not edited, or they were and the table cannot be written.
EditFails(w) ==
  LET c == calls[w] IN
  /\ c.pc = "store"
  /\ sync[w].pc \in {"off", "done", "failed"}
  /\ Excuse(IF sync[w].pc = "done" THEN {c.host} ELSE {})
  /\ End(w)
  /\ UNCHANGED <<shared, files, table, runtime, gateway, up, begun, stops, old, torn>>

\* refresh_managed_runtime: the table is read, and then the map replaced.
ReadTable(w) ==
  LET c == calls[w] IN
  /\ c.pc = "refresh"
  /\ Continue(w, [pc |-> "publish", host |-> c.host, copy |-> Copied(c)])
  /\ old' = old \ {w}
  /\ UNCHANGED <<syncVars, table, runtime, gateway, up, begun, stops, met, excused, torn>>

RefreshFails(w) ==
  /\ calls[w].pc = "refresh"
  /\ torn' = TRUE
  /\ End(w)
  /\ UNCHANGED <<shared, files, table, runtime, gateway, up, begun, stops, excused, old>>

Publish(w) ==
  LET c == calls[w] IN
  /\ c.pc = "publish"
  /\ runtime' = c.copy
  /\ torn' = (w \in old)
  /\ old' = old \ {w}
  /\ End(w)
  /\ UNCHANGED <<shared, files, table, gateway, up, begun, stops, excused>>

\* INSERT OR IGNORE of a site of config.toml: no file of Nginx is edited.
Merged(h, new) == [table EXCEPT ![h] = IF @ = Absent THEN new ELSE @]
Unsynced(h, new) == IF table[h] = Absent /\ Guarded(new) THEN {h} ELSE {}

ReloadConfig(w) ==
  \E h \in Host, new \in Offered :
    /\ up = "up"
    /\ Begin(w, [pc |-> "refresh", host |-> h], Unsynced(h, new))
    /\ table' = Merged(h, new)
    /\ old' = old \cup Overtaken
    /\ UNCHANGED <<syncVars, runtime, gateway, up, stops, torn>>

---------------------------------------------------------------------------
(* The gateway, and the process. *)

\* start() under the controller's mutex; one that runs is left as it is.
StartGateway(w) ==
  \E listen \in IF gateway = None THEN Listen ELSE {gateway} :
    /\ up = "up"
    /\ Begin(w, [pc |-> "load", op |-> "start", listen |-> listen], {})
    /\ gateway' = listen
    /\ UNCHANGED <<syncVars, table, runtime, up, stops, old, torn>>

ResyncUnmarked == {h \in Host : Inline(table[h]) /\ h \notin vhost}  \* mutant
ResyncEnabled == {h \in Host : Guarded(table[h])}                  \* mutant
ToResync == {h \in Host : Inline(table[h])}

\* resync_nginx_sites.  Every inline row is synchronised, enabled or not.
LoadSites(w) ==
  LET c == calls[w] IN
  /\ c.pc = "load"
  /\ Continue(w, [pc |-> "resync", op |-> c.op, listen |-> c.listen,
                  todo |-> {[host |-> h, on |-> table[h].enabled] : h \in ToResync}])
  /\ UNCHANGED <<syncVars, table, runtime, gateway, up, begun, stops, history>>

Resyncing(w) == calls[w].pc = "resync" /\ sync[w].pc \in {"off", "done"}

\* In some order: the code takes that of the hosts' names.
ResyncNext(w) ==
  /\ Resyncing(w)
  /\ \E row \in calls[w].todo :
       /\ Continue(w, [calls[w] EXCEPT !.todo = @ \ {row}])
       /\ Go(w, Called(row.host, row.on, calls[w].listen))
  /\ UNCHANGED <<shared, files, table, runtime, gateway, up, begun, stops, history>>

ResyncEnds(w) ==
  /\ Resyncing(w)
  /\ calls[w].todo = {}
  /\ up' = "up"
  /\ End(w)
  /\ UNCHANGED <<shared, files, table, runtime, gateway, begun, stops, excused, old, torn>>

\* One site that fails, or the table, stops the gateway, and ends a boot.
ResyncFails(w) ==
  LET c == calls[w] IN
  /\ c.pc = "load" \/ (c.pc = "resync" /\ sync[w].pc = "failed")
  /\ gateway' = None
  /\ up' = IF c.op = "boot" THEN "down" ELSE up
  /\ End(w)
  /\ UNCHANGED <<shared, files, table, runtime, begun, stops, excused, old, torn>>

StopGateway ==
  /\ up = "up"
  /\ gateway # None
  /\ stops < MaxStops
  /\ stops' = stops + 1
  /\ gateway' = None
  /\ UNCHANGED <<syncVars, table, runtime, up, calls, begun, history>>

\* The files and the table are what is left.  A call that has edited a file
\* and not yet written its row leaves the two apart.
Crash ==
  /\ up # "down"
  /\ stops < MaxStops
  /\ stops' = stops + 1
  /\ up' = "down" /\ gateway' = None
  /\ Excuse({sync[w].host : w \in {v \in Writing : sync[v].pc # "include"} \cup
               {v \in Worker : calls[v].pc = "store" /\ sync[v].pc = "done"}})
  /\ calls' = [w \in Worker |-> Nothing]
  /\ sync' = [w \in Worker |-> Off]
  /\ met' = [w \in Worker |-> {}] /\ old' = {} /\ torn' = FALSE
  /\ UNCHANGED <<shared, files, table, runtime, begun>>

\* bootstrap_management, the map, and the gateway unless a licence is missing.
Boot(w) ==
  \E h \in Host, new \in {Absent} \cup Offered, listen \in Listen, licensed \in BOOLEAN :
    /\ up = "down"
    /\ IF licensed
         THEN /\ Begin(w, [pc |-> "load", op |-> "boot", listen |-> listen], Unsynced(h, new))
              /\ gateway' = listen /\ up' = "booting"
         ELSE /\ begun < MaxCalls /\ begun' = begun + 1
              /\ Excuse(Unsynced(h, new))
              /\ up' = "up"
              /\ UNCHANGED <<calls, met, gateway>>
    /\ table' = Merged(h, new)
    /\ runtime' = table'
    /\ UNCHANGED <<syncVars, stops, old, torn>>

---------------------------------------------------------------------------

Step(w) ==
  \/ SaveSite(w) \/ ToggleSite(w) \/ DeleteSite(w) \/ ReloadConfig(w)
  \/ SeeGateway(w) \/ Sync(w) \/ Store(w) \/ EditFails(w)
  \/ ReadTable(w) \/ RefreshFails(w) \/ Publish(w)
  \/ StartGateway(w) \/ LoadSites(w) \/ ResyncNext(w) \/ ResyncEnds(w) \/ ResyncFails(w)
  \/ Boot(w)

Next == StopGateway \/ Crash \/ \E w \in Worker : Step(w)
Spec == Init /\ [][Next]_vars

---------------------------------------------------------------------------
(* Properties. *)

\* A site is marked in the vhost, and has its include, exactly when its row
\* says that Nginx guards it: after any calls, failures and restarts, except
\* for the sites on which something went wrong that the code does not undo
\* (excused), until a call synchronises them on its own again.
FilesAgree ==
  \A h \in Host \ (excused \cup Busy) :
    /\ h \in vhost <=> Guarded(table[h])
    /\ includes[h] # None <=> Guarded(table[h])

\* While the gateway listens, no site's include sends Nginx to another
\* address, one it had before it was stopped or before the process died.
AddressCurrent ==
  gateway # None => \A h \in Host \ (excused \cup Busy) : includes[h] \in {None, gateway}

\* Files that Nginx would refuse are not left behind: a call whose test fails
\* puts back what it found.
NeverInvalid == (Writing = {} /\ excused = {}) => Valid

\* Whatever went wrong before, a start of the gateway that ends well and met
\* no other call has put right every site that Nginx is to know.
ResyncHeals ==
  [][\A w \in Worker : (ResyncEnds(w) /\ met[w] = {}) =>
       \A h \in {g \in Host : Inline(table[g])} :
         /\ h \in vhost <=> Guarded(table[h])
         /\ includes[h] = IF Guarded(table[h]) THEN calls[w].listen ELSE None]_vars

\* When no call is between its write of the table and the map, the map is the
\* table, unless the last copy was overtaken by a write or could not be made.
RuntimeAgrees ==
  (up = "up" /\ ~torn /\ \A w \in Worker : calls[w].pc \notin {"refresh", "publish"})
    => runtime = table
===========================================================================
