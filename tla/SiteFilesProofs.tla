-------------------------- MODULE SiteFilesProofs --------------------------
(* Sites: the files of Nginx follow the table, they name the address the   *)
(* gateway listens on, and Nginx accepts them, whatever calls, starts,      *)
(* failures and crashes there were, but for the hosts that are excused.     *)
EXTENDS SitesProofs

---------------------------------------------------------------------------
(* The invariant. *)

\* Between its first and its last edit of the files; or before, too.
Mid(w) == sync[w].pc \in Editing
Syncing(w) == sync[w].pc = "read" \/ Mid(w)
\* The files are ahead of the table.
Held(w) == calls[w].pc = "store" /\ sync[w].pc = "done"

\* What sync_site was called with.
CoupledOf(w) ==
  /\ calls[w].pc \notin {"store", "resync"} => sync[w].pc = "off"
  /\ calls[w].pc = "store" =>
       /\ sync[w].pc = "off" => ~Guarded(calls[w].new)
       /\ sync[w].pc # "off" => sync[w].host = calls[w].host
       /\ Syncing(w) => /\ sync[w].on = Guarded(calls[w].new)
                        /\ sync[w].on => sync[w].listen # None
  /\ calls[w].pc = "resync" /\ Syncing(w) => sync[w].listen = calls[w].listen

\* Two calls on one host know it, and so do two that edit files at once; such
\* a host is excused as long as they last.
MetOf(w) ==
  /\ met[w] \subseteq excused \cap Touches(calls[w])
  /\ \A v \in Worker \ {w} :
       /\ Touches(calls[v]) \cap Touches(calls[w]) \subseteq met[w]
       /\ Mid(v) /\ Mid(w) => sync[w].host \in met[w]

\* What a call read of the other hosts in the vhost is still there.
KeptOf(w) ==
  Mid(w) => \A g \in Host \ {sync[w].host} :
              g \notin excused \/ met[w] = {} => (g \in sync[w].original <=> g \in vhost)

\* How far a call that met nobody has come with its own host.
PhaseOf(w) ==
  Mid(w) /\ sync[w].host \notin met[w] =>
    /\ sync[w].pc \in {"include", "vhost"} =>
         (sync[w].host \in vhost <=> sync[w].host \in sync[w].original)
    /\ includes[sync[w].host] =
         IF sync[w].pc = "include" THEN sync[w].previous ELSE Desired(sync[w])
    /\ sync[w].pc \in {"test", "restore vhost"} => (sync[w].host \in vhost <=> sync[w].on)
    /\ sync[w].pc = "restore include" /\ sync[w].host \notin excused =>
         (sync[w].host \in vhost <=> sync[w].host \in sync[w].original)

\* What it would put back agrees with the table.
BeforeOf(w) ==
  Mid(w) /\ sync[w].host \notin excused =>
    /\ sync[w].host \in sync[w].original <=> Guarded(table[sync[w].host])
    /\ sync[w].previous # None <=> Guarded(table[sync[w].host])

\* What a call has read of the table is still there.
RowOf(w) ==
  /\ calls[w].pc = "status" /\ calls[w].host \notin excused =>
       calls[w].was = table[calls[w].host]
  /\ calls[w].pc = "store" /\ sync[w].pc = "off" /\ calls[w].host \notin excused =>
       ~Guarded(table[calls[w].host])
  /\ calls[w].pc = "resync" =>
       /\ \A row \in calls[w].todo : row.host \notin met[w] =>
            Inline(table[row.host]) /\ row.on = table[row.host].enabled
       /\ sync[w].pc # "off" /\ sync[w].host \notin met[w] => Inline(table[sync[w].host])
       /\ Syncing(w) /\ sync[w].host \notin met[w] => sync[w].on = table[sync[w].host].enabled

\* A start has still to synchronise this host.
Waits(w, h) == \/ \E row \in calls[w].todo : row.host = h
               \/ Syncing(w) /\ sync[w].host = h

\* A start that met nobody has put right what it has synchronised.
HealedOf(w) ==
  calls[w].pc = "resync" /\ met[w] = {} /\ sync[w].pc # "failed" =>
    \A g \in Host : Inline(table[g]) /\ ~Waits(w, g) =>
      /\ g \in vhost <=> Guarded(table[g])
      /\ includes[g] = IF Guarded(table[g]) THEN calls[w].listen ELSE None

AgreesWith(h, row) ==
  /\ h \in vhost <=> Guarded(row)
  /\ includes[h] # None <=> Guarded(row)

\* The files agree with the table, or are ahead of it.
Agreed(h) ==
  /\ (\A w \in Worker : /\ ~(Mid(w) /\ sync[w].host = h)
                        /\ ~(Held(w) /\ calls[w].host = h)) => AgreesWith(h, table[h])
  /\ \A w \in Worker : Held(w) /\ calls[w].host = h => AgreesWith(h, calls[w].new)

\* The address that a call works with is the gateway's.
ListenOf(w) ==
  gateway # None =>
    /\ IsStart(calls[w]) /\ Host \ met[w] # {} => calls[w].listen = gateway
    /\ calls[w].pc = "store" /\ Syncing(w) /\ sync[w].host \notin met[w] /\ sync[w].on =>
         sync[w].listen = gateway

\* So is the one in the include; while the gateway starts, once it is the turn
\* of the host.
Addressed(h) ==
  gateway # None =>
    /\ (\A w \in Worker : ~IsStart(calls[w])) =>
         /\ includes[h] \in {None, gateway}
         /\ \A w \in Worker : Mid(w) /\ sync[w].host = h => sync[w].previous \in {None, gateway}
    /\ \A w \in Worker :
         calls[w].pc = "resync" /\ sync[w].pc # "failed" /\ ~Waits(w, h) =>
           includes[h] \in {None, calls[w].listen}

\* The files are valid, and so is what a call would put back.
ValidWith(v, i) ==
  /\ \A h \in v : i[h] # None
  /\ \A g, h \in v : SameBlock(g, h) => g = h
Validity ==
  excused = {} =>
    /\ (\A w \in Worker : ~Mid(w)) => Valid
    /\ \A w \in Worker : Mid(w) =>
         ValidWith(sync[w].original, [includes EXCEPT ![sync[w].host] = sync[w].previous])

OfWorker(w) == /\ CoupledOf(w) /\ MetOf(w) /\ KeptOf(w) /\ PhaseOf(w) /\ BeforeOf(w)
               /\ RowOf(w) /\ HealedOf(w) /\ ListenOf(w)
OfHost(h) == h \notin excused => Agreed(h) /\ Addressed(h)
FilesInv == (\A w \in Worker : OfWorker(w)) /\ (\A h \in Host : OfHost(h)) /\ Validity

---------------------------------------------------------------------------
(* Consequences. *)

\* Where a call on one host is alone, or the host is excused.
LEMMA AloneOrExcused ==
  ASSUME TypeOK, FilesInv, NEW v \in Worker, NEW w \in Worker \ {v}
  PROVE  /\ Touches(calls[v]) \cap Touches(calls[w]) \subseteq met[v] \cap met[w] \cap excused
         /\ met[w] \subseteq excused
BY DEF FilesInv, OfWorker, MetOf

\* sync_site only works on a host of the call that runs it.
LEMMA SyncTouches ==
  ASSUME TypeOK, FilesInv, NEW w \in Worker, sync[w].pc # "off"
  PROVE  /\ calls[w].pc \in {"store", "resync"}
         /\ sync[w].host \in Host /\ sync[w].host \in Touches(calls[w])
         /\ Mid(w) \/ sync[w].pc \in {"read", "done", "failed"}
<1>1. calls[w].pc \in {"store", "resync"}
  BY DEF FilesInv, OfWorker, CoupledOf
<1>2. sync[w].host \in Host
  BY SyncStates DEF TypeOK
<1>3. calls[w].pc = "store" => sync[w].host = calls[w].host
  BY DEF FilesInv, OfWorker, CoupledOf
<1>4. sync[w] \in SyncState
  BY SyncStates DEF TypeOK
<1>5. Mid(w) \/ sync[w].pc \in {"read", "done", "failed"}
  BY <1>4 DEF SyncState, Mid, Editing
<1> QED BY <1>1, <1>2, <1>3, <1>5 DEF Touches, IsStart

\* The theorems about the files, for one state.
LEMMA FilesAreRight ==
  ASSUME TypeOK, FilesInv
  PROVE  FilesAgree /\ AddressCurrent /\ NeverInvalid
<1>1. ASSUME NEW h \in Host, h \notin Busy, NEW w \in Worker
      PROVE  h \notin Touches(calls[w])
  <2>1. calls[w].pc = "none" => Touches(calls[w]) = {}
    BY DEF Touches, IsStart
  <2> QED BY <1>1, <2>1 DEF Busy, InFlight
<1>2. ASSUME NEW h \in Host, h \notin excused, h \notin Busy
      PROVE  /\ AgreesWith(h, table[h])
             /\ gateway # None => includes[h] \in {None, gateway}
  <2>1. \A w \in Worker : ~(Mid(w) /\ sync[w].host = h)
    BY <1>1, <1>2, SyncTouches DEF Mid, Editing
  <2>2. \A w \in Worker : ~(Held(w) /\ calls[w].host = h) /\ ~IsStart(calls[w])
    BY <1>1, <1>2 DEF Held, Touches, IsStart
  <2> QED BY <1>2, <2>1, <2>2 DEF FilesInv, OfHost, Agreed, Addressed
<1>3. ASSUME Writing = {}, excused = {} PROVE Valid
  <2>1. \A w \in Worker : ~Mid(w)
    BY <1>3 DEF Writing, Mid, Editing
  <2> QED BY <1>3, <2>1 DEF FilesInv, Validity
<1>4. FilesAgree /\ AddressCurrent
  BY <1>2 DEF FilesAgree, AddressCurrent, AgreesWith
<1> QED BY <1>3, <1>4 DEF NeverInvalid

\* The start that ends has put right what it met nobody on.
LEMMA StartsHeal ==
  ASSUME TypeOK, FilesInv, NEW w \in Worker, ResyncEnds(w), met[w] = {},
         NEW h \in Host, Inline(table[h])
  PROVE  /\ h \in vhost <=> Guarded(table[h])
         /\ includes[h] = IF Guarded(table[h]) THEN calls[w].listen ELSE None
<1>1. calls[w].pc = "resync" /\ sync[w].pc \in {"off", "done"} /\ calls[w].todo = {}
  BY DEF ResyncEnds, Resyncing
<1>2. ~Waits(w, h)
  BY <1>1 DEF Waits, Syncing, Mid, Editing
<1> QED BY <1>1, <1>2 DEF FilesInv, OfWorker, HealedOf

---------------------------------------------------------------------------
(* The first state. *)

LEMMA FilesInit ==
  ASSUME Init, TypeOK
  PROVE  FilesInv
<1>1. \A w \in Worker : /\ calls[w].pc = "none" /\ sync[w].pc = "off" /\ met[w] = {}
                        /\ Touches(calls[w]) = {} /\ ~IsStart(calls[w])
  BY DEF Init, Nothing, Off, Touches, IsStart
<1>2. \A w \in Worker : ~Mid(w) /\ ~Syncing(w) /\ ~Held(w)
  BY <1>1 DEF Mid, Syncing, Held, Editing
<1>3. \A w \in Worker : OfWorker(w)
  BY <1>1, <1>2 DEF OfWorker, CoupledOf, MetOf, KeptOf, PhaseOf, BeforeOf, RowOf, HealedOf, ListenOf
<1>4. PICK last \in IF gateway = None THEN Listen ELSE {gateway} :
        includes = [h \in Host |-> IF h \in vhost THEN last ELSE None]
  BY DEF Init
<1>5. last # None /\ (gateway # None => last = gateway)
  BY <1>4, NginxAssumptions
<1>6. vhost = {h \in Host : Guarded(table[h])} /\ Valid /\ excused = {}
  BY DEF Init
<1>7. \A h \in Host : AgreesWith(h, table[h]) /\ (gateway # None => includes[h] \in {None, gateway})
  BY <1>4, <1>5, <1>6 DEF AgreesWith
<1>8. \A h \in Host : OfHost(h)
  BY <1>1, <1>2, <1>7 DEF OfHost, Agreed, Addressed
<1>9. Validity
  BY <1>2, <1>6 DEF Validity
<1> QED BY <1>3, <1>8, <1>9 DEF FilesInv

---------------------------------------------------------------------------
(* A call begins. *)

\* Whom it meets.
LEMMA BeginMeets ==
  ASSUME TypeOK, FilesInv, NEW w \in Worker, NEW c \in Call, NEW doubt \in SUBSET Host,
         Begin(w, c, doubt)
  PROVE  /\ calls[w].pc = "none" /\ sync[w].pc = "off" /\ calls'[w] = c
         /\ excused \cup doubt \subseteq excused' /\ met'[w] \subseteq excused' \cap Touches(c)
         /\ \A v \in Worker \ {w} :
              /\ calls'[v] = calls[v]
              /\ met[v] \subseteq met'[v]
              /\ met'[v] \subseteq excused' \cap Touches(calls[v])
              /\ Touches(calls[v]) \cap Touches(c) \subseteq met'[v] \cap met'[w] \cap excused'
<1> DEFINE meets(v) == Touches(calls[v]) \cap Touches(c)
           common == UNION {meets(v) : v \in Worker}
<1>1. /\ calls[w].pc = "none"
      /\ calls'[w] = c /\ \A v \in Worker \ {w} : calls'[v] = calls[v]
  BY CallBegins
<1>2. sync[w].pc = "off"
  BY <1>1 DEF FilesInv, OfWorker, CoupledOf
<1>3. /\ met' = [v \in Worker |-> IF v = w THEN common ELSE met[v] \cup meets(v)]
      /\ excused' = excused \cup common \cup doubt
  BY DEF Begin
<1>4. \A v \in Worker : meets(v) \subseteq common /\ meets(v) \subseteq Touches(c)
                           /\ meets(v) \subseteq Touches(calls[v])
  OBVIOUS
<1>5. common \subseteq Touches(c)
  BY <1>4
<1>6. \A v \in Worker : met[v] \subseteq excused \cap Touches(calls[v])
  BY DEF FilesInv, OfWorker, MetOf
<1> HIDE DEF common
<1>7. met'[w] = common /\ \A v \in Worker \ {w} : met'[v] = met[v] \cup meets(v)
  BY <1>3
<1>8. \A v \in Worker \ {w} : /\ met[v] \subseteq met'[v]
                               /\ met'[v] \subseteq excused' \cap Touches(calls[v])
                               /\ meets(v) \subseteq met'[v] \cap met'[w] \cap excused'
  BY <1>3, <1>4, <1>6, <1>7
<1> QED BY <1>1, <1>2, <1>3, <1>5, <1>7, <1>8

\* Files and sync_site are as they were; the table may have a new row on a host
\* of the call, and the gateway an address if the call is its start.
LEMMA BeginFiles ==
  ASSUME TypeOK, FilesInv, NEW w \in Worker, NEW c \in Call, NEW doubt \in SUBSET Host,
         Begin(w, c, doubt), UNCHANGED syncVars,
         c.pc \in {"status", "refresh", "load"},
         \A g \in Host \ Touches(c) : table'[g] = table[g],
         \A g \in Host \ doubt : Guarded(table'[g]) <=> Guarded(table[g]),
         c.pc = "status" => c.host \in doubt \/ c.was = table'[c.host],
         gateway' = gateway \/ c.pc = "load",
         c.pc = "load" => c.listen = gateway'
  PROVE  FilesInv'
<1>1. /\ calls[w].pc = "none" /\ sync[w].pc = "off" /\ calls'[w] = c
      /\ excused \cup doubt \subseteq excused' /\ met'[w] \subseteq excused' \cap Touches(c)
      /\ \A v \in Worker \ {w} :
           /\ calls'[v] = calls[v]
           /\ met[v] \subseteq met'[v]
           /\ met'[v] \subseteq excused' \cap Touches(calls[v])
           /\ Touches(calls[v]) \cap Touches(c) \subseteq met'[v] \cap met'[w] \cap excused'
  BY BeginMeets
<1>2. UNCHANGED <<vhost, includes, sync, shared>>
  BY DEF syncVars, files
<1>3. /\ \A v \in Worker : (Mid(v)' <=> Mid(v)) /\ (Syncing(v)' <=> Syncing(v))
      /\ \A v \in Worker \ {w} : (Held(v)' <=> Held(v)) /\ \A h : Waits(v, h)' <=> Waits(v, h)
      /\ ~Mid(w) /\ ~Syncing(w) /\ ~Held(w)' /\ ~Held(w)
  BY <1>1, <1>2 DEF Mid, Syncing, Held, Waits, Editing
<1>4. IsStart(c) => c.pc = "load" /\ Touches(c) = Host
  BY DEF Touches, IsStart
<1>5. \A v \in Worker : IsStart(calls[v]) => Touches(calls[v]) = Host
  BY DEF Touches
<1>6. Touches(c) \subseteq Host
  BY CallStates
<1>7. c.pc = "status" => c.host \in Touches(c)
  BY DEF Touches, IsStart
<1>8. ASSUME NEW v \in Worker \ {w} PROVE OfWorker(v)'
  <2>1. OfWorker(v)
    BY DEF FilesInv
  <2>2. sync[v].pc # "off" => sync[v].host \in Host /\ sync[v].host \in Touches(calls[v])
    BY SyncTouches
  <2>3. CoupledOf(v)'
    BY <1>1, <1>2, <1>3, <2>1 DEF OfWorker, CoupledOf
  <2>4. MetOf(v)'
    <3>1. met'[v] \subseteq excused' \cap Touches(calls'[v])
      BY <1>1
    <3>2. ASSUME NEW u \in Worker \ {v}
          PROVE  /\ Touches(calls'[u]) \cap Touches(calls'[v]) \subseteq met'[v]
                 /\ Mid(u)' /\ Mid(v)' => sync'[v].host \in met'[v]
      <4>1. CASE u = w
        BY <1>1, <1>3, <4>1
      <4>2. CASE u # w
        BY <1>1, <1>2, <1>3, <2>1, <4>2 DEF OfWorker, MetOf
      <4> QED BY <4>1, <4>2
    <3> QED BY <3>1, <3>2 DEF MetOf
  <2>5. KeptOf(v)'
    BY <1>1, <1>2, <1>3, <2>1 DEF OfWorker, KeptOf
  <2>6. PhaseOf(v)'
    BY <1>1, <1>2, <1>3, <2>1 DEF OfWorker, PhaseOf
  <2>7. BeforeOf(v)'
    <3>1. sync[v].host \notin excused' => sync[v].host \notin doubt /\ sync[v].host \notin excused
      BY <1>1
    <3>2. Mid(v) => sync[v].pc # "off"
      BY DEF Mid, Editing
    <3> QED BY <1>2, <1>3, <2>1, <2>2, <3>1, <3>2 DEF OfWorker, BeforeOf
  <2>8. RowOf(v)'
    <3>1. \A h \in Touches(calls[v]) \ met'[v] : table'[h] = table[h] /\ h \notin met[v]
      BY <1>1, CallOf, CallStates
    <3>2. \A h \in Touches(calls[v]) \ excused' : h \notin met'[v] /\ h \notin excused
      BY <1>1
    <3>3. calls[v].pc \in {"status", "store"} => calls[v].host \in Touches(calls[v])
      BY DEF Touches, IsStart
    <3>4. calls[v].pc = "resync" => \A row \in calls[v].todo : row.host \in Touches(calls[v])
      BY CallOf, CallStates DEF AtResync, Touches, IsStart
    <3>5. calls[v].pc = "status" /\ calls[v].host \notin excused' =>
            calls[v].was = table'[calls[v].host]
      BY <2>1, <3>1, <3>2, <3>3 DEF OfWorker, RowOf
    <3>6. calls[v].pc = "store" /\ sync[v].pc = "off" /\ calls[v].host \notin excused' =>
            ~Guarded(table'[calls[v].host])
      BY <2>1, <3>1, <3>2, <3>3 DEF OfWorker, RowOf
    <3>7. ASSUME calls[v].pc = "resync"
          PROVE  /\ \A row \in calls[v].todo : row.host \notin met'[v] =>
                      Inline(table'[row.host]) /\ row.on = table'[row.host].enabled
                 /\ sync[v].pc # "off" /\ sync[v].host \notin met'[v] =>
                      Inline(table'[sync[v].host])
                 /\ Syncing(v) /\ sync[v].host \notin met'[v] =>
                      sync[v].on = table'[sync[v].host].enabled
      <4>1. \A row \in calls[v].todo : row.host \notin met'[v] =>
              table'[row.host] = table[row.host] /\ row.host \notin met[v]
        BY <3>1, <3>4, <3>7
      <4>2. sync[v].pc # "off" /\ sync[v].host \notin met'[v] =>
              table'[sync[v].host] = table[sync[v].host] /\ sync[v].host \notin met[v]
        BY <2>2, <3>1
      <4>3. Syncing(v) => sync[v].pc # "off"
        BY DEF Syncing, Mid, Editing
      <4> QED BY <2>1, <3>7, <4>1, <4>2, <4>3 DEF OfWorker, RowOf
    <3> QED BY <1>1, <1>2, <1>3, <3>5, <3>6, <3>7 DEF RowOf
  <2>9. HealedOf(v)'
    <3>1. ASSUME calls[v].pc = "resync", met'[v] = {} PROVE met[v] = {} /\ \A g \in Host : table'[g] = table[g]
      <4>1. Touches(calls[v]) = Host
        BY <3>1 DEF Touches, IsStart
      <4> QED BY <1>1, <1>6, <3>1, <4>1
    <3> QED BY <1>1, <1>2, <1>3, <2>1, <3>1 DEF OfWorker, HealedOf
  <2>10. ListenOf(v)'
    <3>1. CASE gateway' = gateway
      BY <1>1, <1>2, <1>3, <2>1, <3>1 DEF OfWorker, ListenOf
    <3>2. CASE c.pc = "load"
      <4>0. Touches(c) = Host
        BY <3>2 DEF Touches, IsStart
      <4>1. Touches(calls[v]) \subseteq met'[v]
        BY <1>1, <3>2, <4>0, CallOf, CallStates
      <4>2. Syncing(v) => sync[v].host \in met'[v]
        BY <2>2, <4>1 DEF Syncing, Mid, Editing
      <4> QED BY <1>1, <1>2, <1>3, <1>5, <4>1, <4>2 DEF ListenOf
    <3> QED BY <3>1, <3>2
  <2> QED BY <2>3, <2>4, <2>5, <2>6, <2>7, <2>8, <2>9, <2>10 DEF OfWorker
<1>9. OfWorker(w)'
  <2>1. CoupledOf(w)' /\ KeptOf(w)' /\ PhaseOf(w)' /\ BeforeOf(w)' /\ HealedOf(w)' /\ ListenOf(w)'
    BY <1>1, <1>2, <1>3, <1>4 DEF CoupledOf, KeptOf, PhaseOf, BeforeOf, HealedOf, ListenOf
  <2>2. MetOf(w)'
    BY <1>1, <1>3 DEF MetOf
  <2>3. RowOf(w)'
    BY <1>1, <1>2 DEF RowOf
  <2> QED BY <2>1, <2>2, <2>3 DEF OfWorker
<1>10. ASSUME NEW h \in Host, h \notin excused' PROVE Agreed(h)' /\ Addressed(h)'
  <2>1. Agreed(h) /\ Addressed(h) /\ h \notin doubt
    BY <1>1, <1>10 DEF FilesInv, OfHost
  <2>2. Agreed(h)'
    BY <1>1, <1>2, <1>3, <2>1 DEF Agreed, AgreesWith
  <2>3. Addressed(h)'
    <3>1. CASE ~IsStart(c)
      <4>1. gateway' = gateway
        BY <3>1 DEF IsStart
      <4>2. ~IsStart(calls[w]) /\ ~IsStart(calls'[w]) /\ calls'[w].pc # "resync"
        BY <1>1, <3>1 DEF IsStart
      <4>3. (\A v \in Worker : ~IsStart(calls'[v])) => \A v \in Worker : ~IsStart(calls[v])
        BY <1>1, <4>2
      <4> QED BY <1>1, <1>2, <1>3, <2>1, <4>1, <4>2, <4>3 DEF Addressed
    <3>2. CASE IsStart(c)
      <4>1. calls'[w].pc = "load" /\ IsStart(calls'[w])
        BY <1>1, <1>4, <3>2
      <4>2. \A v \in Worker \ {w} : calls'[v].pc # "resync"
        BY <1>1, <1>4, <1>10, <3>2 DEF Touches, IsStart
      <4> QED BY <4>1, <4>2 DEF Addressed
    <3> QED BY <3>1, <3>2
  <2> QED BY <2>2, <2>3
<1>11. Validity'
  <2>1. excused' = {} => excused = {}
    BY <1>1
  <2> QED BY <1>2, <1>3, <2>1 DEF FilesInv, Validity, Valid, ValidWith, SameBlock
<1> QED BY <1>8, <1>9, <1>10, <1>11 DEF FilesInv, OfHost

---------------------------------------------------------------------------
(* The steps of one call, and what they leave to the others. *)

Others(w) == Worker \ {w}
SameCalls(w) == \A v \in Others(w) : calls'[v] = calls[v] /\ sync'[v] = sync[v]

\* A call that others do not meet keeps what they know.
LEMMA OthersKept ==
  ASSUME TypeOK, FilesInv, NEW w \in Worker, NEW v \in Others(w), SameCalls(w),
         met[v] \subseteq met'[v],
         \A g \in Touches(calls[v]) : g \in excused => g \in excused',
         Mid(v) => excused \subseteq excused',
         \A g \in Host : table'[g] = table[g] \/ g \in Touches(calls[w]),
         \/ UNCHANGED files
         \/ Mid(w) /\ \A g \in Host \ excused : g = sync[w].host \/ (g \in vhost' <=> g \in vhost),
         gateway' \in {gateway, None}
  PROVE  /\ CoupledOf(v)' /\ KeptOf(v)' /\ PhaseOf(v)' /\ BeforeOf(v)'
         /\ RowOf(v)' /\ HealedOf(v)' /\ ListenOf(v)'
<1>1. calls'[v] = calls[v] /\ sync'[v] = sync[v] /\ v \in Worker \ {w}
  BY DEF SameCalls, Others
<1>2. OfWorker(v)
  BY DEF FilesInv, Others
<1>3. sync[v].pc # "off" => sync[v].host \in Host /\ sync[v].host \in Touches(calls[v])
  BY SyncTouches DEF Others
<1>4. (Mid(v)' <=> Mid(v)) /\ (Syncing(v)' <=> Syncing(v)) /\ \A h : Waits(v, h)' <=> Waits(v, h)
  BY <1>1 DEF Mid, Syncing, Waits
<1>5. (Mid(v) => sync[v].pc # "off") /\ (Syncing(v) => sync[v].pc # "off")
  BY DEF Mid, Syncing, Editing
<1>6. Mid(v) /\ Mid(w) => sync[w].host \in excused /\ sync[v].host \in met[v]
  BY <1>1 DEF FilesInv, OfWorker, MetOf
<1>7. Touches(calls[v]) \cap Touches(calls[w]) \subseteq met[v]
  BY <1>1 DEF FilesInv, OfWorker, MetOf
<1>8. Mid(w) => sync[w].host \in Touches(calls[w]) /\ sync[w].host \in Host
  BY SyncTouches DEF Mid, Editing
<1>9. CoupledOf(v)'
  BY <1>1, <1>2, <1>4 DEF OfWorker, CoupledOf
<1>10. KeptOf(v)'
  <2>1. CASE UNCHANGED files
    BY <1>1, <1>2, <1>4, <2>1 DEF OfWorker, KeptOf, files
  <2>2. CASE Mid(w) /\ \A g \in Host \ excused : g = sync[w].host \/ (g \in vhost' <=> g \in vhost)
    <3>1. ASSUME Mid(v), NEW g \in Host \ {sync[v].host}, g \notin excused' \/ met'[v] = {}
          PROVE  g \in sync[v].original <=> g \in vhost'
      <4>1. met'[v] # {} /\ g \notin excused' /\ g \notin excused
        BY <1>6, <2>2, <3>1
      <4>2. g # sync[w].host
        BY <1>6, <2>2, <3>1, <4>1
      <4>3. g \in vhost' <=> g \in vhost
        BY <2>2, <4>1, <4>2
      <4>4. KeptOf(v)
        BY <1>2 DEF OfWorker
      <4> QED BY <3>1, <4>1, <4>3, <4>4 DEF KeptOf
    <3> QED BY <1>1, <1>4, <3>1 DEF KeptOf
  <2> QED BY <2>1, <2>2
<1>11. PhaseOf(v)'
  <2>1. CASE UNCHANGED files
    <3>1. Mid(v) /\ sync[v].host \notin excused' => sync[v].host \notin excused
      BY <1>3, <1>5
    <3>2. PhaseOf(v)
      BY <1>2 DEF OfWorker
    <3> QED BY <1>1, <1>4, <2>1, <3>1, <3>2 DEF PhaseOf, files
  <2>2. CASE Mid(w)
    BY <1>1, <1>4, <1>6, <2>2 DEF PhaseOf
  <2> QED BY <2>1, <2>2
<1>12. \A g \in Touches(calls[v]) \ met'[v] : table'[g] = table[g] /\ g \notin met[v]
  BY <1>7, CallOf, CallStates DEF Others
<1>13. \A g \in Touches(calls[v]) \ excused' : table'[g] = table[g] /\ g \notin excused
  <2>1. met[v] \subseteq excused \cap Touches(calls[v])
    BY <1>2 DEF OfWorker, MetOf
  <2> QED BY <1>7, <2>1, CallOf, CallStates DEF Others
<1>14. BeforeOf(v)'
  <2>1. Mid(v) /\ sync[v].host \notin excused' =>
          sync[v].host \notin excused /\ table'[sync[v].host] = table[sync[v].host]
    BY <1>3, <1>5, <1>13
  <2>2. BeforeOf(v)
    BY <1>2 DEF OfWorker
  <2> QED BY <1>1, <1>4, <2>1, <2>2 DEF BeforeOf
<1>15. RowOf(v)'
  <2>0. RowOf(v)
    BY <1>2 DEF OfWorker
  <2>1. calls[v].pc \in {"status", "store"} => calls[v].host \in Touches(calls[v])
    BY DEF Touches, IsStart
  <2>2. calls[v].pc = "resync" => \A row \in calls[v].todo : row.host \in Touches(calls[v])
    BY CallOf, CallStates DEF AtResync, Touches, IsStart, Others
  <2>3. calls[v].pc = "status" /\ calls[v].host \notin excused' =>
          calls[v].was = table'[calls[v].host]
    BY <1>13, <2>0, <2>1 DEF RowOf
  <2>4. calls[v].pc = "store" /\ sync[v].pc = "off" /\ calls[v].host \notin excused' =>
          ~Guarded(table'[calls[v].host])
    BY <1>13, <2>0, <2>1 DEF RowOf
  <2>5. ASSUME calls[v].pc = "resync"
        PROVE  /\ \A row \in calls[v].todo : row.host \notin met'[v] =>
                    Inline(table'[row.host]) /\ row.on = table'[row.host].enabled
               /\ sync[v].pc # "off" /\ sync[v].host \notin met'[v] =>
                    Inline(table'[sync[v].host])
               /\ Syncing(v) /\ sync[v].host \notin met'[v] =>
                    sync[v].on = table'[sync[v].host].enabled
    <3>1. \A row \in calls[v].todo : row.host \notin met'[v] =>
            table'[row.host] = table[row.host] /\ row.host \notin met[v]
      BY <1>12, <2>2, <2>5
    <3>2. sync[v].pc # "off" /\ sync[v].host \notin met'[v] =>
            table'[sync[v].host] = table[sync[v].host] /\ sync[v].host \notin met[v]
      BY <1>3, <1>12
    <3> QED BY <1>5, <2>0, <2>5, <3>1, <3>2 DEF RowOf
  <2> QED BY <1>1, <1>4, <2>3, <2>4, <2>5 DEF RowOf
<1>16. HealedOf(v)'
  <2>1. ASSUME calls[v].pc = "resync", met'[v] = {}
        PROVE  /\ met[v] = {} /\ UNCHANGED files
               /\ \A g \in Host : table'[g] = table[g]
    <3>1. Touches(calls[v]) = Host
      BY <2>1 DEF Touches, IsStart
    <3>2. ~Mid(w)
      BY <1>7, <1>8, <2>1, <3>1
    <3> QED BY <1>12, <2>1, <3>1, <3>2
  <2>2. HealedOf(v)
    BY <1>2 DEF OfWorker
  <2> QED BY <1>1, <1>4, <2>1, <2>2 DEF HealedOf, files
<1>17. ListenOf(v)'
  <2>1. ListenOf(v)
    BY <1>2 DEF OfWorker
  <2>2. gateway' # None => gateway' = gateway
    OBVIOUS
  <2> QED BY <1>1, <1>4, <2>1, <2>2 DEF ListenOf
<1> QED BY <1>9, <1>10, <1>11, <1>14, <1>15, <1>16, <1>17

\* Whom a call met is known as before, in a step that does not begin to edit.
LEMMA MetKept ==
  ASSUME TypeOK, FilesInv, NEW w \in Worker, SameCalls(w), UNCHANGED met,
         Touches(calls'[w]) = Touches(calls[w]),
         \A v \in Worker : met[v] \subseteq excused',
         Mid(w)' => Mid(w) /\ sync'[w].host = sync[w].host
  PROVE  \A v \in Worker : MetOf(v)'
<1>1. \A v \in Worker : /\ Touches(calls'[v]) = Touches(calls[v]) /\ MetOf(v)
                        /\ Mid(v)' => Mid(v) /\ sync'[v].host = sync[v].host
  BY DEF SameCalls, Others, Mid, FilesInv, OfWorker
<1> QED BY <1>1 DEF MetOf

\* A call that ends is forgotten; the files are as they were.
LEMMA MetEnds ==
  ASSUME TypeOK, FilesInv, NEW w \in Worker, SameCalls(w), excused \subseteq excused',
         met' = [met EXCEPT ![w] = {}], calls'[w].pc = "none", ~Mid(w)'
  PROVE  \A v \in Worker : MetOf(v)'
<1>1. Touches(calls'[w]) = {} /\ met'[w] = {}
  BY DEF Touches, IsStart, TypeOK
<1>2. ASSUME NEW v \in Others(w)
      PROVE  /\ Touches(calls'[v]) = Touches(calls[v]) /\ MetOf(v) /\ met'[v] = met[v]
             /\ Mid(v)' => Mid(v) /\ sync'[v].host = sync[v].host
  BY <1>2 DEF SameCalls, Others, Mid, FilesInv, OfWorker, TypeOK
<1> QED BY <1>1, <1>2 DEF MetOf, Others

\* A call at one of these steps has nothing to say of the files.
LEMMA QuietWorker ==
  ASSUME TypeOK, NEW w \in Worker, sync'[w].pc = "off",
         calls'[w].pc \in {"none", "refresh", "publish"}
  PROVE  /\ CoupledOf(w)' /\ KeptOf(w)' /\ PhaseOf(w)' /\ BeforeOf(w)'
         /\ RowOf(w)' /\ HealedOf(w)' /\ ListenOf(w)'
<1>1. ~Mid(w)' /\ ~Syncing(w)' /\ ~IsStart(calls'[w])
  BY DEF Mid, Syncing, Editing, IsStart
<1> QED BY <1>1 DEF CoupledOf, KeptOf, PhaseOf, BeforeOf, RowOf, HealedOf, ListenOf

\* A host that the step does not touch is as right as it was.
LEMMA HostKept ==
  ASSUME TypeOK, FilesInv, NEW w \in Worker, SameCalls(w),
         NEW h \in Host, h \notin excused,
         table'[h] = table[h], h \in vhost' <=> h \in vhost, includes'[h] = includes[h],
         gateway' \in {gateway, None},
         Mid(w) /\ sync[w].host = h => Mid(w)' /\ sync'[w].host = h,
         Mid(w)' /\ sync'[w].host = h =>
           \/ sync'[w].previous = includes[h]
           \/ Mid(w) /\ sync[w].host = h /\ sync'[w].previous = sync[w].previous,
         Held(w)' /\ calls'[w].host = h <=> Held(w) /\ calls[w].host = h,
         Held(w)' => calls'[w].new = calls[w].new,
         gateway' # None /\ IsStart(calls[w]) =>
           \/ IsStart(calls'[w])
           \/ /\ includes[h] \in {None, gateway} /\ ~Mid(w)'
              /\ \A v \in Others(w) : ~(Mid(v) /\ sync[v].host = h),
         gateway' # None /\ calls'[w].pc = "resync" /\ sync'[w].pc # "failed" /\ ~Waits(w, h)' =>
           \/ includes[h] \in {None, calls'[w].listen}
           \/ /\ calls[w].pc = "resync" /\ sync[w].pc # "failed" /\ ~Waits(w, h)
              /\ calls'[w].listen = calls[w].listen
  PROVE  Agreed(h)' /\ Addressed(h)'
<1>1. \A v \in Others(w) : /\ calls'[v] = calls[v] /\ sync'[v] = sync[v]
                           /\ (Mid(v)' <=> Mid(v)) /\ (Held(v)' <=> Held(v))
                           /\ (Waits(v, h)' <=> Waits(v, h))
  BY DEF SameCalls, Mid, Held, Waits, Syncing
<1>2. Agreed(h) /\ Addressed(h)
  BY DEF FilesInv, OfHost
<1>3. Agreed(h)'
  <2>1. ASSUME \A v \in Worker : ~(Mid(v)' /\ sync'[v].host = h) /\ ~(Held(v)' /\ calls'[v].host = h)
        PROVE  AgreesWith(h, table[h])
    <3>1. \A v \in Worker : ~(Mid(v) /\ sync[v].host = h) /\ ~(Held(v) /\ calls[v].host = h)
      BY <1>1, <2>1 DEF Others
    <3> QED BY <1>2, <3>1 DEF Agreed
  <2>2. \A v \in Worker : Held(v)' /\ calls'[v].host = h =>
          Held(v) /\ calls[v].host = h /\ calls'[v].new = calls[v].new
    BY <1>1 DEF Others
  <2>3. \A v \in Worker : Held(v)' /\ calls'[v].host = h => AgreesWith(h, calls'[v].new)
    BY <1>2, <2>2 DEF Agreed
  <2> QED BY <2>1, <2>3 DEF Agreed, AgreesWith
<1>4. Addressed(h)'
  <2>1. SUFFICES ASSUME gateway' # None PROVE Addressed(h)'
    BY DEF Addressed
  <2>2. gateway' = gateway
    BY <2>1
  <2>3. ASSUME \A v \in Worker : ~IsStart(calls'[v])
        PROVE  /\ includes'[h] \in {None, gateway'}
               /\ \A v \in Worker : Mid(v)' /\ sync'[v].host = h =>
                    sync'[v].previous \in {None, gateway'}
    <3>1. CASE ~IsStart(calls[w])
      <4>1. \A v \in Worker : ~IsStart(calls[v])
        BY <1>1, <2>3, <3>1 DEF Others
      <4>2. /\ includes[h] \in {None, gateway}
            /\ \A v \in Worker : Mid(v) /\ sync[v].host = h => sync[v].previous \in {None, gateway}
        BY <1>2, <2>1, <2>2, <4>1 DEF Addressed
      <4> QED BY <1>1, <2>2, <4>2 DEF Others
    <3>2. CASE IsStart(calls[w])
      BY <1>1, <2>1, <2>2, <2>3, <3>2 DEF Others
    <3> QED BY <3>1, <3>2
  <2>4. ASSUME NEW v \in Worker, calls'[v].pc = "resync", sync'[v].pc # "failed", ~Waits(v, h)'
        PROVE  includes'[h] \in {None, calls'[v].listen}
    <3>1. CASE v = w
      BY <1>2, <2>1, <2>2, <2>4, <3>1 DEF Addressed
    <3>2. CASE v # w
      BY <1>1, <1>2, <2>1, <2>2, <2>4, <3>2 DEF Addressed, Others
    <3> QED BY <3>1, <3>2
  <2> QED BY <2>3, <2>4 DEF Addressed
<1> QED BY <1>3, <1>4

---------------------------------------------------------------------------
(* The calls that begin. *)

LEMMA EditFiles ==
  ASSUME TypeOK, FilesInv, NEW w \in Worker, SaveSite(w) \/ ToggleSite(w) \/ DeleteSite(w)
  PROVE  FilesInv'
<1>1. \A h \in Host : table[h] \in Row /\ Looked(h) \subseteq Row
  BY RowsAre DEF TypeOK, Table, Looked
<1> DEFINE call(op, h, new, was) ==
             [pc |-> "status", op |-> op, host |-> h, new |-> new, was |-> was]
<1>2. ASSUME NEW op \in {"save", "toggle", "delete"}, NEW h \in Host, NEW new \in Row,
             NEW was \in Row, NEW doubt \in SUBSET Host,
             was = table[h] \/ h \in doubt, BeginEdit(w, call(op, h, new, was), doubt)
      PROVE  FilesInv'
  <2>1. /\ call(op, h, new, was) \in AtStatus
        /\ call(op, h, new, was).pc = "status"
        /\ call(op, h, new, was).host = h /\ call(op, h, new, was).was = was
    BY DEF AtStatus
  <2> HIDE DEF call
  <2>2. PICK c \in Call : /\ c.pc = "status" /\ c.host = h /\ c.was = was
                          /\ BeginEdit(w, c, doubt)
    BY <1>2, <2>1, CallsAre
  <2>3. UNCHANGED <<syncVars, table, gateway>> /\ Begin(w, c, doubt)
    BY <2>2 DEF BeginEdit
  <2>4. c.pc \in {"status", "refresh", "load"} /\ c.pc # "load"
    BY <2>2
  <2>5. c.host \in doubt \/ c.was = table'[c.host]
    BY <1>2, <2>2, <2>3
  <2> QED BY <2>3, <2>4, <2>5, BeginFiles
<1>3. \A h \in Host : \A was : Doubt(h, was) \in SUBSET Host /\ (was = table[h] \/ h \in Doubt(h, was))
  BY DEF Doubt
<1>4. CASE SaveSite(w)
  <2>1. PICK h \in Host, new \in Offered : \E was \in Looked(h) :
          BeginEdit(w, call("save", h, new, was), Doubt(h, was))
    BY <1>4 DEF SaveSite
  <2>2. PICK was \in Looked(h) : BeginEdit(w, call("save", h, new, was), Doubt(h, was))
    BY <2>1
  <2>3. new \in Row /\ was \in Row
    BY <1>1, RowsAre
  <2> HIDE DEF call
  <2> QED BY <1>2, <1>3, <2>2, <2>3
<1>5. CASE ToggleSite(w)
  <2> DEFINE toggled(h) == [table[h] EXCEPT !.enabled = ~@]
  <2>1. PICK h \in Host : /\ table[h] # Absent
                          /\ BeginEdit(w, call("toggle", h, toggled(h), table[h]), {})
    BY <1>5 DEF ToggleSite, Known
  <2>2. toggled(h) \in Row
    BY <1>1, <2>1, RowsAre
  <2> HIDE DEF call, toggled
  <2> QED BY <1>1, <1>2, <2>1, <2>2
<1>6. CASE DeleteSite(w)
  <2>1. PICK h \in Host : \E was \in Looked(h) :
          BeginEdit(w, call("delete", h, Absent, was), Doubt(h, was))
    BY <1>6 DEF DeleteSite
  <2>2. PICK was \in Looked(h) : BeginEdit(w, call("delete", h, Absent, was), Doubt(h, was))
    BY <2>1
  <2>3. Absent \in Row /\ was \in Row
    BY <1>1, RowsAre
  <2> HIDE DEF call
  <2> QED BY <1>2, <1>3, <2>2, <2>3
<1> QED BY <1>4, <1>5, <1>6

\* A row that the configuration adds.
LEMMA MergedRow ==
  ASSUME TypeOK, NEW h \in Host, NEW new
  PROVE  /\ \A g \in Host \ {h} : Merged(h, new)[g] = table[g]
         /\ \A g \in Host \ Unsynced(h, new) : Guarded(Merged(h, new)[g]) <=> Guarded(table[g])
         /\ Unsynced(h, new) \in SUBSET Host
<1>1. \A g \in Host \ {h} : Merged(h, new)[g] = table[g]
  BY DEF Merged, TypeOK, Table
<1>2. Merged(h, new)[h] = IF table[h] = Absent THEN new ELSE table[h]
  BY DEF Merged, TypeOK, Table
<1>3. ~Guarded(Absent)
  BY DEF Guarded, Inline, Absent
<1>4. h \notin Unsynced(h, new) => (Guarded(Merged(h, new)[h]) <=> Guarded(table[h]))
  BY <1>2, <1>3 DEF Unsynced
<1> QED BY <1>1, <1>4 DEF Unsynced

LEMMA ReloadFiles ==
  ASSUME TypeOK, FilesInv, NEW w \in Worker, ReloadConfig(w)
  PROVE  FilesInv'
<1> DEFINE call(h) == [pc |-> "refresh", host |-> h]
<1>1. PICK h \in Host, new \in Offered :
        /\ Begin(w, call(h), Unsynced(h, new))
        /\ table' = Merged(h, new)
        /\ UNCHANGED <<syncVars, gateway>>
  BY DEF ReloadConfig
<1>2. call(h) \in Call /\ call(h).pc = "refresh" /\ Touches(call(h)) = {h}
  BY CallsAre DEF AtRefresh, Touches, IsStart
<1> HIDE DEF call
<1>3. \A g \in Host \ Touches(call(h)) : table'[g] = table[g]
  BY <1>1, <1>2, MergedRow
<1>4. /\ Unsynced(h, new) \in SUBSET Host
      /\ \A g \in Host \ Unsynced(h, new) : Guarded(table'[g]) <=> Guarded(table[g])
  BY <1>1, MergedRow
<1> QED BY <1>1, <1>2, <1>3, <1>4, BeginFiles

LEMMA StartFiles ==
  ASSUME TypeOK, FilesInv, NEW w \in Worker, StartGateway(w)
  PROVE  FilesInv'
<1> DEFINE call(listen) == [pc |-> "load", op |-> "start", listen |-> listen]
<1>1. PICK listen \in IF gateway = None THEN Listen ELSE {gateway} :
        /\ Begin(w, call(listen), {})
        /\ gateway' = listen
        /\ UNCHANGED <<syncVars, table>>
  BY DEF StartGateway
<1>2. listen \in Listen
  BY DEF TypeOK, Address
<1>3. call(listen) \in Call /\ call(listen).pc = "load" /\ call(listen).listen = listen
  BY <1>2, CallsAre DEF AtLoad
<1> HIDE DEF call
<1> QED BY <1>1, <1>3, BeginFiles

\* The process starts: with its gateway, or without when a licence is missing.
LEMMA BootFiles ==
  ASSUME TypeOK, MapInv, FilesInv, NEW w \in Worker, Boot(w)
  PROVE  FilesInv'
<1> DEFINE call(listen) == [pc |-> "load", op |-> "boot", listen |-> listen]
<1>1. PICK h \in Host, new \in {Absent} \cup Offered, listen \in Listen, licensed \in BOOLEAN :
        /\ IF licensed
             THEN Begin(w, call(listen), Unsynced(h, new)) /\ gateway' = listen
             ELSE Excuse(Unsynced(h, new)) /\ UNCHANGED <<calls, met, gateway>>
        /\ table' = Merged(h, new)
        /\ UNCHANGED syncVars
  BY DEF Boot
<1>2. /\ Unsynced(h, new) \in SUBSET Host
      /\ \A g \in Host \ Unsynced(h, new) : Guarded(table'[g]) <=> Guarded(table[g])
  BY <1>1, MergedRow
<1>3. CASE licensed
  <2>1. /\ call(listen) \in Call /\ call(listen).pc = "load" /\ call(listen).listen = listen
        /\ Touches(call(listen)) = Host
    BY CallsAre DEF AtLoad, Touches, IsStart
  <2> HIDE DEF call
  <2> QED BY <1>1, <1>2, <1>3, <2>1, BeginFiles
<1>4. CASE ~licensed
  <2>1. \A v \in Worker : calls[v].pc = "none"
    BY DEF Boot, MapInv, UpOrNot
  <2>2. UNCHANGED <<calls, met, gateway, shared, vhost, includes, sync>>
    BY <1>1, <1>4 DEF syncVars, files
  <2>3. \A v \in Worker : sync[v].pc = "off"
    BY <2>1 DEF FilesInv, OfWorker, CoupledOf
  <2>4. \A v \in Worker : /\ ~Mid(v) /\ ~Syncing(v) /\ ~Held(v)
                          /\ ~IsStart(calls[v]) /\ Touches(calls[v]) = {}
    BY <2>1, <2>3 DEF Mid, Syncing, Held, Editing, IsStart, Touches
  <2>5. \A v \in Worker : /\ ~Mid(v)' /\ ~Syncing(v)' /\ ~Held(v)' /\ sync'[v].pc = "off"
                          /\ ~IsStart(calls'[v]) /\ Touches(calls'[v]) = {} /\ calls'[v].pc = "none"
    BY <2>1, <2>2, <2>3, <2>4 DEF Mid, Syncing, Held
  <2>6. excused' = excused \cup Unsynced(h, new)
    BY <1>1, <1>4 DEF Excuse
  <2>7. \A v \in Worker : met'[v] = {}
    BY <2>2, <2>4 DEF FilesInv, OfWorker, MetOf
  <2>8. \A v \in Worker : OfWorker(v)'
    BY <2>5, <2>7 DEF OfWorker, CoupledOf, MetOf, KeptOf, PhaseOf, BeforeOf, RowOf, HealedOf, ListenOf
  <2>9. ASSUME NEW g \in Host, g \notin excused' PROVE Agreed(g)' /\ Addressed(g)'
    <3>1. AgreesWith(g, table[g]) /\ (gateway # None => includes[g] \in {None, gateway})
      BY <2>4, <2>6, <2>9 DEF FilesInv, OfHost, Agreed, Addressed
    <3>2. Guarded(table'[g]) <=> Guarded(table[g])
      BY <1>2, <2>6, <2>9
    <3>3. (g \in vhost' <=> Guarded(table'[g])) /\ (includes'[g] # None <=> Guarded(table'[g]))
      BY <2>2, <3>1, <3>2 DEF AgreesWith
    <3> QED BY <2>2, <2>5, <3>1, <3>2, <3>3 DEF Agreed, Addressed, AgreesWith
  <2>10. Validity'
    BY <2>2, <2>4, <2>5, <2>6 DEF FilesInv, Validity, Valid, SameBlock
  <2> QED BY <2>8, <2>9, <2>10 DEF FilesInv, OfHost
<1> QED BY <1>3, <1>4

---------------------------------------------------------------------------
(* The steps between the edits of the files. *)

LEMMA ValidKept ==
  ASSUME TypeOK, FilesInv, NEW w \in Worker, SameCalls(w), UNCHANGED <<shared, files>>,
         excused' = {} => excused = {},
         Mid(w)' <=> Mid(w),
         Mid(w)' => /\ sync'[w].host = sync[w].host /\ sync'[w].original = sync[w].original
                    /\ sync'[w].previous = sync[w].previous
  PROVE  Validity'
<1>1. \A v \in Worker :
        /\ Mid(v)' <=> Mid(v)
        /\ Mid(v)' => /\ sync'[v].host = sync[v].host /\ sync'[v].original = sync[v].original
                      /\ sync'[v].previous = sync[v].previous
  BY DEF SameCalls, Others, Mid
<1> QED BY <1>1 DEF FilesInv, Validity, Valid, ValidWith, SameBlock, files

\* A host of a call that is not excused is nobody else's.
LEMMA Alone ==
  ASSUME TypeOK, FilesInv, NEW w \in Worker, NEW h \in Touches(calls[w]), h \notin met[w],
         NEW v \in Others(w)
  PROVE  h \notin Touches(calls[v]) /\ ~IsStart(calls[v]) /\ ~(Mid(v) /\ sync[v].host = h)
         /\ ~(Held(v) /\ calls[v].host = h)
<1>1. h \notin Touches(calls[v])
  BY AloneOrExcused DEF Others
<1>2. h \in Host
  BY CallOf, CallStates
<1> QED BY <1>1, <1>2, SyncTouches DEF Mid, Editing, Held, Touches, IsStart, Others

\* A call ends between its edits.
LEMMA EndFiles ==
  ASSUME TypeOK, FilesInv, NEW w \in Worker, End(w), UNCHANGED <<shared, files, table>>,
         excused \subseteq excused', gateway' \in {gateway, None}, ~Mid(w),
         Held(w) => calls[w].host \in excused',
         gateway' # None /\ IsStart(calls[w]) =>
           /\ calls[w].pc = "resync" /\ calls[w].todo = {}
           /\ sync[w].pc # "failed" /\ ~Syncing(w)
  PROVE  FilesInv'
<1>1. /\ calls'[w].pc = "none" /\ sync'[w].pc = "off" /\ met' = [met EXCEPT ![w] = {}]
      /\ SameCalls(w)
  BY DEF End, Continue, Go, Nothing, Off, SameCalls, Others, TypeOK, SyncTypeOK
<1>2. ~Mid(w)' /\ ~Held(w)' /\ ~IsStart(calls'[w])
  BY <1>1 DEF Mid, Editing, Held, IsStart
<1>3. \A v \in Worker : MetOf(v)'
  BY <1>1, <1>2, MetEnds
<1>4. \A v \in Others(w) : met'[v] = met[v] /\ \A g \in Host : table'[g] = table[g]
  BY <1>1 DEF Others, TypeOK
<1>5. ASSUME NEW v \in Others(w) PROVE OfWorker(v)'
  BY <1>1, <1>3, <1>4, <1>5, OthersKept DEF OfWorker, Others
<1>6. OfWorker(w)'
  BY <1>1, <1>3, QuietWorker DEF OfWorker
<1>7. ASSUME NEW h \in Host, h \notin excused' PROVE Agreed(h)' /\ Addressed(h)'
  <2>1. h \notin excused /\ ~(Held(w) /\ calls[w].host = h)
    BY <1>7
  <2>2. ASSUME gateway' # None, IsStart(calls[w])
        PROVE  /\ includes[h] \in {None, gateway}
               /\ \A v \in Others(w) : ~(Mid(v) /\ sync[v].host = h)
    <3>1. Touches(calls[w]) = Host /\ h \notin met[w]
      BY <2>1, <2>2 DEF Touches, FilesInv, OfWorker, MetOf
    <3>2. ~Waits(w, h) /\ calls[w].pc = "resync" /\ sync[w].pc # "failed"
      BY <2>2 DEF Waits
    <3>3. includes[h] \in {None, calls[w].listen}
      BY <2>1, <2>2, <3>2 DEF FilesInv, OfHost, Addressed
    <3>4. calls[w].listen = gateway
      BY <2>2, <3>1 DEF FilesInv, OfWorker, ListenOf
    <3> QED BY <3>1, <3>3, <3>4, Alone
  <2>3. includes'[h] = includes[h] /\ table'[h] = table[h] /\ (h \in vhost' <=> h \in vhost)
    BY DEF files
  <2> QED BY <1>1, <1>2, <2>1, <2>2, <2>3, HostKept
<1>8. Validity'
  BY <1>1, <1>2, ValidKept
<1> QED BY <1>5, <1>6, <1>7, <1>8 DEF FilesInv, OfHost, Others

LEMMA FailFiles ==
  ASSUME TypeOK, FilesInv, NEW w \in Worker,
         \/ EditFails(w) \/ RefreshFails(w) \/ Publish(w) \/ ResyncEnds(w) \/ ResyncFails(w)
  PROVE  FilesInv'
<1>1. CASE EditFails(w)
  <2>1. ~Mid(w) /\ ~IsStart(calls[w]) /\ excused \subseteq excused'
    BY <1>1 DEF EditFails, Mid, Editing, IsStart, Excuse
  <2>2. Held(w) => calls[w].host \in excused'
    BY <1>1 DEF EditFails, Held, Excuse
  <2> QED BY <1>1, <2>1, <2>2, EndFiles DEF EditFails
<1>2. CASE RefreshFails(w) \/ Publish(w)
  <2>1. sync[w].pc = "off"
    BY <1>2 DEF RefreshFails, Publish, FilesInv, OfWorker, CoupledOf
  <2>2. ~Mid(w) /\ ~Held(w) /\ ~IsStart(calls[w])
    BY <1>2, <2>1 DEF Mid, Editing, Held, IsStart, RefreshFails, Publish
  <2>3. End(w) /\ UNCHANGED <<shared, files, table, excused, gateway>>
    BY <1>2 DEF RefreshFails, Publish
  <2> QED BY <2>2, <2>3, EndFiles
<1>3. CASE ResyncEnds(w)
  <2>1. /\ calls[w].pc = "resync" /\ calls[w].todo = {} /\ sync[w].pc \in {"off", "done"}
        /\ End(w) /\ UNCHANGED <<shared, files, table, gateway, excused>>
    BY <1>3 DEF ResyncEnds, Resyncing
  <2>2. ~Mid(w) /\ ~Held(w) /\ ~Syncing(w)
    BY <2>1 DEF Mid, Syncing, Editing, Held
  <2> QED BY <2>1, <2>2, EndFiles
<1>4. CASE ResyncFails(w)
  <2>1. /\ calls[w].pc = "load" \/ (calls[w].pc = "resync" /\ sync[w].pc = "failed")
        /\ End(w) /\ gateway' = None /\ UNCHANGED <<shared, files, table, excused>>
    BY <1>4 DEF ResyncFails
  <2>2. sync[w].pc \in {"off", "failed"}
    BY <2>1 DEF FilesInv, OfWorker, CoupledOf
  <2>3. ~Mid(w) /\ ~Held(w)
    BY <2>1, <2>2 DEF Mid, Editing, Held
  <2> QED BY <2>1, <2>3, EndFiles
<1> QED BY <1>1, <1>2, <1>3, <1>4

\* A call goes on and neither edits nor has edited.
LEMMA MoveFiles ==
  ASSUME TypeOK, FilesInv, NEW w \in Worker, SameCalls(w),
         UNCHANGED <<shared, files, table, gateway, met, excused>>,
         Touches(calls'[w]) = Touches(calls[w]), IsStart(calls'[w]) <=> IsStart(calls[w]),
         ~Mid(w), ~Mid(w)', ~Held(w), ~Held(w)',
         \A h \in Host \ excused :
           calls'[w].pc = "resync" /\ sync'[w].pc # "failed" /\ ~Waits(w, h)' =>
             \/ includes[h] \in {None, calls'[w].listen}
             \/ /\ calls[w].pc = "resync" /\ sync[w].pc # "failed" /\ ~Waits(w, h)
                /\ calls'[w].listen = calls[w].listen,
         CoupledOf(w)', RowOf(w)', HealedOf(w)', ListenOf(w)'
  PROVE  FilesInv'
<1>1. \A v \in Worker : met[v] \subseteq excused'
  BY DEF FilesInv, OfWorker, MetOf
<1>2. \A v \in Worker : MetOf(v)'
  BY <1>1, MetKept
<1>3. ASSUME NEW v \in Others(w) PROVE OfWorker(v)'
  BY <1>2, <1>3, OthersKept DEF OfWorker, Others
<1>4. KeptOf(w)' /\ PhaseOf(w)' /\ BeforeOf(w)'
  BY DEF KeptOf, PhaseOf, BeforeOf
<1>5. OfWorker(w)'
  BY <1>2, <1>4 DEF OfWorker
<1>6. ASSUME NEW h \in Host, h \notin excused' PROVE Agreed(h)' /\ Addressed(h)'
  <2>1. includes'[h] = includes[h] /\ table'[h] = table[h] /\ (h \in vhost' <=> h \in vhost)
    BY DEF files
  <2> QED BY <1>6, <2>1, HostKept
<1>7. Validity'
  BY ValidKept
<1> QED BY <1>3, <1>5, <1>6, <1>7 DEF FilesInv, OfHost, Others

LEMMA SeeGatewayFiles ==
  ASSUME TypeOK, FilesInv, NEW w \in Worker, SeeGateway(w)
  PROVE  FilesInv'
<1> DEFINE c == calls[w]
           next == [pc |-> "store", host |-> c.host, new |-> c.new]
<1>1. /\ c.pc = "status" /\ sync[w].pc = "off" /\ c \in AtStatus
      /\ UNCHANGED <<shared, files, table, gateway, excused>>
  BY CallOf, CallStates DEF SeeGateway, FilesInv, OfWorker, CoupledOf
<1>2. ~Mid(w) /\ ~Held(w) /\ ~Syncing(w) /\ ~IsStart(c) /\ Touches(c) = {c.host}
  BY <1>1 DEF Mid, Held, Editing, Syncing, IsStart, Touches
<1>3. CASE Refused(c)
  <2>1. End(w)
    BY <1>3 DEF SeeGateway
  <2> QED BY <1>1, <1>2, <2>1, EndFiles
<1>4. CASE ~Refused(c)
  <2>1. /\ Continue(w, next) /\ UNCHANGED met
        /\ IF FilesFollow(c) THEN Go(w, Called(c.host, Guarded(c.new), gateway)) ELSE UNCHANGED sync
    BY <1>4 DEF SeeGateway
  <2>2. calls'[w] = next /\ SameCalls(w)
    BY <2>1, CallsChange DEF SameCalls, Others, Go, TypeOK, SyncTypeOK
  <2>3. calls'[w].pc = "store" /\ calls'[w].host = c.host /\ calls'[w].new = c.new
    BY <2>2
  <2>4. CASE FilesFollow(c)
    <3>1. sync'[w] = Called(c.host, Guarded(c.new), gateway)
      BY <2>1, <2>4 DEF Go, TypeOK, SyncTypeOK
    <3>2. /\ sync'[w].pc = "read" /\ sync'[w].host = c.host
          /\ sync'[w].on = Guarded(c.new) /\ sync'[w].listen = gateway
      BY <3>1 DEF Called
    <3>3. Guarded(c.new) => gateway # None
      BY <1>1, <1>4 DEF Refused, Guarded, AtStatus
    <3> HIDE DEF next, c
    <3>4. CoupledOf(w)' /\ RowOf(w)' /\ HealedOf(w)' /\ ListenOf(w)'
      BY <1>1, <2>3, <3>2, <3>3 DEF CoupledOf, RowOf, HealedOf, ListenOf, IsStart
    <3>5. ~Mid(w)' /\ ~Held(w)' /\ ~IsStart(calls'[w]) /\ Touches(calls'[w]) = {c.host}
      BY <2>3, <3>2 DEF Mid, Editing, Held, IsStart, Touches
    <3> QED BY <1>1, <1>2, <2>1, <2>2, <2>3, <3>4, <3>5, MoveFiles DEF c
  <2>5. CASE ~FilesFollow(c)
    <3>1. sync' = sync /\ ~Guarded(c.new) /\ ~Guarded(c.was)
      BY <2>1, <2>5 DEF FilesFollow, Guarded
    <3>2. c.host \notin excused => c.was = table[c.host]
      BY <1>1 DEF FilesInv, OfWorker, RowOf
    <3>3. ~Mid(w)' /\ ~Held(w)' /\ ~Syncing(w)'
      BY <1>1, <3>1 DEF Mid, Held, Syncing, Editing
    <3> HIDE DEF next
    <3>4. CoupledOf(w)' /\ RowOf(w)' /\ HealedOf(w)' /\ ListenOf(w)'
      BY <1>1, <2>3, <3>1, <3>2, <3>3 DEF CoupledOf, RowOf, HealedOf, ListenOf, IsStart
    <3>5. ~IsStart(calls'[w]) /\ Touches(calls'[w]) = {c.host}
      BY <2>3 DEF IsStart, Touches
    <3> QED BY <1>1, <1>2, <2>1, <2>2, <2>3, <3>3, <3>4, <3>5, MoveFiles
  <2> QED BY <2>4, <2>5
<1> QED BY <1>3, <1>4

LEMMA ReadTableFiles ==
  ASSUME TypeOK, FilesInv, NEW w \in Worker, ReadTable(w)
  PROVE  FilesInv'
<1> DEFINE next == [pc |-> "publish", host |-> calls[w].host, copy |-> Copied(calls[w])]
<1>0. /\ calls[w].pc = "refresh" /\ Continue(w, next)
      /\ UNCHANGED <<shared, files, sync, table, gateway, met, excused>>
  BY DEF ReadTable, syncVars, files
<1>1. /\ calls[w].pc = "refresh" /\ sync[w].pc = "off" /\ Continue(w, next)
      /\ UNCHANGED <<shared, files, sync, table, gateway, met, excused>>
  BY <1>0 DEF FilesInv, OfWorker, CoupledOf
<1>2. calls'[w] = next /\ SameCalls(w)
  BY <1>1, CallsChange DEF SameCalls, Others
<1>3. calls'[w].pc = "publish" /\ calls'[w].host = calls[w].host /\ sync'[w].pc = "off"
  BY <1>1, <1>2
<1> HIDE DEF next
<1>4. /\ ~Mid(w) /\ ~Mid(w)' /\ ~Held(w) /\ ~Held(w)' /\ ~IsStart(calls[w]) /\ ~IsStart(calls'[w])
      /\ Touches(calls'[w]) = Touches(calls[w])
  BY <1>1, <1>3 DEF Mid, Held, Editing, IsStart, Touches
<1>5. CoupledOf(w)' /\ RowOf(w)' /\ HealedOf(w)' /\ ListenOf(w)'
  BY <1>3, QuietWorker
<1> QED BY <1>1, <1>2, <1>3, <1>4, <1>5, MoveFiles

LEMMA LoadFiles ==
  ASSUME TypeOK, FilesInv, NEW w \in Worker, LoadSites(w)
  PROVE  FilesInv'
<1> DEFINE c == calls[w]
           rows == {[host |-> h, on |-> table[h].enabled] : h \in ToResync}
           next == [pc |-> "resync", op |-> c.op, listen |-> c.listen, todo |-> rows]
<1>0. /\ c.pc = "load" /\ Continue(w, next)
      /\ UNCHANGED <<shared, files, sync, table, gateway, met, excused>>
  BY DEF LoadSites, syncVars, files, history
<1>1. sync[w].pc = "off" /\ sync'[w].pc = "off"
  BY <1>0 DEF FilesInv, OfWorker, CoupledOf
<1>2. calls'[w] = next /\ SameCalls(w)
  BY <1>0, CallsChange DEF SameCalls, Others
<1>3. calls'[w].pc = "resync" /\ calls'[w].listen = c.listen /\ calls'[w].todo = rows
  BY <1>2
<1>4. \A row \in rows : /\ row.host \in Host /\ Inline(table[row.host])
                        /\ row.on = table[row.host].enabled
  BY DEF ToResync
<1>5. \A h \in Host : Inline(table[h]) => \E row \in rows : row.host = h
  <2>1. \A h \in ToResync : [host |-> h, on |-> table[h].enabled] \in rows
    OBVIOUS
  <2> HIDE DEF rows
  <2>2. \A h \in ToResync : [host |-> h, on |-> table[h].enabled].host = h
    OBVIOUS
  <2>3. \A h \in ToResync : \E row \in rows : row.host = h
    BY <2>1, <2>2
  <2> QED BY <2>3 DEF ToResync
<1> HIDE DEF next, rows
<1>6. /\ ~Mid(w) /\ ~Mid(w)' /\ ~Held(w) /\ ~Held(w)' /\ ~Syncing(w)'
      /\ IsStart(calls[w]) /\ IsStart(calls'[w])
      /\ Touches(calls[w]) = Host /\ Touches(calls'[w]) = Host
  BY <1>0, <1>1, <1>3 DEF Mid, Held, Syncing, Editing, IsStart, Touches
<1>7. \A h \in Host : Waits(w, h)' \/ ~Inline(table[h])
  BY <1>3, <1>5 DEF Waits
<1>8. ASSUME NEW h \in Host \ excused, ~Waits(w, h)'
      PROVE  includes[h] = None
  <2>1. h \in Touches(calls[w]) /\ h \notin met[w]
    BY <1>6 DEF FilesInv, OfWorker, MetOf
  <2>2. \A v \in Worker : ~(Mid(v) /\ sync[v].host = h) /\ ~(Held(v) /\ calls[v].host = h)
    BY <1>6, <2>1, Alone DEF Others
  <2>3. AgreesWith(h, table[h])
    BY <2>2 DEF FilesInv, OfHost, Agreed
  <2> QED BY <1>7, <1>8, <2>3 DEF AgreesWith, Guarded
<1>9. CoupledOf(w)'
  BY <1>1, <1>3, <1>6 DEF CoupledOf
<1>10. RowOf(w)'
  BY <1>0, <1>1, <1>3, <1>4, <1>6 DEF RowOf
<1>11. HealedOf(w)'
  BY <1>0, <1>7 DEF HealedOf
<1>12. ListenOf(w)'
  <2>1. ListenOf(w)
    BY DEF FilesInv, OfWorker
  <2> QED BY <1>0, <1>3, <1>6, <2>1 DEF ListenOf
<1> QED BY <1>0, <1>2, <1>3, <1>6, <1>8, <1>9, <1>10, <1>11, <1>12, MoveFiles

LEMMA NextFiles ==
  ASSUME TypeOK, FilesInv, NEW w \in Worker, ResyncNext(w)
  PROVE  FilesInv'
<1> DEFINE c == calls[w]
<1>1. /\ c.pc = "resync" /\ sync[w].pc \in {"off", "done"} /\ c \in AtResync
      /\ UNCHANGED <<shared, files, table, gateway, met, excused>>
  BY CallOf, CallStates DEF ResyncNext, Resyncing, history
<1>2. PICK row \in c.todo :
        /\ Continue(w, [c EXCEPT !.todo = @ \ {row}])
        /\ Go(w, Called(row.host, row.on, c.listen))
  BY DEF ResyncNext
<1> DEFINE next == [c EXCEPT !.todo = @ \ {row}]
<1>3. /\ next.pc = "resync" /\ next.listen = c.listen /\ next.todo = c.todo \ {row}
      /\ c.listen # None /\ row.host \in Host
  BY <1>1, NginxAssumptions DEF AtResync
<1>4. calls'[w] = next /\ SameCalls(w)
  BY <1>2, CallsChange DEF SameCalls, Others, Go, TypeOK, SyncTypeOK
<1> HIDE DEF next
<1>5. sync'[w] = Called(row.host, row.on, c.listen)
  BY <1>2 DEF Go, TypeOK, SyncTypeOK
<1>6. /\ sync'[w].pc = "read" /\ sync'[w].host = row.host
      /\ sync'[w].on = row.on /\ sync'[w].listen = c.listen
  BY <1>5 DEF Called
<1>7. /\ calls'[w].pc = "resync" /\ calls'[w].listen = c.listen
      /\ calls'[w].todo = c.todo \ {row}
  BY <1>3, <1>4
<1>8. /\ ~Mid(w) /\ ~Mid(w)' /\ ~Held(w) /\ ~Held(w)' /\ Syncing(w)'
      /\ IsStart(c) /\ IsStart(calls'[w])
      /\ Touches(c) = Host /\ Touches(calls'[w]) = Host
  BY <1>1, <1>6, <1>7 DEF Mid, Held, Syncing, Editing, IsStart, Touches
<1>9. \A h : Waits(w, h) => Waits(w, h)'
  BY <1>1, <1>6, <1>7, <1>8 DEF Waits, Syncing, Mid, Editing
<1>10. RowOf(w) /\ HealedOf(w) /\ ListenOf(w)
  BY DEF FilesInv, OfWorker
<1>11. CoupledOf(w)'
  BY <1>6, <1>7 DEF CoupledOf
<1>12. RowOf(w)'
  BY <1>1, <1>2, <1>6, <1>7, <1>10 DEF RowOf
<1>13. HealedOf(w)'
  BY <1>1, <1>7, <1>9, <1>10 DEF HealedOf, files
<1>14. ListenOf(w)'
  BY <1>1, <1>7, <1>8, <1>10 DEF ListenOf
<1> QED BY <1>1, <1>4, <1>7, <1>8, <1>9, <1>11, <1>12, <1>13, <1>14, MoveFiles

\* The row is written: what the files are ahead of becomes what is asked.
LEMMA StoreFiles ==
  ASSUME TypeOK, FilesInv, NEW w \in Worker, Store(w)
  PROVE  FilesInv'
<1> DEFINE c == calls[w]
           next == [pc |-> "refresh", host |-> c.host]
<1>1. /\ c.pc = "store" /\ sync[w].pc \in {"off", "done"} /\ c \in AtStore
      /\ table' = [table EXCEPT ![c.host] = c.new]
      /\ Continue(w, next) /\ Go(w, Off)
      /\ UNCHANGED <<shared, files, gateway, met, excused>>
  BY CallOf, CallStates DEF Store, files
<1>2. calls'[w] = next /\ SameCalls(w) /\ sync'[w] = Off
  BY <1>1, CallsChange DEF SameCalls, Others, Go, TypeOK, SyncTypeOK
<1>3. calls'[w].pc = "refresh" /\ calls'[w].host = c.host /\ sync'[w].pc = "off"
  BY <1>2 DEF Off
<1> HIDE DEF next
<1>4. /\ ~Mid(w) /\ ~Mid(w)' /\ ~Held(w)' /\ ~IsStart(c) /\ ~IsStart(calls'[w])
      /\ Touches(c) = {c.host} /\ Touches(calls'[w]) = {c.host}
      /\ Held(w) <=> sync[w].pc = "done"
  BY <1>1, <1>3 DEF Mid, Held, Editing, IsStart, Touches
<1>5. c.host \in Host /\ \A g \in Host : table'[g] = IF g = c.host THEN c.new ELSE table[g]
  BY <1>1 DEF AtStore, TypeOK, Table
<1>6. \A v \in Worker : met[v] \subseteq excused'
  BY <1>1 DEF FilesInv, OfWorker, MetOf
<1>7. \A v \in Worker : MetOf(v)'
  BY <1>1, <1>2, <1>4, <1>6, MetKept
<1>8. ASSUME NEW v \in Others(w) PROVE OfWorker(v)'
  BY <1>1, <1>2, <1>4, <1>5, <1>7, <1>8, OthersKept DEF OfWorker, Others
<1>9. OfWorker(w)'
  BY <1>3, <1>7, QuietWorker DEF OfWorker
<1>10. ASSUME NEW h \in Host, h \notin excused' PROVE Agreed(h)' /\ Addressed(h)'
  <2>1. h \notin excused /\ includes'[h] = includes[h] /\ (h \in vhost' <=> h \in vhost)
    BY <1>1, <1>10 DEF files
  <2>2. CASE h # c.host
    BY <1>1, <1>2, <1>3, <1>4, <1>5, <2>1, <2>2, HostKept DEF Held
  <2>3. CASE h = c.host
    <3>1. h \in Touches(c) /\ h \notin met[w]
      BY <1>4, <2>1, <2>3 DEF FilesInv, OfWorker, MetOf
    <3>2. \A v \in Others(w) : /\ ~(Mid(v) /\ sync[v].host = h) /\ ~(Held(v) /\ calls[v].host = h)
                               /\ ~IsStart(calls[v])
      BY <3>1, Alone
    <3>3. Agreed(h) /\ Addressed(h)
      BY <2>1 DEF FilesInv, OfHost
    <3>4. AgreesWith(h, c.new)
      <4>1. CASE sync[w].pc = "done"
        BY <1>4, <2>3, <3>3, <4>1 DEF Agreed
      <4>2. CASE sync[w].pc = "off"
        <5>1. AgreesWith(h, table[h])
          BY <1>4, <3>2, <3>3, <4>2 DEF Agreed, Others
        <5>2. ~Guarded(c.new)
          BY <1>1, <4>2 DEF FilesInv, OfWorker, CoupledOf
        <5>3. ~Guarded(table[h])
          BY <1>1, <2>1, <2>3, <4>2 DEF FilesInv, OfWorker, RowOf
        <5> QED BY <5>1, <5>2, <5>3 DEF AgreesWith
      <4> QED BY <1>1, <4>1, <4>2
    <3>5. \A v \in Worker : /\ ~(Mid(v)' /\ sync'[v].host = h) /\ ~(Held(v)' /\ calls'[v].host = h)
                            /\ ~IsStart(calls'[v])
      BY <1>2, <1>4, <3>2 DEF SameCalls, Others, Mid, Held
    <3>6. Agreed(h)'
      BY <1>5, <2>1, <2>3, <3>4, <3>5 DEF Agreed, AgreesWith
    <3>7. Addressed(h)'
      <4>1. \A v \in Worker : ~IsStart(calls[v])
        BY <1>4, <3>2 DEF Others
      <4>2. gateway # None => includes[h] \in {None, gateway}
        BY <3>3, <4>1 DEF Addressed
      <4>3. \A v \in Worker : calls'[v].pc # "resync"
        BY <3>5 DEF IsStart
      <4> QED BY <1>1, <2>1, <3>5, <4>2, <4>3 DEF Addressed
    <3> QED BY <3>6, <3>7
  <2> QED BY <2>2, <2>3
<1>11. Validity'
  BY <1>1, <1>2, <1>4, ValidKept
<1> QED BY <1>8, <1>9, <1>10, <1>11 DEF FilesInv, OfHost, Others

---------------------------------------------------------------------------
(* sync_site: before and after its edits. *)

\* What a step of it changes.
LEMMA SyncFrame ==
  ASSUME TypeOK, NEW w \in Worker, NEW s, Go(w, s), UNCHANGED calls
  PROVE  sync'[w] = s /\ SameCalls(w)
BY DEF Go, TypeOK, SyncTypeOK, SameCalls, Others

LEMMA Overs ==
  ASSUME TypeOK, NEW w \in Worker, NEW pc, Over(w, pc), UNCHANGED calls
  PROVE  /\ sync'[w].pc = pc /\ sync'[w].host = sync[w].host /\ SameCalls(w)
<1> DEFINE s == [pc |-> pc, host |-> sync[w].host]
<1>1. Go(w, s) /\ s.pc = pc /\ s.host = sync[w].host
  BY DEF Over
<1> HIDE DEF s
<1> QED BY <1>1, SyncFrame

LEMMA NotFoundFiles ==
  ASSUME TypeOK, FilesInv, NEW w \in Worker, VhostNotFound(w),
         UNCHANGED <<calls, table, gateway, met, excused>>
  PROVE  FilesInv'
<1>1. /\ sync[w].pc = "read" /\ UNCHANGED <<shared, files>>
      /\ sync'[w].pc = "failed" /\ sync'[w].host = sync[w].host /\ SameCalls(w)
  BY Overs DEF VhostNotFound
<1>2. ~Mid(w) /\ ~Mid(w)' /\ ~Held(w) /\ ~Held(w)' /\ ~Syncing(w)'
  BY <1>1 DEF Mid, Held, Syncing, Editing
<1>3. CoupledOf(w) /\ RowOf(w) /\ ListenOf(w)
  BY DEF FilesInv, OfWorker
<1>4. CoupledOf(w)' /\ RowOf(w)' /\ HealedOf(w)' /\ ListenOf(w)'
  BY <1>1, <1>2, <1>3 DEF CoupledOf, RowOf, HealedOf, ListenOf
<1> QED BY <1>1, <1>2, <1>4, MoveFiles

\* Nothing has to be written.
LEMMA AsItIsFiles ==
  ASSUME TypeOK, FilesInv, NEW w \in Worker, sync[w].pc = "read", Over(w, "done"),
         ~sync[w].on, sync[w].host \notin vhost, includes[sync[w].host] = None,
         UNCHANGED <<shared, files, calls, table, gateway, met, excused>>
  PROVE  FilesInv'
<1> DEFINE host == sync[w].host
<1>1. sync'[w].pc = "done" /\ sync'[w].host = host /\ SameCalls(w)
  BY Overs
<1>2. ~Mid(w) /\ ~Mid(w)' /\ ~Held(w) /\ Syncing(w) /\ ~Syncing(w)'
  BY <1>1 DEF Mid, Held, Syncing, Editing
<1>3. /\ calls[w].pc \in {"store", "resync"} /\ host \in Host /\ host \in Touches(calls[w])
  BY SyncTouches
<1>4. OfWorker(w)
  BY DEF FilesInv
<1>5. \A g : Waits(w, g) => Waits(w, g)' \/ g = host
  BY <1>1, <1>2 DEF Waits
<1>6. \A v \in Worker : met[v] \subseteq excused'
  BY DEF FilesInv, OfWorker, MetOf
<1>7. \A v \in Worker : MetOf(v)'
  BY <1>1, <1>2, <1>6, MetKept
<1>8. ASSUME NEW v \in Others(w) PROVE OfWorker(v)'
  BY <1>1, <1>7, <1>8, OthersKept DEF OfWorker, Others
<1>9. OfWorker(w)'
  <2>1. CoupledOf(w)' /\ KeptOf(w)' /\ PhaseOf(w)' /\ BeforeOf(w)' /\ RowOf(w)' /\ ListenOf(w)'
    BY <1>1, <1>2, <1>4 DEF OfWorker, CoupledOf, KeptOf, PhaseOf, BeforeOf, RowOf, ListenOf
  <2>2. HealedOf(w)'
    <3>1. ASSUME calls[w].pc = "resync", met[w] = {} PROVE ~Guarded(table[host])
      BY <1>2, <1>4, <3>1 DEF OfWorker, RowOf, Guarded
    <3> QED BY <1>1, <1>4, <1>5, <3>1 DEF OfWorker, HealedOf, files
  <2> QED BY <1>7, <2>1, <2>2 DEF OfWorker
<1>10. ASSUME NEW h \in Host, h \notin excused' PROVE Agreed(h)' /\ Addressed(h)'
  <2>1. includes'[h] = includes[h] /\ table'[h] = table[h] /\ (h \in vhost' <=> h \in vhost)
    BY DEF files
  <2>2. CASE h = host /\ calls[w].pc = "store"
    <3>1. h \in Touches(calls[w]) /\ h \notin met[w]
      BY <1>3, <1>4, <1>10, <2>2 DEF OfWorker, MetOf
    <3>2. \A v \in Others(w) : /\ ~(Mid(v) /\ sync[v].host = h) /\ ~(Held(v) /\ calls[v].host = h)
                               /\ ~IsStart(calls[v])
      BY <3>1, Alone
    <3>3. \A v \in Others(w) : /\ ~(Mid(v)' /\ sync'[v].host = h)
                               /\ ~(Held(v)' /\ calls'[v].host = h) /\ ~IsStart(calls'[v])
      BY <1>1, <3>2 DEF SameCalls, Mid, Held
    <3>4. Held(w)' /\ calls'[w].host = h /\ calls'[w].new = calls[w].new /\ ~IsStart(calls'[w])
      BY <1>1, <1>4, <2>2 DEF Held, OfWorker, CoupledOf, IsStart
    <3>5. ~Guarded(calls[w].new)
      BY <1>2, <1>4, <2>2 DEF OfWorker, CoupledOf
    <3>6. Agreed(h)'
      BY <2>1, <2>2, <3>3, <3>4, <3>5 DEF Agreed, AgreesWith, Others
    <3>7. Addressed(h)'
      <4>1. \A v \in Worker : calls'[v].pc # "resync" /\ ~(Mid(v)' /\ sync'[v].host = h)
        BY <1>2, <3>3, <3>4 DEF IsStart, Others
      <4> QED BY <2>1, <2>2, <4>1 DEF Addressed
    <3> QED BY <3>6, <3>7
  <2>3. CASE h # host \/ calls[w].pc # "store"
    <3>1. Held(w)' => ~(calls'[w].host = h)
      BY <1>1, <1>4, <2>3 DEF Held, OfWorker, CoupledOf
    <3>2. ~Waits(w, h)' => ~Waits(w, h) \/ includes[h] = None
      BY <1>5
    <3> QED BY <1>1, <1>2, <1>10, <2>1, <3>1, <3>2, HostKept
  <2> QED BY <1>3, <2>2, <2>3
<1>11. Validity'
  BY <1>1, <1>2, ValidKept
<1> QED BY <1>8, <1>9, <1>10, <1>11 DEF FilesInv, OfHost, Others

\* The files are read, and will be edited.
LEMMA ReadsMeet ==
  ASSUME TypeOK, FilesInv, NEW w \in Worker, SyncReads(w), sync[w].pc = "read",
         sync'[w].pc = "include", sync'[w].host = sync[w].host, SameCalls(w), UNCHANGED calls
  PROVE  /\ \A v \in Worker : MetOf(v)' /\ met[v] \subseteq met'[v]
         /\ excused \subseteq excused'
         /\ excused' = {} => \A v \in Worker : ~Mid(v)
<1>1. \A v \in Worker : v \in Writing <=> Mid(v)
  <2>1. \A v \in Worker : sync[v].pc = "off" \/ Mid(v) \/ sync[v].pc \in {"read", "done", "failed"}
    BY SyncTouches
  <2> QED BY <2>1 DEF Writing, Mid, Editing
<1>2. \A v \in Worker : sync[v].pc # "off" => sync[v].host \in Touches(calls[v])
  BY SyncTouches
<1>3. \A v \in Worker : MetOf(v)
  BY DEF FilesInv, OfWorker
<1>4. /\ ~Mid(w) /\ Mid(w)'
      /\ \A v \in Others(w) : (Mid(v)' <=> Mid(v)) /\ sync'[v].host = sync[v].host
  BY DEF Mid, Editing, SameCalls
<1>5. Writing \subseteq Worker /\ (\A v \in Worker : Mid(v) => sync[v].pc # "off")
  BY DEF Writing, Mid, Editing
<1>6. CASE Writing # {}
  <2>1. /\ \A v \in Worker : met'[v] = IF v \in Writing \cup {w} THEN met[v] \cup {sync[v].host} ELSE met[v]
        /\ excused' = excused \cup {sync[v].host : v \in Writing} \cup {sync[w].host}
    BY <1>6 DEF SyncReads, Excuse
  <2>2. \A v \in Writing \cup {w} : sync[v].host \in excused'
    BY <2>1
  <2>3. \A v \in Worker : met'[v] \subseteq excused' \cap Touches(calls'[v]) /\ met[v] \subseteq met'[v]
    <3>1. \A v \in Writing \cup {w} : sync[v].host \in excused' \cap Touches(calls[v])
      BY <1>1, <1>2, <1>5, <2>2
    <3>2. \A v \in Worker : met[v] \subseteq excused' \cap Touches(calls[v])
      BY <1>3, <2>1 DEF MetOf
    <3>3. ASSUME NEW v \in Worker
          PROVE  met'[v] \subseteq excused' \cap Touches(calls[v]) /\ met[v] \subseteq met'[v]
      <4>1. CASE v \in Writing \cup {w}
        <5>1. met'[v] = met[v] \cup {sync[v].host}
          BY <2>1, <4>1
        <5>2. sync[v].host \in excused' \cap Touches(calls[v])
          BY <3>1, <4>1
        <5>3. met[v] \subseteq excused' \cap Touches(calls[v])
          BY <3>2
        <5> QED BY <5>1, <5>2, <5>3
      <4>2. CASE v \notin Writing \cup {w}
        BY <2>1, <3>2, <4>2
      <4> QED BY <4>1, <4>2
    <3> QED BY <3>3
  <2>4. ASSUME NEW v \in Worker, NEW u \in Worker \ {v}
        PROVE  /\ Touches(calls'[u]) \cap Touches(calls'[v]) \subseteq met'[v]
               /\ Mid(u)' /\ Mid(v)' => sync'[v].host \in met'[v]
    <3>1. Touches(calls'[u]) \cap Touches(calls'[v]) \subseteq met'[v]
      BY <1>3, <2>3 DEF MetOf
    <3>2. ASSUME Mid(u)', Mid(v)' PROVE sync'[v].host \in met'[v]
      <4>1. v \in Writing \cup {w} /\ sync'[v].host = sync[v].host
        BY <1>1, <1>4, <3>2 DEF Others
      <4> QED BY <2>1, <4>1
    <3> QED BY <3>1, <3>2
  <2> QED BY <2>1, <2>3, <2>4 DEF MetOf
<1>7. CASE Writing = {}
  <2>1. UNCHANGED <<met, excused>>
    BY <1>7 DEF SyncReads
  <2>2. \A v \in Worker : ~Mid(v)
    BY <1>1, <1>7
  <2>3. \A v \in Others(w) : ~Mid(v)'
    BY <1>4, <2>2 DEF Others
  <2> QED BY <1>3, <2>1, <2>2, <2>3 DEF MetOf, Others
<1> QED BY <1>6, <1>7

LEMMA ReadFilesFiles ==
  ASSUME TypeOK, FilesInv, NEW w \in Worker, SyncReads(w), ReadFiles(w),
         UNCHANGED <<calls, table, gateway>>
  PROVE  FilesInv'
<1> DEFINE host == sync[w].host
           s == [pc |-> "include", host |-> host, on |-> sync[w].on, listen |-> sync[w].listen,
                 original |-> vhost, previous |-> includes[host]]
<1>1. /\ sync[w].pc = "read" /\ UNCHANGED <<shared, files>>
      /\ IF VhostChanged(s) \/ IncludeChanged(s) THEN Go(w, s) ELSE Over(w, "done")
  BY DEF ReadFiles
<1>2. /\ s.pc = "include" /\ s.host = host /\ s.on = sync[w].on /\ s.listen = sync[w].listen
      /\ s.original = vhost /\ s.previous = includes[host]
  OBVIOUS
<1> HIDE DEF s
<1>3. host \in Host /\ host \in Touches(calls[w]) /\ calls[w].pc \in {"store", "resync"}
  BY <1>1, SyncTouches
<1>4. CASE ~(VhostChanged(s) \/ IncludeChanged(s))
  <2>1. Over(w, "done")
    BY <1>1, <1>4
  <2>2. ~sync[w].on /\ host \notin vhost /\ includes[host] = None
    BY <1>2, <1>4 DEF VhostChanged, IncludeChanged, Desired
  <2>3. sync'[w].pc = "done"
    BY <2>1, Overs
  <2>4. UNCHANGED <<met, excused>>
    BY <2>3 DEF SyncReads
  <2> QED BY <1>1, <2>1, <2>2, <2>4, AsItIsFiles
<1>5. CASE VhostChanged(s) \/ IncludeChanged(s)
  <2>1. sync'[w] = s /\ SameCalls(w)
    BY <1>1, <1>5, SyncFrame
  <2>2. /\ \A v \in Worker : MetOf(v)' /\ met[v] \subseteq met'[v]
        /\ excused \subseteq excused'
        /\ excused' = {} => \A v \in Worker : ~Mid(v)
    BY <1>1, <1>2, <2>1, ReadsMeet
  <2>3. OfWorker(w)
    BY DEF FilesInv
  <2>4. ~Mid(w) /\ Mid(w)' /\ Syncing(w) /\ Syncing(w)' /\ ~Held(w) /\ ~Held(w)'
    BY <1>1, <1>2, <2>1 DEF Mid, Syncing, Held, Editing
  <2>5. \A g : Waits(w, g)' <=> Waits(w, g)
    BY <1>2, <2>1, <2>4 DEF Waits
  <2>6. ASSUME NEW v \in Others(w) PROVE OfWorker(v)'
    BY <2>1, <2>2, <2>6, <1>1, OthersKept DEF OfWorker, Others
  <2>7. OfWorker(w)'
    <3>1. CoupledOf(w)'
      BY <1>1, <1>2, <1>3, <2>1, <2>3, <2>4 DEF OfWorker, CoupledOf
    <3>2. KeptOf(w)' /\ PhaseOf(w)'
      BY <1>1, <1>2, <2>1 DEF KeptOf, PhaseOf, files
    <3>3. BeforeOf(w)'
      <4>1. ASSUME host \notin excused' PROVE AgreesWith(host, table[host])
        <5>1. host \notin excused /\ host \notin met[w]
          BY <2>2, <2>3, <4>1 DEF OfWorker, MetOf
        <5>2. \A v \in Worker : ~(Mid(v) /\ sync[v].host = host) /\ ~(Held(v) /\ calls[v].host = host)
          BY <1>3, <2>4, <5>1, Alone DEF Others
        <5> QED BY <1>3, <5>1, <5>2 DEF FilesInv, OfHost, Agreed
      <4> QED BY <1>1, <1>2, <2>1, <4>1 DEF BeforeOf, AgreesWith
    <3>4. RowOf(w)'
      <4>1. \A g : g \notin met'[w] => g \notin met[w]
        BY <2>2
      <4> QED BY <1>1, <1>2, <1>3, <2>1, <2>3, <2>4, <4>1 DEF OfWorker, RowOf
    <3>5. HealedOf(w)'
      <4>1. met'[w] = {} => met[w] = {}
        BY <2>2
      <4> QED BY <1>1, <1>2, <2>1, <2>3, <2>5, <4>1 DEF OfWorker, HealedOf, files
    <3>6. ListenOf(w)'
      <4>1. \A g : g \notin met'[w] => g \notin met[w]
        BY <2>2
      <4> QED BY <1>1, <1>2, <2>1, <2>3, <2>4, <4>1 DEF OfWorker, ListenOf
    <3> QED BY <2>2, <3>1, <3>2, <3>3, <3>4, <3>5, <3>6 DEF OfWorker
  <2>8. ASSUME NEW h \in Host, h \notin excused' PROVE Agreed(h)' /\ Addressed(h)'
    <3>1. /\ includes'[h] = includes[h] /\ table'[h] = table[h] /\ (h \in vhost' <=> h \in vhost)
          /\ h \notin excused
      BY <1>1, <2>2, <2>8 DEF files
    <3>2. sync'[w].host = h => sync'[w].previous = includes[h]
      BY <1>2, <2>1
    <3>3. sync[w].pc # "failed"
      BY <1>1
    <3> QED BY <2>1, <2>4, <2>5, <3>1, <3>2, <3>3, HostKept
  <2>9. Validity'
    <3>1. SUFFICES ASSUME excused' = {} PROVE Validity'
      BY DEF Validity
    <3>2. (\A v \in Worker : ~Mid(v)) /\ excused = {} /\ \A v \in Others(w) : ~Mid(v)'
      BY <2>1, <2>2, <3>1 DEF Others, SameCalls, Mid
    <3>3. Valid
      BY <3>2 DEF FilesInv, Validity
    <3>4. [includes EXCEPT ![host] = includes[host]] = includes
      BY DEF TypeOK, SyncTypeOK
    <3>5. ValidWith(vhost, [includes EXCEPT ![host] = includes[host]])
      BY <3>3, <3>4 DEF Valid, ValidWith
    <3>6. ASSUME NEW v \in Worker, Mid(v)'
          PROVE  ValidWith(sync[v].original,
                           [includes EXCEPT ![sync[v].host] = sync[v].previous])'
      <4>1. v = w
        BY <3>2, <3>6 DEF Others
      <4>2. /\ sync'[v].original = vhost /\ sync'[v].host = host
            /\ sync'[v].previous = includes[host] /\ includes' = includes /\ shared' = shared
        BY <1>1, <1>2, <2>1, <4>1 DEF files
      <4> QED BY <3>5, <4>2 DEF ValidWith, SameBlock
    <3> QED BY <2>4, <3>6 DEF Validity
  <2> QED BY <2>6, <2>7, <2>8, <2>9 DEF FilesInv, OfHost, Others
<1> QED BY <1>4, <1>5

---------------------------------------------------------------------------
(* sync_site: the edits. *)

\* A step from one edit to the next.
LEMMA EditsFiles ==
  ASSUME TypeOK, FilesInv, NEW w \in Worker, Mid(w), NEW pc \in Editing, To(w, pc),
         UNCHANGED <<shared, calls, table, gateway, met>>, excused \subseteq excused',
         NEW x \in {includes[sync[w].host], Desired(sync[w])},
         includes' = [includes EXCEPT ![sync[w].host] = x],
         \A g \in Host \ {sync[w].host} :
           g \notin excused \/ met[w] = {} => (g \in vhost' <=> g \in vhost),
         PhaseOf(w)'
  PROVE  FilesInv'
<1> DEFINE s == sync[w]
<1>1. s \in EditState /\ s.host \in Host
  BY SyncStates, SyncTouches DEF Mid, Editing, TypeOK
<1>2. SameCalls(w) /\ sync'[w] = [s EXCEPT !.pc = pc]
  BY SyncFrame DEF To
<1>3. /\ sync'[w].pc = pc /\ sync'[w].host = s.host /\ sync'[w].on = s.on
      /\ sync'[w].listen = s.listen
      /\ sync'[w].original = s.original /\ sync'[w].previous = s.previous
  BY <1>1, <1>2 DEF EditState
<1>4. s.host \in Touches(calls[w]) /\ calls[w].pc \in {"store", "resync"}
  BY SyncTouches DEF Mid, Editing
<1>5. Mid(w)' /\ Syncing(w) /\ Syncing(w)' /\ ~Held(w) /\ ~Held(w)'
  BY <1>3 DEF Mid, Syncing, Held, Editing
<1>6. \A g : Waits(w, g)' <=> Waits(w, g)
  BY <1>3, <1>5 DEF Waits
<1>7. /\ includes'[s.host] = x
      /\ \A g \in Host \ {s.host} : includes'[g] = includes[g]
  BY <1>1 DEF TypeOK, SyncTypeOK
<1>8. OfWorker(w)
  BY DEF FilesInv
<1>9. \A v \in Worker : met[v] \subseteq excused'
  BY DEF FilesInv, OfWorker, MetOf
<1>10. \A v \in Worker : MetOf(v)'
  BY <1>2, <1>3, <1>5, <1>9, MetKept
<1>11. \A g \in Host \ excused : g = s.host \/ (g \in vhost' <=> g \in vhost)
  OBVIOUS
<1>12. ASSUME NEW v \in Others(w) PROVE OfWorker(v)'
  BY <1>2, <1>10, <1>11, <1>12, OthersKept DEF OfWorker, Others
<1>13. OfWorker(w)'
  <2>1. CoupledOf(w)' /\ RowOf(w)' /\ ListenOf(w)'
    BY <1>3, <1>4, <1>5, <1>8 DEF OfWorker, CoupledOf, RowOf, ListenOf, Mid, Editing
  <2>2. KeptOf(w)'
    <3>1. ASSUME NEW g \in Host \ {s.host}, g \notin excused' \/ met[w] = {}
          PROVE  g \in s.original <=> g \in vhost'
      <4>1. g \in vhost' <=> g \in vhost
        BY <3>1
      <4>2. g \in s.original <=> g \in vhost
        BY <1>8, <3>1 DEF OfWorker, KeptOf
      <4> QED BY <4>1, <4>2
    <3> QED BY <1>3, <3>1 DEF KeptOf
  <2>3. BeforeOf(w)'
    BY <1>3, <1>8 DEF OfWorker, BeforeOf
  <2>4. HealedOf(w)'
    <3>1. Waits(w, s.host)
      BY <1>5 DEF Waits
    <3> QED BY <1>3, <1>5, <1>6, <1>7, <1>8, <3>1 DEF OfWorker, HealedOf, Mid, Editing
  <2> QED BY <1>10, <2>1, <2>2, <2>3, <2>4 DEF OfWorker
<1>14. ASSUME NEW h \in Host, h \notin excused' PROVE Agreed(h)' /\ Addressed(h)'
  <2>1. h \notin excused
    BY <1>14
  <2>2. CASE h # s.host
    <3>1. includes'[h] = includes[h] /\ (h \in vhost' <=> h \in vhost)
      BY <1>7, <2>1, <2>2
    <3> QED BY <1>2, <1>3, <1>5, <1>6, <2>1, <2>2, <3>1, HostKept DEF Mid, Editing
  <2>3. CASE h = s.host
    <3>1. h \in Touches(calls[w]) /\ h \notin met[w]
      BY <1>4, <1>8, <2>1, <2>3 DEF OfWorker, MetOf
    <3>2. \A v \in Others(w) : /\ ~(Mid(v) /\ sync[v].host = h) /\ ~(Held(v) /\ calls[v].host = h)
                               /\ ~IsStart(calls[v])
      BY <3>1, Alone
    <3>3. \A v \in Others(w) : /\ ~(Mid(v)' /\ sync'[v].host = h)
                               /\ ~(Held(v)' /\ calls'[v].host = h) /\ ~IsStart(calls'[v])
      BY <1>2, <3>2 DEF SameCalls, Mid, Held
    <3>4. Agreed(h)'
      BY <1>3, <1>5, <2>3, <3>3 DEF Agreed, Others
    <3>5. Addressed(h)'
      <4>1. ASSUME gateway # None, ~IsStart(calls[w])
            PROVE  includes'[h] \in {None, gateway} /\ s.previous \in {None, gateway}
        <5>1. \A v \in Worker : ~IsStart(calls[v])
          BY <3>2, <4>1 DEF Others
        <5>2. Addressed(h)
          BY <2>1 DEF FilesInv, OfHost
        <5>3. includes[h] \in {None, gateway} /\ s.previous \in {None, gateway}
          BY <2>3, <4>1, <5>1, <5>2 DEF Addressed
        <5>4. calls[w].pc = "store"
          BY <1>4, <4>1 DEF IsStart
        <5>5. s.on => s.listen = gateway
          BY <1>5, <1>8, <2>3, <3>1, <4>1, <5>4 DEF OfWorker, ListenOf
        <5> QED BY <1>7, <2>3, <5>3, <5>5 DEF Desired
      <4>2. \A v \in Worker : calls'[v].pc = "resync" => v = w /\ Waits(w, h)'
        BY <1>3, <1>5, <2>3, <3>3 DEF IsStart, Waits, Others
      <4> QED BY <1>3, <3>3, <4>1, <4>2 DEF Addressed, Others
    <3> QED BY <3>4, <3>5
  <2> QED BY <2>2, <2>3
<1>15. Validity'
  <2>1. SUFFICES ASSUME excused' = {} PROVE Validity'
    BY DEF Validity
  <2>2. \A v \in Others(w) : ~Mid(v) /\ ~Mid(v)'
    <3>1. \A v \in Others(w) : ~Mid(v)
      BY <2>1 DEF FilesInv, OfWorker, MetOf, Others
    <3> QED BY <1>2, <3>1 DEF SameCalls, Mid
  <2>3. ValidWith(s.original, [includes EXCEPT ![s.host] = s.previous])
    BY <2>1 DEF FilesInv, Validity
  <2>4. [includes' EXCEPT ![s.host] = s.previous] = [includes EXCEPT ![s.host] = s.previous]
    BY <1>1, <1>7 DEF TypeOK, SyncTypeOK
  <2>5. ValidWith(sync[w].original, [includes EXCEPT ![sync[w].host] = sync[w].previous])'
    BY <1>3, <2>3, <2>4 DEF ValidWith, SameBlock
  <2> QED BY <1>5, <2>2, <2>5 DEF Validity, Others
<1> QED BY <1>12, <1>13, <1>14, <1>15 DEF FilesInv, OfHost, Others

\* The call gives up in the middle; what it could not put back is excused.
LEMMA GiveUpFiles ==
  ASSUME TypeOK, FilesInv, NEW w \in Worker, Mid(w), Over(w, "failed"),
         UNCHANGED <<shared, vhost, calls, table, gateway, met>>, excused \subseteq excused',
         NEW x \in {includes[sync[w].host], sync[w].previous},
         includes' = [includes EXCEPT ![sync[w].host] = x],
         sync[w].host \notin excused' =>
           /\ x = sync[w].previous
           /\ sync[w].pc = "restore include"
  PROVE  FilesInv'
<1> DEFINE s == sync[w]
<1>1. s \in EditState /\ s.host \in Host
  BY SyncStates, SyncTouches DEF Mid, Editing, TypeOK
<1>2. SameCalls(w) /\ sync'[w].pc = "failed" /\ sync'[w].host = s.host
  BY Overs
<1>3. s.host \in Touches(calls[w]) /\ calls[w].pc \in {"store", "resync"}
  BY SyncTouches DEF Mid, Editing
<1>4. ~Mid(w)' /\ ~Syncing(w)' /\ ~Held(w) /\ ~Held(w)' /\ sync[w].pc # "off"
  BY <1>2 DEF Mid, Syncing, Held, Editing
<1>5. /\ includes'[s.host] = x
      /\ \A g \in Host \ {s.host} : includes'[g] = includes[g]
  BY <1>1 DEF TypeOK, SyncTypeOK
<1>6. OfWorker(w)
  BY DEF FilesInv
<1>7. \A v \in Worker : met[v] \subseteq excused'
  BY DEF FilesInv, OfWorker, MetOf
<1>8. \A v \in Worker : MetOf(v)'
  BY <1>2, <1>4, <1>7, MetKept
<1>9. ASSUME NEW v \in Others(w) PROVE OfWorker(v)'
  BY <1>2, <1>8, <1>9, OthersKept DEF OfWorker, Others
<1>10. OfWorker(w)'
  <2>1. CoupledOf(w)' /\ KeptOf(w)' /\ PhaseOf(w)' /\ BeforeOf(w)' /\ RowOf(w)' /\ HealedOf(w)'
    BY <1>2, <1>3, <1>4, <1>6 DEF OfWorker, CoupledOf, KeptOf, PhaseOf, BeforeOf, RowOf, HealedOf
  <2>2. ListenOf(w)'
    BY <1>4, <1>6 DEF OfWorker, ListenOf
  <2> QED BY <1>8, <2>1, <2>2 DEF OfWorker
<1>11. ASSUME NEW h \in Host, h \notin excused' PROVE Agreed(h)' /\ Addressed(h)'
  <2>1. h \notin excused
    BY <1>11
  <2>2. CASE h # s.host
    BY <1>2, <1>4, <1>5, <2>1, <2>2, HostKept
  <2>3. CASE h = s.host
    <3>1. h \in Touches(calls[w]) /\ h \notin met[w]
      BY <1>3, <1>6, <2>1, <2>3 DEF OfWorker, MetOf
    <3>2. \A v \in Others(w) : /\ ~(Mid(v) /\ sync[v].host = h) /\ ~(Held(v) /\ calls[v].host = h)
                               /\ ~IsStart(calls[v])
      BY <3>1, Alone
    <3>3. \A v \in Others(w) : /\ ~(Mid(v)' /\ sync'[v].host = h)
                               /\ ~(Held(v)' /\ calls'[v].host = h) /\ ~IsStart(calls'[v])
      BY <1>2, <3>2 DEF SameCalls, Mid, Held
    <3>4. Agreed(h)'
      <4>1. h \in vhost <=> h \in s.original
        BY <1>6, <1>11, <2>1, <2>3, <3>1 DEF OfWorker, PhaseOf
      <4>2. /\ h \in s.original <=> Guarded(table[h])
            /\ s.previous # None <=> Guarded(table[h])
        BY <1>6, <2>1, <2>3 DEF OfWorker, BeforeOf
      <4>3. includes'[h] = s.previous
        BY <1>5, <1>11, <2>3
      <4> QED BY <1>4, <3>3, <4>1, <4>2, <4>3 DEF Agreed, AgreesWith, Others
    <3>5. Addressed(h)'
      <4>1. ASSUME gateway # None, ~IsStart(calls[w])
            PROVE  includes'[h] \in {None, gateway}
        <5>1. \A v \in Worker : ~IsStart(calls[v])
          BY <3>2, <4>1 DEF Others
        <5>2. Addressed(h)
          BY <2>1 DEF FilesInv, OfHost
        <5>3. includes[h] \in {None, gateway} /\ s.previous \in {None, gateway}
          BY <2>3, <4>1, <5>1, <5>2 DEF Addressed
        <5> QED BY <1>5, <2>3, <5>3
      <4>2. \A v \in Worker : calls'[v].pc = "resync" => sync'[v].pc = "failed"
        BY <1>2, <3>3 DEF IsStart, Others
      <4> QED BY <1>4, <3>3, <4>1, <4>2 DEF Addressed, Others
    <3> QED BY <3>4, <3>5
  <2> QED BY <2>2, <2>3
<1>12. Validity'
  <2>1. SUFFICES ASSUME excused' = {} PROVE Validity'
    BY DEF Validity
  <2>2. \A v \in Others(w) : ~Mid(v) /\ ~Mid(v)'
    <3>1. \A v \in Others(w) : ~Mid(v)
      BY <2>1 DEF FilesInv, OfWorker, MetOf, Others
    <3> QED BY <1>2, <3>1 DEF SameCalls, Mid
  <2>3. ValidWith(s.original, [includes EXCEPT ![s.host] = s.previous])
    BY <2>1 DEF FilesInv, Validity
  <2>4. includes' = [includes EXCEPT ![s.host] = s.previous]
    BY <2>1
  <2>5. vhost' = s.original
    <3>1. \A g \in Host \ {s.host} : g \in s.original <=> g \in vhost
      BY <1>6, <2>1 DEF OfWorker, KeptOf
    <3>2. s.host \in vhost <=> s.host \in s.original
      BY <1>6, <2>1, <1>7 DEF OfWorker, PhaseOf
    <3>3. s.original \subseteq Host /\ vhost \subseteq Host
      BY <1>1 DEF EditState, TypeOK, SyncTypeOK
    <3>4. \A g \in Host : g \in s.original <=> g \in vhost
      BY <3>1, <3>2
    <3>5. vhost' = vhost
      OBVIOUS
    <3> HIDE DEF s
    <3> QED BY <3>3, <3>4, <3>5
  <2>6. Valid'
    BY <2>3, <2>4, <2>5 DEF Valid, ValidWith, SameBlock
  <2> QED BY <1>4, <2>2, <2>6 DEF Validity, Others
<1> QED BY <1>9, <1>10, <1>11, <1>12 DEF FilesInv, OfHost, Others

\* Nginx takes the files: what this call met nobody on is right again.
LEMMA PassFiles ==
  ASSUME TypeOK, FilesInv, NEW w \in Worker, sync[w].pc = "test", Passes, Over(w, "done"),
         UNCHANGED <<shared, files, calls, table, gateway, met>>,
         excused' = excused \ ({sync[w].host} \ met[w])
  PROVE  FilesInv'
<1> DEFINE s == sync[w]
           host == s.host
<1>1. Mid(w) /\ Syncing(w) /\ ~Held(w)
  BY DEF Mid, Syncing, Editing, Held
<1>2. s \in EditState /\ host \in Host
  BY <1>1, SyncStates, SyncTouches DEF Mid, TypeOK
<1>3. SameCalls(w) /\ sync'[w].pc = "done" /\ sync'[w].host = host
  BY Overs
<1>4. host \in Touches(calls[w]) /\ calls[w].pc \in {"store", "resync"}
  BY SyncTouches
<1>5. ~Mid(w)' /\ ~Syncing(w)' /\ (Held(w)' <=> calls[w].pc = "store")
  BY <1>3 DEF Mid, Syncing, Held, Editing
<1>6. OfWorker(w)
  BY DEF FilesInv
<1>7. excused' \subseteq excused /\ \A g \in Host : g \in excused \ excused' => g = host /\ host \notin met[w]
  BY DEF TypeOK
<1>8. ASSUME host \notin met[w]
      PROVE  /\ (host \in vhost <=> s.on) /\ includes[host] = Desired(s)
             /\ \A v \in Others(w) : /\ host \notin Touches(calls[v]) /\ ~Mid(v)
                                     /\ ~(Held(v) /\ calls[v].host = host) /\ ~IsStart(calls[v])
  <2>1. (host \in vhost <=> s.on) /\ includes[host] = Desired(s)
    BY <1>1, <1>6, <1>8 DEF OfWorker, PhaseOf
  <2>2. \A v \in Others(w) : ~Mid(v)
    BY <1>1, <1>6, <1>8 DEF OfWorker, MetOf, Others
  <2> QED BY <1>4, <1>8, <2>1, <2>2, Alone
<1>9. \A v \in Worker : met[v] \subseteq excused'
  <2>1. ASSUME NEW v \in Others(w), host \notin met[w] PROVE host \notin met[v]
    <3>1. met[v] \subseteq Touches(calls[v])
      BY DEF FilesInv, OfWorker, MetOf, Others
    <3> QED BY <1>8, <2>1, <3>1
  <2>2. \A v \in Worker : met[v] \subseteq excused /\ met[v] \subseteq Host
    BY DEF FilesInv, OfWorker, MetOf, TypeOK
  <2> QED BY <1>7, <2>1, <2>2 DEF Others
<1>10. \A v \in Worker : MetOf(v)'
  BY <1>3, <1>5, <1>9, MetKept
<1>11. ASSUME NEW v \in Others(w) PROVE OfWorker(v)'
  <2>1. Touches(calls[v]) \subseteq Host
    BY CallOf, CallStates DEF Others
  <2>2. \A g \in Touches(calls[v]) : g \in excused => g \in excused'
    BY <1>7, <1>8, <1>11, <2>1
  <2>3. Mid(v) => excused \subseteq excused'
    BY <1>7, <1>8, <1>11 DEF TypeOK
  <2> QED BY <1>3, <1>10, <1>11, <2>2, <2>3, OthersKept DEF OfWorker, Others
<1>12. \A g : Waits(w, g) => Waits(w, g)' \/ g = host
  BY <1>3, <1>5 DEF Waits
<1>13. host \notin met[w] =>
         /\ calls[w].pc = "store" =>
              /\ s.on = Guarded(calls[w].new) /\ (s.on => s.listen # None)
              /\ gateway # None /\ s.on => s.listen = gateway
         /\ calls[w].pc = "resync" =>
              /\ s.on <=> Guarded(table[host])
              /\ s.listen = calls[w].listen /\ s.listen # None
  <2>1. calls[w].pc = "resync" => calls[w].listen # None
    BY CallOf, CallStates, NginxAssumptions DEF AtResync
  <2>2. s.on \in BOOLEAN
    BY <1>2 DEF EditState
  <2>3. host \notin met[w] /\ calls[w].pc = "resync" =>
          Inline(table[host]) /\ s.on = table[host].enabled
    BY <1>1, <1>6 DEF OfWorker, RowOf
  <2>4. calls[w].pc = "resync" => s.listen = calls[w].listen
    BY <1>1, <1>6 DEF OfWorker, CoupledOf
  <2>5. calls[w].pc = "store" => s.on = Guarded(calls[w].new) /\ (s.on => s.listen # None)
    BY <1>1, <1>6 DEF OfWorker, CoupledOf
  <2>6. host \notin met[w] /\ calls[w].pc = "store" /\ gateway # None /\ s.on => s.listen = gateway
    BY <1>1, <1>6 DEF OfWorker, ListenOf
  <2> QED BY <2>1, <2>2, <2>3, <2>4, <2>5, <2>6 DEF Guarded
<1>14. OfWorker(w)'
  <2>1. CoupledOf(w)' /\ KeptOf(w)' /\ PhaseOf(w)' /\ BeforeOf(w)' /\ RowOf(w)' /\ ListenOf(w)'
    BY <1>1, <1>3, <1>4, <1>5, <1>6 DEF OfWorker, CoupledOf, KeptOf, PhaseOf, BeforeOf, RowOf, ListenOf
  <2>2. HealedOf(w)'
    <3>1. ASSUME calls[w].pc = "resync", met[w] = {}
          PROVE  /\ host \in vhost <=> Guarded(table[host])
                 /\ includes[host] = IF Guarded(table[host]) THEN calls[w].listen ELSE None
      BY <1>8, <1>13, <3>1 DEF Desired
    <3> QED BY <1>3, <1>6, <1>12, <3>1 DEF OfWorker, HealedOf, files
  <2> QED BY <1>10, <2>1, <2>2 DEF OfWorker
<1>15. ASSUME NEW h \in Host, h \notin excused' PROVE Agreed(h)' /\ Addressed(h)'
  <2>1. includes'[h] = includes[h] /\ table'[h] = table[h] /\ (h \in vhost' <=> h \in vhost)
    BY DEF files
  <2>2. CASE h # host
    <3>1. h \notin excused
      BY <1>7, <1>15, <2>2
    <3>2. calls[w].pc = "store" => calls[w].host = host
      BY <1>6 DEF OfWorker, CoupledOf
    <3>3. ~(Held(w)' /\ calls'[w].host = h) /\ ~(Mid(w) /\ sync[w].host = h)
      BY <1>5, <2>2, <3>2
    <3>4. ~Waits(w, h)' => ~Waits(w, h)
      BY <1>12, <2>2
    <3> QED BY <1>1, <1>3, <1>5, <2>1, <2>2, <3>1, <3>3, <3>4, HostKept
  <2>3. CASE h = host
    <3>1. host \notin met[w]
      BY <1>9, <1>15, <2>3
    <3>2. \A v \in Others(w) : /\ ~Mid(v)' /\ ~IsStart(calls'[v])
                               /\ ~(Held(v)' /\ calls'[v].host = h)
      BY <1>3, <1>8, <2>3, <3>1 DEF SameCalls, Mid, Held
    <3>3. (h \in vhost <=> s.on) /\ includes[h] = Desired(s)
      BY <1>8, <2>3, <3>1
    <3>4. Agreed(h)'
      <4>1. CASE calls[w].pc = "store"
        <5>1. AgreesWith(h, calls[w].new)
          BY <1>13, <2>3, <3>1, <3>3, <4>1 DEF AgreesWith, Desired
        <5>2. Held(w)' /\ calls'[w].host = h /\ calls'[w].new = calls[w].new
          BY <1>5, <1>6, <2>3, <4>1 DEF OfWorker, CoupledOf
        <5> QED BY <2>1, <3>2, <5>1, <5>2 DEF Agreed, AgreesWith, Others
      <4>2. CASE calls[w].pc = "resync"
        <5>1. AgreesWith(h, table[h])
          BY <1>13, <2>3, <3>1, <3>3, <4>2 DEF AgreesWith, Desired
        <5>2. ~Held(w)'
          BY <1>5, <4>2
        <5> QED BY <2>1, <3>2, <5>1, <5>2 DEF Agreed, AgreesWith, Others
      <4> QED BY <1>4, <4>1, <4>2
    <3>5. Addressed(h)'
      <4>1. CASE calls[w].pc = "store"
        <5>1. gateway # None => includes[h] \in {None, gateway}
          BY <1>13, <2>3, <3>1, <3>3, <4>1 DEF Desired
        <5>2. \A v \in Worker : calls'[v].pc # "resync" /\ ~Mid(v)'
          BY <1>5, <3>2, <4>1 DEF IsStart, Others
        <5> QED BY <2>1, <5>1, <5>2 DEF Addressed
      <4>2. CASE calls[w].pc = "resync"
        <5>1. includes[h] \in {None, calls[w].listen}
          BY <1>13, <2>3, <3>1, <3>3, <4>2 DEF Desired
        <5>2. IsStart(calls'[w]) /\ \A v \in Others(w) : calls'[v].pc # "resync"
          BY <3>2, <4>2 DEF IsStart
        <5> QED BY <2>1, <5>1, <5>2 DEF Addressed, Others
      <4> QED BY <1>4, <4>1, <4>2
    <3> QED BY <3>4, <3>5
  <2> QED BY <2>2, <2>3
<1>16. Validity'
  <2>1. SUFFICES ASSUME excused' = {} PROVE Validity'
    BY DEF Validity
  <2>2. host \notin met[w]
    BY <1>9, <2>1
  <2>3. \A v \in Worker : ~Mid(v)'
    BY <1>3, <1>5, <1>8, <2>2 DEF SameCalls, Mid, Others
  <2>4. Valid'
    BY DEF Passes, Valid, SameBlock, files
  <2> QED BY <2>3, <2>4 DEF Validity
<1> QED BY <1>11, <1>14, <1>15, <1>16 DEF FilesInv, OfHost, Others

LEMMA WriteFiles ==
  ASSUME TypeOK, FilesInv, NEW w \in Worker, WriteInclude(w) \/ WriteVhost(w),
         Excuse(IF sync'[w].pc = "failed" THEN {sync[w].host} ELSE {}),
         UNCHANGED <<calls, table, gateway, met>>
  PROVE  FilesInv'
<1> DEFINE s == sync[w]
<1>1. Mid(w) /\ s.pc \in {"include", "vhost"} /\ UNCHANGED shared
  BY DEF WriteInclude, WriteVhost, Mid, Editing
<1>2. s \in EditState /\ s.host \in Host
  BY <1>1, SyncStates, SyncTouches DEF Mid, TypeOK
<1>3. excused \subseteq excused'
  BY DEF Excuse
<1>4. includes = [includes EXCEPT ![s.host] = includes[s.host]]
  BY DEF TypeOK, SyncTypeOK
<1>5. PhaseOf(w) /\ KeptOf(w)
  BY DEF FilesInv, OfWorker
<1>6. ASSUME NEW pc \in Editing, To(w, pc)
      PROVE  /\ sync'[w].pc = pc /\ sync'[w].host = s.host /\ sync'[w].on = s.on
             /\ sync'[w].listen = s.listen /\ sync'[w].original = s.original
             /\ sync'[w].previous = s.previous
  <2>1. sync'[w] = [s EXCEPT !.pc = pc]
    BY <1>6, SyncFrame DEF To
  <2> QED BY <1>2, <2>1 DEF EditState
<1>7. CASE Over(w, "failed") /\ UNCHANGED <<vhost, includes>>
  <2>1. s.host \in excused'
    BY <1>7, Overs DEF Excuse
  <2> QED BY <1>1, <1>3, <1>4, <1>7, <2>1, GiveUpFiles
<1>8. CASE /\ s.pc = "include"
           /\ includes' = [includes EXCEPT ![s.host] = Desired(s)]
           /\ To(w, IF VhostChanged(s) THEN "vhost" ELSE "test")
           /\ UNCHANGED vhost
  <2> DEFINE pc == IF VhostChanged(s) THEN "vhost" ELSE "test"
  <2>1. pc \in Editing /\ To(w, pc)
    BY <1>8 DEF Editing
  <2>2. includes'[s.host] = Desired(s)
    BY <1>2, <1>8 DEF TypeOK, SyncTypeOK
  <2>3. ~VhostChanged(s) => ~s.on /\ s.host \notin s.original
    BY DEF VhostChanged
  <2>4. pc \in {"vhost", "test"} /\ (pc = "test" => ~VhostChanged(s))
    OBVIOUS
  <2> HIDE DEF pc
  <2>5. /\ sync'[w].pc = pc /\ sync'[w].host = s.host /\ sync'[w].on = s.on
        /\ sync'[w].listen = s.listen /\ sync'[w].original = s.original
        /\ sync'[w].previous = s.previous
    BY <1>6, <2>1
  <2>6. s.host \notin met[w] => (s.host \in vhost <=> s.host \in s.original)
    BY <1>1, <1>5 DEF PhaseOf
  <2>7. PhaseOf(w)'
    BY <1>8, <2>2, <2>3, <2>4, <2>5, <2>6 DEF PhaseOf, Desired
  <2> QED BY <1>1, <1>3, <1>8, <2>1, <2>7, EditsFiles
<1>9. CASE s.pc = "vhost" /\ vhost' = Marked(s) /\ To(w, "test") /\ UNCHANGED includes
  <2>1. "test" \in Editing
    BY DEF Editing
  <2>2. /\ sync'[w].pc = "test" /\ sync'[w].host = s.host /\ sync'[w].on = s.on
        /\ sync'[w].listen = s.listen
    BY <1>6, <1>9, <2>1
  <2>3. s.host \in vhost' <=> s.on
    BY <1>9 DEF Marked
  <2>4. s.host \notin met[w] => includes[s.host] = Desired(s)
    BY <1>1, <1>5, <1>9 DEF PhaseOf
  <2>5. PhaseOf(w)'
    BY <1>9, <2>2, <2>3, <2>4 DEF PhaseOf, Desired
  <2>6. \A g \in Host \ {s.host} : g \notin excused \/ met[w] = {} => (g \in vhost' <=> g \in vhost)
    <3>1. \A g \in Host \ {s.host} : g \in vhost' <=> g \in s.original
      BY <1>9 DEF Marked
    <3> QED BY <1>1, <1>5, <3>1 DEF KeptOf
  <2> QED BY <1>1, <1>3, <1>4, <1>9, <2>1, <2>5, <2>6, EditsFiles
<1>10. \/ Over(w, "failed") /\ UNCHANGED <<vhost, includes>>
       \/ /\ s.pc = "include"
          /\ includes' = [includes EXCEPT ![s.host] = Desired(s)]
          /\ To(w, IF VhostChanged(s) THEN "vhost" ELSE "test")
          /\ UNCHANGED vhost
       \/ s.pc = "vhost" /\ vhost' = Marked(s) /\ To(w, "test") /\ UNCHANGED includes
  BY DEF WriteInclude, WriteVhost
<1> QED BY <1>7, <1>8, <1>9, <1>10

\* Nginx refuses, or cannot be asked.
LEMMA RefusedFiles ==
  ASSUME TypeOK, FilesInv, NEW w \in Worker, sync[w].pc = "test",
         To(w, IF VhostChanged(sync[w]) THEN "restore vhost" ELSE "restore include"),
         UNCHANGED <<shared, files, calls, table, gateway, met, excused>>
  PROVE  FilesInv'
<1> DEFINE s == sync[w]
           pc == IF VhostChanged(s) THEN "restore vhost" ELSE "restore include"
<1>1. Mid(w) /\ pc \in Editing /\ To(w, pc)
  BY DEF Mid, Editing
<1>2. s \in EditState
  BY <1>1, SyncStates DEF Mid, TypeOK
<1>3. sync'[w] = [s EXCEPT !.pc = pc]
  BY <1>1, SyncFrame DEF To
<1>4. ~VhostChanged(s) => ~s.on /\ s.host \notin s.original
  BY DEF VhostChanged
<1>5. pc \in {"restore vhost", "restore include"} /\ (pc = "restore include" => ~VhostChanged(s))
  OBVIOUS
<1> HIDE DEF pc
<1>6. /\ sync'[w].pc = pc /\ sync'[w].host = s.host /\ sync'[w].on = s.on
      /\ sync'[w].listen = s.listen /\ sync'[w].original = s.original
  BY <1>2, <1>3 DEF EditState
<1>7. s.host \notin met[w] => (s.host \in vhost <=> s.on) /\ includes[s.host] = Desired(s)
  BY <1>1 DEF FilesInv, OfWorker, PhaseOf
<1>8. PhaseOf(w)'
  BY <1>4, <1>5, <1>6, <1>7 DEF PhaseOf, Desired, files
<1>9. includes' = [includes EXCEPT ![s.host] = includes[s.host]]
  BY DEF TypeOK, SyncTypeOK, files
<1> QED BY <1>1, <1>8, <1>9, EditsFiles DEF files

LEMMA RestoreFiles ==
  ASSUME TypeOK, FilesInv, NEW w \in Worker, SyncRestores(w),
         UNCHANGED <<calls, table, gateway>>
  PROVE  FilesInv'
<1> DEFINE s == sync[w]
<1>1. Mid(w) /\ UNCHANGED <<shared, met>> /\ excused \subseteq excused'
  BY DEF SyncRestores, RestoreVhost, RestoreInclude, Mid, Editing, Excuse
<1>2. s \in EditState /\ s.host \in Host
  BY <1>1, SyncStates, SyncTouches DEF Mid, Editing, TypeOK
<1>3. PhaseOf(w) /\ KeptOf(w)
  BY DEF FilesInv, OfWorker
<1>4. CASE RestoreVhost(w)
  <2>1. /\ s.pc = "restore vhost" /\ To(w, "restore include") /\ UNCHANGED includes
        /\ vhost' = s.original \/ vhost' = vhost
    BY <1>4 DEF RestoreVhost
  <2>2. vhost' # s.original => s.host \in excused'
    BY <2>1 DEF SyncRestores, Excuse
  <2>3. "restore include" \in Editing
    BY DEF Editing
  <2>4. sync'[w] = [s EXCEPT !.pc = "restore include"]
    BY <2>1, SyncFrame DEF To
  <2>5. /\ sync'[w].pc = "restore include" /\ sync'[w].host = s.host /\ sync'[w].on = s.on
        /\ sync'[w].listen = s.listen /\ sync'[w].original = s.original
    BY <1>2, <2>4 DEF EditState
  <2>6. s.host \notin met[w] => includes[s.host] = Desired(s)
    BY <1>1, <1>3, <2>1 DEF PhaseOf
  <2>7. PhaseOf(w)'
    BY <1>1, <2>1, <2>2, <2>5, <2>6 DEF PhaseOf, Desired
  <2>8. \A g \in Host \ {s.host} : g \notin excused \/ met[w] = {} => (g \in vhost' <=> g \in vhost)
    BY <1>1, <1>3, <2>1 DEF KeptOf
  <2>9. includes' = [includes EXCEPT ![s.host] = includes[s.host]]
    BY <2>1 DEF TypeOK, SyncTypeOK
  <2> QED BY <1>1, <2>1, <2>3, <2>7, <2>8, <2>9, EditsFiles
<1>5. CASE RestoreInclude(w)
  <2>1. PICK x \in {s.previous, includes[s.host]} : includes' = [includes EXCEPT ![s.host] = x]
    BY <1>5 DEF RestoreInclude, Restored
  <2>2. s.pc = "restore include" /\ Over(w, "failed") /\ UNCHANGED vhost
    BY <1>5 DEF RestoreInclude
  <2>3. includes'[s.host] = x
    BY <1>2, <2>1 DEF TypeOK, SyncTypeOK
  <2>4. s.host \notin excused' => x = s.previous
    BY <2>2, <2>3 DEF SyncRestores, Excuse, Restored
  <2> QED BY <1>1, <2>1, <2>2, <2>4, GiveUpFiles
<1> QED BY <1>4, <1>5 DEF SyncRestores

LEMMA SyncFiles ==
  ASSUME TypeOK, FilesInv, NEW w \in Worker, Sync(w)
  PROVE  FilesInv'
<1>1. UNCHANGED <<table, gateway, calls>>
  BY DEF Sync
<1>2. CASE SyncReads(w)
  <2>1. CASE VhostNotFound(w)
    <3>1. sync'[w].pc = "failed"
      BY <1>1, <2>1, Overs DEF VhostNotFound
    <3>2. UNCHANGED <<met, excused>>
      BY <1>2, <3>1 DEF SyncReads
    <3> QED BY <1>1, <2>1, <3>2, NotFoundFiles
  <2>2. CASE ReadFiles(w)
    BY <1>1, <1>2, <2>2, ReadFilesFiles
  <2> QED BY <1>2, <2>1, <2>2 DEF SyncReads
<1>3. CASE SyncWrites(w)
  BY <1>1, <1>3, WriteFiles DEF SyncWrites
<1>4. CASE SyncTests(w)
  <2>1. sync[w].pc = "test" /\ UNCHANGED <<shared, files, met>>
    BY <1>4 DEF SyncTests, TestAndReload
  <2>2. CASE Passes /\ Over(w, "done")
    <3>1. sync'[w].pc = "done"
      BY <1>1, <2>2, Overs
    <3>2. excused' = excused \ ({sync[w].host} \ met[w])
      BY <1>4, <3>1 DEF SyncTests
    <3> QED BY <1>1, <2>1, <2>2, <3>2, PassFiles
  <2>3. CASE To(w, IF VhostChanged(sync[w]) THEN "restore vhost" ELSE "restore include")
    <3> DEFINE pc == IF VhostChanged(sync[w]) THEN "restore vhost" ELSE "restore include"
               s == [sync[w] EXCEPT !.pc = pc]
    <3>1. sync[w] \in EditState
      BY <2>1, SyncStates DEF Editing, TypeOK
    <3>2. s.pc = pc /\ pc # "done"
      BY <3>1 DEF EditState
    <3>3. Go(w, s)
      BY <2>3 DEF To
    <3> HIDE DEF s, pc
    <3>4. sync'[w].pc # "done"
      BY <1>1, <3>2, <3>3, SyncFrame
    <3>5. UNCHANGED excused
      BY <1>4, <3>4 DEF SyncTests
    <3> QED BY <1>1, <2>1, <2>3, <3>5, RefusedFiles
  <2> QED BY <1>4, <2>2, <2>3 DEF SyncTests, TestAndReload
<1>5. CASE SyncRestores(w)
  BY <1>1, <1>5, RestoreFiles
<1> QED BY <1>2, <1>3, <1>4, <1>5 DEF Sync

---------------------------------------------------------------------------
(* The gateway stops, and the process dies. *)

LEMMA StopFiles ==
  ASSUME TypeOK, FilesInv, gateway' \in {gateway, None},
         UNCHANGED <<syncVars, table, calls, met, excused>>
  PROVE  FilesInv'
<1>1. UNCHANGED <<shared, vhost, includes, sync>>
  BY DEF syncVars, files
<1>2. ASSUME NEW w \in Worker PROVE OfWorker(w)'
  <2>1. OfWorker(w)
    BY DEF FilesInv
  <2>2. /\ Mid(w)' <=> Mid(w)
        /\ Syncing(w)' <=> Syncing(w)
        /\ \A h : Waits(w, h)' <=> Waits(w, h)
    BY <1>1 DEF Mid, Syncing, Waits
  <2>3. CoupledOf(w)' /\ KeptOf(w)' /\ BeforeOf(w)'
    BY <1>1, <2>1, <2>2 DEF OfWorker, CoupledOf, KeptOf, BeforeOf
  <2>4. PhaseOf(w)'
    BY <1>1, <2>1, <2>2 DEF OfWorker, PhaseOf
  <2>5. RowOf(w)'
    BY <1>1, <2>1, <2>2 DEF OfWorker, RowOf
  <2>6. MetOf(w)'
    BY <1>1, <2>1 DEF OfWorker, MetOf, Mid
  <2>7. HealedOf(w)' /\ ListenOf(w)'
    BY <1>1, <2>1, <2>2 DEF OfWorker, HealedOf, ListenOf
  <2> QED BY <2>3, <2>4, <2>5, <2>6, <2>7 DEF OfWorker
<1>3. ASSUME NEW h \in Host PROVE OfHost(h)'
  <2>1. OfHost(h)
    BY DEF FilesInv
  <2> QED BY <1>1, <2>1 DEF OfHost, Agreed, AgreesWith, Addressed, Mid, Held, Waits, Syncing
<1>4. Validity'
  BY <1>1 DEF FilesInv, Validity, Valid, ValidWith, SameBlock, Mid
<1> QED BY <1>2, <1>3, <1>4 DEF FilesInv

LEMMA CrashFiles ==
  ASSUME TypeOK, FilesInv, Crash
  PROVE  FilesInv'
<1>1. /\ \A w \in Worker : calls'[w].pc = "none" /\ sync'[w].pc = "off" /\ met'[w] = {}
      /\ gateway' = None /\ UNCHANGED <<shared, vhost, includes, table>>
  BY DEF Crash, Nothing, Off, files
<1>2. \A w \in Worker : /\ ~Mid(w)' /\ ~Syncing(w)' /\ ~Held(w)'
                        /\ Touches(calls'[w]) = {}
  BY <1>1 DEF Mid, Syncing, Held, Editing, Touches, IsStart
<1>3. \A w \in Worker : OfWorker(w)'
  BY <1>1, <1>2 DEF OfWorker, CoupledOf, MetOf, KeptOf, PhaseOf, BeforeOf, RowOf, HealedOf, ListenOf
<1>4. /\ excused \subseteq excused'
      /\ \A w \in Worker : Mid(w) /\ sync[w].pc # "include" => sync[w].host \in excused'
      /\ \A w \in Worker : Held(w) => sync[w].host \in excused'
  BY DEF Crash, Excuse, Writing, Mid, Editing, Held
<1>5. \A w \in Worker : Held(w) => sync[w].host = calls[w].host
  BY DEF Held, FilesInv, OfWorker, CoupledOf
<1>6. \A w \in Worker : Mid(w) => sync[w].host \in Host
  BY SyncTouches DEF Mid, Editing
<1>7. ASSUME NEW h \in Host, h \notin excused' PROVE AgreesWith(h, table[h])
  <2>1. CASE \E w \in Worker : Mid(w) /\ sync[w].host = h
    <3>1. PICK w \in Worker : Mid(w) /\ sync[w].host = h
      BY <2>1
    <3>2. sync[w].pc = "include" /\ h \notin excused
      BY <1>4, <1>7, <3>1
    <3>3. h \notin met[w]
      BY <3>2 DEF FilesInv, OfWorker, MetOf
    <3>4. (h \in vhost <=> h \in sync[w].original) /\ includes[h] = sync[w].previous
      BY <3>1, <3>2, <3>3 DEF FilesInv, OfWorker, PhaseOf
    <3>5. /\ h \in sync[w].original <=> Guarded(table[h])
          /\ sync[w].previous # None <=> Guarded(table[h])
      BY <3>1, <3>2 DEF FilesInv, OfWorker, BeforeOf
    <3> QED BY <3>4, <3>5 DEF AgreesWith
  <2>2. CASE \A w \in Worker : ~(Mid(w) /\ sync[w].host = h)
    BY <1>4, <1>5, <1>7, <2>2 DEF FilesInv, OfHost, Agreed
  <2> QED BY <2>1, <2>2
<1>8. ASSUME NEW h \in Host, h \notin excused' PROVE Agreed(h)' /\ Addressed(h)'
  <2>1. AgreesWith(h, table[h])
    BY <1>7, <1>8
  <2> QED BY <1>1, <1>2, <2>1 DEF Agreed, AgreesWith, Addressed
<1>9. Validity'
  <2>1. SUFFICES ASSUME excused' = {} PROVE Validity'
    BY DEF Validity
  <2>2. excused = {} /\ \A w \in Worker : Mid(w) => sync[w].pc = "include"
    BY <1>4, <2>1
  <2>3. Valid
    <3>1. CASE \A w \in Worker : ~Mid(w)
      BY <2>2, <3>1 DEF FilesInv, Validity
    <3>2. CASE \E w \in Worker : Mid(w)
      <4>1. PICK w \in Worker : Mid(w)
        BY <3>2
      <4> DEFINE s == sync[w]
      <4>2. s \in EditState /\ s.host \in Host /\ s.host \notin met[w] /\ met[w] = {}
        <5>1. met[w] = {}
          BY <2>2 DEF FilesInv, OfWorker, MetOf
        <5> QED BY <1>6, <4>1, <5>1, SyncStates DEF Mid, TypeOK
      <4>3. (s.host \in vhost <=> s.host \in s.original) /\ includes[s.host] = s.previous
        BY <2>2, <4>1, <4>2 DEF FilesInv, OfWorker, PhaseOf
      <4>4. \A g \in Host \ {s.host} : g \in s.original <=> g \in vhost
        BY <4>1, <4>2 DEF FilesInv, OfWorker, KeptOf
      <4>5. s.original \subseteq Host /\ vhost \subseteq Host
        BY <4>2 DEF EditState, TypeOK, SyncTypeOK
      <4>6. \A g \in Host : g \in s.original <=> g \in vhost
        BY <4>3, <4>4
      <4>7. ValidWith(s.original, [includes EXCEPT ![s.host] = s.previous])
        BY <2>2, <4>1 DEF FilesInv, Validity
      <4>8. [includes EXCEPT ![s.host] = s.previous] = includes
        BY <4>3 DEF TypeOK, SyncTypeOK
      <4> HIDE DEF s
      <4>9. s.original = vhost
        BY <4>5, <4>6
      <4> QED BY <4>7, <4>8, <4>9 DEF Valid, ValidWith
    <3> QED BY <3>1, <3>2
  <2> QED BY <1>1, <1>2, <2>3 DEF Validity, Valid, SameBlock
<1> QED BY <1>3, <1>8, <1>9 DEF FilesInv, OfHost

---------------------------------------------------------------------------
(* The theorems. *)

LEMMA FilesStep ==
  ASSUME TypeOK, MapInv, FilesInv, [Next]_vars
  PROVE  FilesInv'
<1>1. CASE UNCHANGED vars
  <2>1. gateway' = gateway /\ UNCHANGED <<syncVars, table, calls, met, excused>>
    BY <1>1 DEF vars, history
  <2> QED BY <2>1, StopFiles
<1>2. CASE StopGateway
  <2>1. gateway' = None /\ UNCHANGED <<syncVars, table, calls, met, excused>>
    BY <1>2 DEF StopGateway, history
  <2> QED BY <2>1, StopFiles
<1>3. CASE Crash
  BY <1>3, CrashFiles
<1>4. ASSUME NEW w \in Worker, Step(w) PROVE FilesInv'
  BY <1>4, EditFiles, ReloadFiles, SeeGatewayFiles, SyncFiles, StoreFiles, FailFiles,
     ReadTableFiles, StartFiles, LoadFiles, NextFiles, BootFiles DEF Step
<1> QED BY <1>1, <1>2, <1>3, <1>4 DEF Next

\* The invariants, together.
FilesRight == TypeOK /\ MapInv /\ FilesInv

LEMMA FilesInductive == Spec => []FilesRight
<1>1. Init => MapInv
  BY DEF Init, MapInv, CopiesCurrent, UpOrNot, MapCurrent, Booting, IsStart, Nothing
<1>2. Init /\ TypeOK => FilesInv
  BY FilesInit
<1>3. TypeOK /\ MapInv /\ FilesInv /\ [Next]_vars => MapInv' /\ FilesInv'
  BY MapStep, FilesStep
<1>4. Spec => [](MapInv /\ FilesInv)
  BY <1>1, <1>2, <1>3, TypeCorrect, PTL DEF Spec
<1>5. TypeOK /\ MapInv /\ FilesInv => FilesRight
  BY DEF FilesRight
<1> QED BY <1>4, <1>5, TypeCorrect, PTL

\* Whatever calls interleave, fail or are cut off by a crash, a host that
\* nothing is in flight on and that is not excused has its marker and its
\* include exactly when its row asks for them.
THEOREM FilesFollowTable == Spec => []FilesAgree
<1>1. FilesRight => FilesAgree
  BY FilesAreRight DEF FilesRight
<1> QED BY <1>1, FilesInductive, PTL

\* The include of such a host names no address but the gateway's.
THEOREM AddressFollowsGateway == Spec => []AddressCurrent
<1>1. FilesRight => AddressCurrent
  BY FilesAreRight DEF FilesRight
<1> QED BY <1>1, FilesInductive, PTL

\* As long as no host is excused, what is left when no call edits is valid.
THEOREM FilesStayValid == Spec => []NeverInvalid
<1>1. FilesRight => NeverInvalid
  BY FilesAreRight DEF FilesRight
<1> QED BY <1>1, FilesInductive, PTL

\* A start of the gateway that ends well and met no other call has put every
\* site that Nginx is to know in the state its row asks for, whatever state it
\* found.
THEOREM StartsPutRight == Spec => ResyncHeals
<1> DEFINE Healed == \A w \in Worker : (ResyncEnds(w) /\ met[w] = {}) =>
       \A h \in {g \in Host : Inline(table[g])} :
         /\ h \in vhost <=> Guarded(table[h])
         /\ includes[h] = IF Guarded(table[h]) THEN calls[w].listen ELSE None
<1>1. FilesRight => Healed
  BY StartsHeal DEF FilesRight
<1>2. FilesRight /\ [Next]_vars => [Healed]_vars
  BY <1>1
<1>3. Spec => [][Healed]_vars
  BY <1>2, FilesInductive, PTL DEF Spec
<1> QED BY <1>3 DEF ResyncHeals
===========================================================================
