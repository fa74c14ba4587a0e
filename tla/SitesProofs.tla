---------------------------- MODULE SitesProofs ----------------------------
(* Sites, for any number of workers, hosts, addresses, calls and crashes:  *)
(* its states are well typed, and the map the gateway serves from follows  *)
(* the table.                                                               *)
EXTENDS Sites, TLAPS

---------------------------------------------------------------------------
(* Types: the states of sync_site. *)

Editing == {"include", "vhost", "test", "restore vhost", "restore include"}
EditState ==
  [pc: Editing, host: Host, on: BOOLEAN, listen: Address,
   original: SUBSET Host, previous: Address]
CallState == [pc: {"read"}, host: Host, on: BOOLEAN, listen: Address]
OverState == [pc: {"done", "failed"}, host: Host]

LEMMA SyncStates ==
  ASSUME SyncTypeOK, NEW w \in Worker
  PROVE  /\ sync[w] \in SyncState
         /\ sync[w].pc = "read" => sync[w] \in CallState
         /\ sync[w].pc \in Editing => sync[w] \in EditState
         /\ sync[w].pc # "off" => sync[w].host \in Host
<1>1. sync[w] \in SyncState
  BY DEF SyncTypeOK
<1>2. sync[w].pc = "read" => sync[w] \in CallState
  BY <1>1 DEF SyncState, CallState
<1>3. sync[w].pc \in Editing => sync[w] \in EditState
  BY <1>1 DEF SyncState, EditState, Editing
<1>4. sync[w].pc # "off" => sync[w].host \in Host
  BY <1>1 DEF SyncState
<1> QED BY <1>1, <1>2, <1>3, <1>4

LEMMA GoTyped ==
  ASSUME SyncTypeOK, NEW w \in Worker, NEW s \in SyncState, Go(w, s)
  PROVE  sync' \in [Worker -> SyncState]
BY DEF SyncTypeOK, Go

LEMMA ToTyped ==
  ASSUME SyncTypeOK, NEW w \in Worker, sync[w].pc \in Editing,
         NEW pc \in Editing, To(w, pc)
  PROVE  sync' \in [Worker -> SyncState]
<1> DEFINE s == [sync[w] EXCEPT !.pc = pc]
<1>1. sync[w] \in EditState
  BY SyncStates
<1>2. s \in EditState
  BY <1>1 DEF EditState
<1>3. s \in SyncState
  BY <1>2 DEF EditState, Editing, SyncState
<1>4. Go(w, s)
  BY DEF To
<1> HIDE DEF s
<1> QED BY <1>3, <1>4, GoTyped

LEMMA OverTyped ==
  ASSUME SyncTypeOK, NEW w \in Worker, sync[w].pc # "off",
         NEW pc \in {"done", "failed"}, Over(w, pc)
  PROVE  sync' \in [Worker -> SyncState]
<1> DEFINE s == [pc |-> pc, host |-> sync[w].host]
<1>1. s \in SyncState
  BY SyncStates DEF SyncState
<1>2. Go(w, s)
  BY DEF Over
<1> HIDE DEF s
<1> QED BY <1>1, <1>2, GoTyped

LEMMA OffTyped ==
  ASSUME SyncTypeOK, NEW w \in Worker, Go(w, Off)
  PROVE  sync' \in [Worker -> SyncState]
<1>1. Off \in SyncState
  BY DEF Off, SyncState
<1> QED BY <1>1, GoTyped

LEMMA CalledTyped ==
  ASSUME SyncTypeOK, NEW w \in Worker, NEW h \in Host, NEW on \in BOOLEAN,
         NEW a \in Address, Go(w, Called(h, on, a))
  PROVE  sync' \in [Worker -> SyncState]
<1>1. Called(h, on, a) \in SyncState
  BY DEF Called, SyncState
<1> QED BY <1>1, GoTyped

\* One step of sync_site.
LEMMA SyncStepTyped ==
  ASSUME SyncTypeOK, NEW w \in Worker, SyncStep(w)
  PROVE  SyncTypeOK'
<1>1. CASE VhostNotFound(w)
  BY <1>1, OverTyped DEF VhostNotFound, SyncTypeOK, files
<1>2. CASE ReadFiles(w)
  <2> DEFINE s == [pc |-> "include", host |-> sync[w].host, on |-> sync[w].on,
                   listen |-> sync[w].listen, original |-> vhost,
                   previous |-> includes[sync[w].host]]
  <2>1. sync[w].pc = "read" /\ sync[w] \in CallState
    BY <1>2, SyncStates DEF ReadFiles
  <2>2. /\ sync[w].host \in Host /\ sync[w].on \in BOOLEAN
        /\ sync[w].listen \in Address
    BY <2>1 DEF CallState
  <2>3. vhost \in SUBSET Host /\ includes[sync[w].host] \in Address
    BY <2>2 DEF SyncTypeOK
  <2>4. s \in EditState
    BY <2>2, <2>3 DEF EditState, Editing
  <2>5. s \in SyncState
    BY <2>4 DEF EditState, Editing, SyncState
  <2>6. (Go(w, s) \/ Over(w, "done")) /\ UNCHANGED <<shared, files>>
    BY <1>2 DEF ReadFiles
  <2> HIDE DEF s
  <2>7. sync' \in [Worker -> SyncState]
    BY <2>1, <2>5, <2>6, GoTyped, OverTyped
  <2> QED BY <2>6, <2>7 DEF SyncTypeOK, files
<1>3. CASE WriteInclude(w)
  <2>1. sync[w].pc = "include" /\ sync[w] \in EditState
    BY <1>3, SyncStates DEF WriteInclude, Editing
  <2>2. sync[w].host \in Host /\ Desired(sync[w]) \in Address
    BY <2>1 DEF EditState, Desired, Address
  <2>3. \/ To(w, "vhost") \/ To(w, "test") \/ Over(w, "failed")
    BY <1>3 DEF WriteInclude
  <2>4. sync' \in [Worker -> SyncState]
    BY <2>1, <2>3, ToTyped, OverTyped DEF Editing
  <2>5. \/ includes' = [includes EXCEPT ![sync[w].host] = Desired(sync[w])]
        \/ includes' = includes
    BY <1>3 DEF WriteInclude
  <2> QED BY <1>3, <2>2, <2>4, <2>5 DEF WriteInclude, SyncTypeOK
<1>4. CASE WriteVhost(w)
  <2>1. sync[w].pc = "vhost" /\ sync[w] \in EditState
    BY <1>4, SyncStates DEF WriteVhost, Editing
  <2>2. Marked(sync[w]) \in SUBSET Host
    BY <2>1 DEF EditState, Marked
  <2>3. To(w, "test") \/ Over(w, "failed")
    BY <1>4 DEF WriteVhost
  <2>4. sync' \in [Worker -> SyncState]
    BY <2>1, <2>3, ToTyped, OverTyped DEF Editing
  <2> QED BY <1>4, <2>2, <2>4 DEF WriteVhost, SyncTypeOK
<1>5. CASE TestAndReload(w)
  <2>1. sync[w].pc = "test"
    BY <1>5 DEF TestAndReload
  <2>2. To(w, "restore vhost") \/ To(w, "restore include") \/ Over(w, "done")
    BY <1>5 DEF TestAndReload
  <2>3. sync' \in [Worker -> SyncState]
    BY <2>1, <2>2, ToTyped, OverTyped DEF Editing
  <2> QED BY <1>5, <2>3 DEF TestAndReload, SyncTypeOK, files
<1>6. CASE RestoreVhost(w)
  <2>1. sync[w].pc = "restore vhost" /\ sync[w] \in EditState
    BY <1>6, SyncStates DEF RestoreVhost, Editing
  <2>2. sync[w].original \in SUBSET Host
    BY <2>1 DEF EditState
  <2>3. sync' \in [Worker -> SyncState]
    BY <1>6, <2>1, ToTyped DEF RestoreVhost, Editing
  <2> QED BY <1>6, <2>2, <2>3 DEF RestoreVhost, SyncTypeOK
<1>7. CASE RestoreInclude(w)
  <2>1. sync[w].pc = "restore include" /\ sync[w] \in EditState
    BY <1>7, SyncStates DEF RestoreInclude, Editing
  <2>2. sync[w].host \in Host /\ sync[w].previous \in Address
    BY <2>1 DEF EditState
  <2>3. includes[sync[w].host] \in Address
    BY <2>2 DEF SyncTypeOK
  <2>4. PICK i \in {sync[w].previous, includes[sync[w].host]} :
          includes' = [includes EXCEPT ![sync[w].host] = i]
    BY <1>7 DEF RestoreInclude, Restored
  <2>5. sync' \in [Worker -> SyncState]
    BY <1>7, <2>1, OverTyped DEF RestoreInclude
  <2> QED BY <1>7, <2>2, <2>3, <2>4, <2>5 DEF RestoreInclude, SyncTypeOK
<1> QED BY <1>1, <1>2, <1>3, <1>4, <1>5, <1>6, <1>7 DEF SyncStep

---------------------------------------------------------------------------
(* Types: the calls. *)

AtStatus == [pc: {"status"}, op: {"save", "toggle", "delete"}, host: Host,
             new: Row, was: Row]
AtStore == [pc: {"store"}, host: Host, new: Row]
AtRefresh == [pc: {"refresh"}, host: Host]
AtPublish == [pc: {"publish"}, host: Host, copy: Table]
AtLoad == [pc: {"load"}, op: {"start", "boot"}, listen: Listen]
AtResync == [pc: {"resync"}, op: {"start", "boot"}, listen: Listen,
             todo: SUBSET [host: Host, on: BOOLEAN]]
Call == {Nothing} \cup Edit \cup Start

LEMMA CallsAre ==
  Call = {Nothing} \cup AtStatus \cup AtStore \cup AtRefresh \cup AtPublish
           \cup AtLoad \cup AtResync
BY DEF Call, Edit, Start, AtStatus, AtStore, AtRefresh, AtPublish, AtLoad, AtResync

\* The program counter tells what a call carries.
LEMMA CallStates ==
  ASSUME NEW c \in Call
  PROVE  /\ c.pc = "status" => c \in AtStatus
         /\ c.pc = "store" => c \in AtStore
         /\ c.pc = "refresh" => c \in AtRefresh
         /\ c.pc = "publish" => c \in AtPublish
         /\ c.pc = "load" => c \in AtLoad
         /\ c.pc = "resync" => c \in AtResync
         /\ Touches(c) \in SUBSET Host
<1>1. c = Nothing => c.pc = "none"
  BY DEF Nothing
<1>2. c \in AtStatus => c.pc = "status" /\ c.host \in Host
  BY DEF AtStatus
<1>3. c \in AtStore => c.pc = "store" /\ c.host \in Host
  BY DEF AtStore
<1>4. c \in AtRefresh => c.pc = "refresh" /\ c.host \in Host
  BY DEF AtRefresh
<1>5. c \in AtPublish => c.pc = "publish" /\ c.host \in Host
  BY DEF AtPublish
<1>6. c \in AtLoad => c.pc = "load"
  BY DEF AtLoad
<1>7. c \in AtResync => c.pc = "resync"
  BY DEF AtResync
<1>8. c \in {Nothing} \cup AtStatus \cup AtStore \cup AtRefresh \cup AtPublish
              \cup AtLoad \cup AtResync
  BY CallsAre
<1>9. Touches(c) \in SUBSET Host
  BY <1>1, <1>2, <1>3, <1>4, <1>5, <1>6, <1>7, <1>8 DEF Touches, IsStart
<1> QED BY <1>1, <1>2, <1>3, <1>4, <1>5, <1>6, <1>7, <1>8, <1>9

LEMMA CallOf ==
  ASSUME TypeOK, NEW w \in Worker
  PROVE  calls[w] \in Call
BY DEF TypeOK, Call

\* What a call that begins changes.
Begun ==
  /\ calls' \in [Worker -> Call]
  /\ begun' \in 0..MaxCalls
  /\ met' \in [Worker -> SUBSET Host]
  /\ excused' \in SUBSET Host

LEMMA BeginTyped ==
  ASSUME TypeOK, NEW w \in Worker, NEW c \in Call, NEW doubt \in SUBSET Host,
         Begin(w, c, doubt)
  PROVE  Begun
<1> DEFINE meets(v) == Touches(calls[v]) \cap Touches(c)
           common == UNION {meets(v) : v \in Worker}
<1>1. /\ begun < MaxCalls /\ begun' = begun + 1
      /\ calls' = [calls EXCEPT ![w] = c]
      /\ met' = [v \in Worker |-> IF v = w THEN common ELSE met[v] \cup meets(v)]
      /\ excused' = excused \cup common \cup doubt
  BY DEF Begin
<1>2. \A v \in Worker : meets(v) \in SUBSET Host
  BY CallStates
<1>3. common \in SUBSET Host
  BY <1>2
<1>4. calls \in [Worker -> Call] /\ met \in [Worker -> SUBSET Host] /\ excused \in SUBSET Host
  BY DEF TypeOK, Call
<1> HIDE DEF meets, common
<1>5. calls' \in [Worker -> Call]
  BY <1>1, <1>4
<1>6. begun' \in 0..MaxCalls
  BY <1>1, SitesAssumptions DEF TypeOK
<1>7. \A v \in Worker : met[v] \cup meets(v) \in SUBSET Host
  BY <1>2, <1>4
<1>8. met' \in [Worker -> SUBSET Host]
  BY <1>1, <1>3, <1>7
<1>9. excused' \in SUBSET Host
  BY <1>1, <1>3, <1>4
<1> QED BY <1>5, <1>6, <1>8, <1>9 DEF Begun

LEMMA ContinueTyped ==
  ASSUME TypeOK, NEW w \in Worker, NEW c \in Call, Continue(w, c)
  PROVE  calls' \in [Worker -> Call]
BY DEF TypeOK, Call, Continue

\* What the end of a call changes.
LEMMA EndTyped ==
  ASSUME TypeOK, NEW w \in Worker, End(w)
  PROVE  /\ calls' \in [Worker -> Call]
         /\ sync' \in [Worker -> SyncState]
         /\ met' \in [Worker -> SUBSET Host]
<1>1. calls' \in [Worker -> Call]
  BY ContinueTyped DEF End, Call
<1>2. sync' \in [Worker -> SyncState]
  BY OffTyped DEF End, TypeOK
<1>3. met' \in [Worker -> SUBSET Host]
  BY DEF End, TypeOK
<1> QED BY <1>1, <1>2, <1>3

LEMMA RowsAre ==
  /\ Absent \in Row /\ Offered \subseteq Row
  /\ \A r \in Row : r.enabled \in BOOLEAN /\ Guarded(r) \in BOOLEAN
  /\ \A r \in Row : r # Absent => [r EXCEPT !.enabled = ~@] \in Row
<1>1. Absent \in Row
  BY DEF Row
<1>2. Offered \subseteq Site
  <2>1. [mode |-> "proxy", enabled |-> TRUE] \in Site
    BY DEF Site
  <2>2. [mode: {"nginx"}, enabled: BOOLEAN] \subseteq Site
    BY DEF Site
  <2> QED BY <2>1, <2>2 DEF Offered
<1>3. Offered \subseteq Row
  BY <1>2 DEF Row
<1>4. \A r \in Row : r.enabled \in BOOLEAN
  <2>1. \A r \in Site : r.enabled \in BOOLEAN
    BY DEF Site
  <2>2. Absent.enabled \in BOOLEAN
    BY DEF Absent
  <2> QED BY <2>1, <2>2 DEF Row
<1>5. \A r \in Row : Guarded(r) \in BOOLEAN
  BY Zenon DEF Guarded
<1>6. ASSUME NEW r \in Row, r # Absent
      PROVE  [r EXCEPT !.enabled = ~@] \in Row
  <2>1. r \in [mode: {"proxy", "nginx"}, enabled: BOOLEAN]
    BY <1>6 DEF Row, Site
  <2>2. [r EXCEPT !.enabled = ~@] \in [mode: {"proxy", "nginx"}, enabled: BOOLEAN]
    BY <2>1
  <2> QED BY <2>2 DEF Row, Site
<1> QED BY <1>1, <1>3, <1>4, <1>5, <1>6

---------------------------------------------------------------------------
(* Types: the steps. *)

\* A call of the dashboard that begins.
LEMMA EditBegins ==
  ASSUME TypeOK, NEW w \in Worker, NEW c \in AtStatus, NEW doubt \in SUBSET Host,
         BeginEdit(w, c, doubt)
  PROVE  TypeOK'
<1>1. c \in Call
  BY CallsAre
<1>2. Begun
  BY <1>1, BeginTyped DEF BeginEdit
<1> QED BY <1>2 DEF BeginEdit, Begun, TypeOK, SyncTypeOK, Call, syncVars, files

LEMMA EditTyped ==
  ASSUME TypeOK, NEW w \in Worker, SaveSite(w) \/ ToggleSite(w) \/ DeleteSite(w)
  PROVE  TypeOK'
<1>1. \A h \in Host : table[h] \in Row /\ Looked(h) \subseteq Row
  BY RowsAre DEF TypeOK, Table, Looked
<1>2. CASE SaveSite(w)
  <2>1. PICK h \in Host, new \in Offered : \E was \in Looked(h) :
          BeginEdit(w, [pc |-> "status", op |-> "save", host |-> h, new |-> new,
                        was |-> was], Doubt(h, was))
    BY <1>2 DEF SaveSite
  <2>2. PICK was \in Looked(h) :
          BeginEdit(w, [pc |-> "status", op |-> "save", host |-> h, new |-> new,
                        was |-> was], Doubt(h, was))
    BY <2>1
  <2>3. new \in Row /\ was \in Row
    BY <1>1, RowsAre
  <2>4. [pc |-> "status", op |-> "save", host |-> h, new |-> new, was |-> was] \in AtStatus
    BY <2>3 DEF AtStatus
  <2>5. Doubt(h, was) \in SUBSET Host
    BY DEF Doubt
  <2> QED BY <2>2, <2>4, <2>5, EditBegins
<1>3. CASE ToggleSite(w)
  <2> DEFINE toggled(h) == [table[h] EXCEPT !.enabled = ~@]
  <2>1. PICK h \in Host :
          /\ table[h] # Absent
          /\ BeginEdit(w, [pc |-> "status", op |-> "toggle", host |-> h,
                           new |-> toggled(h), was |-> table[h]], {})
    BY <1>3 DEF ToggleSite, Known
  <2>2. toggled(h) \in Row
    BY <1>1, <2>1, RowsAre
  <2> HIDE DEF toggled
  <2>3. [pc |-> "status", op |-> "toggle", host |-> h, new |-> toggled(h),
         was |-> table[h]] \in AtStatus
    BY <1>1, <2>2 DEF AtStatus
  <2> QED BY <2>1, <2>3, EditBegins
<1>4. CASE DeleteSite(w)
  <2>1. PICK h \in Host : \E was \in Looked(h) :
          BeginEdit(w, [pc |-> "status", op |-> "delete", host |-> h, new |-> Absent,
                        was |-> was], Doubt(h, was))
    BY <1>4 DEF DeleteSite
  <2>2. PICK was \in Looked(h) :
          BeginEdit(w, [pc |-> "status", op |-> "delete", host |-> h, new |-> Absent,
                        was |-> was], Doubt(h, was))
    BY <2>1
  <2>3. [pc |-> "status", op |-> "delete", host |-> h, new |-> Absent,
         was |-> was] \in AtStatus
    BY <1>1, RowsAre DEF AtStatus
  <2>4. Doubt(h, was) \in SUBSET Host
    BY DEF Doubt
  <2> QED BY <2>2, <2>3, <2>4, EditBegins
<1> QED BY <1>2, <1>3, <1>4

LEMMA SeeGatewayTyped ==
  ASSUME TypeOK, NEW w \in Worker, SeeGateway(w)
  PROVE  TypeOK'
<1> DEFINE c == calls[w]
           s == [pc |-> "store", host |-> c.host, new |-> c.new]
<1>1. c \in AtStatus
  BY CallOf, CallStates DEF SeeGateway
<1>2. c.host \in Host /\ c.new \in Row
  BY <1>1 DEF AtStatus
<1>3. s \in Call
  BY <1>2, CallsAre DEF AtStore
<1>4. UNCHANGED <<shared, files, table, runtime, gateway, up, begun, stops, excused, old, torn>>
  BY DEF SeeGateway
<1>5. CASE Refused(c)
  <2>1. End(w)
    BY <1>5 DEF SeeGateway
  <2> QED BY <1>4, <2>1, EndTyped DEF TypeOK, SyncTypeOK, Call, files
<1>6. CASE ~Refused(c)
  <2>1. /\ Continue(w, s) /\ UNCHANGED met
        /\ Go(w, Called(c.host, Guarded(c.new), gateway)) \/ UNCHANGED sync
    BY <1>6 DEF SeeGateway
  <2>2. Guarded(c.new) \in BOOLEAN /\ gateway \in Address /\ SyncTypeOK
    BY <1>2, RowsAre DEF TypeOK
  <2> HIDE DEF c, s
  <2>3. calls' \in [Worker -> Call]
    BY <1>3, <2>1, ContinueTyped
  <2>4. sync' \in [Worker -> SyncState]
    BY <1>2, <2>1, <2>2, CalledTyped DEF SyncTypeOK
  <2> QED BY <1>4, <2>1, <2>3, <2>4 DEF TypeOK, SyncTypeOK, Call, files
<1> QED BY <1>5, <1>6

\* A step of sync_site, and whom it meets.
LEMMA SyncTyped ==
  ASSUME TypeOK, NEW w \in Worker, Sync(w)
  PROVE  TypeOK'
<1>1. UNCHANGED <<table, runtime, gateway, up, calls, begun, stops, old, torn>>
  BY DEF Sync
<1>2. SyncStep(w) /\ sync[w].pc # "off"
  BY DEF Sync, SyncReads, SyncWrites, SyncTests, SyncRestores, SyncStep, VhostNotFound,
         ReadFiles, WriteInclude, WriteVhost, TestAndReload, RestoreVhost, RestoreInclude
<1>3. SyncTypeOK'
  BY <1>2, SyncStepTyped DEF TypeOK
<1>4. sync[w].host \in Host /\ \A v \in Writing : v \in Worker /\ sync[v].host \in Host
  BY <1>2, SyncStates DEF Writing, TypeOK
<1>5. met \in [Worker -> SUBSET Host] /\ excused \in SUBSET Host
  BY DEF TypeOK
<1>6. met' \in [Worker -> SUBSET Host] /\ excused' \in SUBSET Host
  <2>1. CASE SyncReads(w)
    <3> DEFINE others == {sync[v].host : v \in Writing}
    <3>1. others \in SUBSET Host
      BY <1>4
    <3>2. \/ /\ met' = [v \in Worker |->
                         IF v \in Writing \cup {w} THEN met[v] \cup {sync[v].host} ELSE met[v]]
             /\ excused' = excused \cup (others \cup {sync[w].host})
          \/ UNCHANGED <<met, excused>>
      BY <2>1 DEF SyncReads, Excuse
    <3> HIDE DEF others
    <3>3. \A v \in Worker :
            (IF v \in Writing \cup {w} THEN met[v] \cup {sync[v].host} ELSE met[v])
              \in SUBSET Host
      BY <1>4, <1>5
    <3> QED BY <1>4, <1>5, <3>1, <3>2, <3>3
  <2>2. CASE SyncWrites(w)
    BY <1>4, <1>5, <2>2 DEF SyncWrites, Excuse
  <2>3. CASE SyncTests(w)
    BY <1>5, <2>3 DEF SyncTests
  <2>4. CASE SyncRestores(w)
    BY <1>4, <1>5, <2>4 DEF SyncRestores, Excuse
  <2> QED BY <2>1, <2>2, <2>3, <2>4 DEF Sync
<1> QED BY <1>1, <1>3, <1>6 DEF TypeOK

LEMMA StoreTyped ==
  ASSUME TypeOK, NEW w \in Worker,
         Store(w) \/ EditFails(w) \/ ReadTable(w) \/ RefreshFails(w) \/ Publish(w)
  PROVE  TypeOK'
<1> DEFINE c == calls[w]
<1>1. CASE Store(w)
  <2> DEFINE d == [pc |-> "refresh", host |-> c.host]
  <2>1. c.host \in Host /\ c.new \in Row
    BY <1>1, CallOf, CallStates DEF Store, AtStore
  <2>2. d \in Call
    BY <2>1, CallsAre DEF AtRefresh
  <2>3. Continue(w, d) /\ Go(w, Off)
    BY <1>1 DEF Store
  <2> HIDE DEF d
  <2>4. calls' \in [Worker -> Call]
    BY <2>2, <2>3, ContinueTyped
  <2>5. sync' \in [Worker -> SyncState]
    BY <2>3, OffTyped DEF TypeOK
  <2>6. table' \in Table /\ old' \in SUBSET Worker
    BY <1>1, <2>1 DEF Store, TypeOK, Table, Overtaken
  <2> QED BY <1>1, <2>4, <2>5, <2>6 DEF Store, TypeOK, SyncTypeOK, Call, files
<1>2. CASE EditFails(w)
  <2>1. c.host \in Host
    BY <1>2, CallOf, CallStates DEF EditFails, AtStore
  <2>2. excused' \in SUBSET Host
    BY <1>2, <2>1 DEF EditFails, Excuse, TypeOK
  <2>3. End(w)
    BY <1>2 DEF EditFails
  <2> QED BY <1>2, <2>2, <2>3, EndTyped DEF EditFails, TypeOK, SyncTypeOK, Call, files
<1>3. CASE ReadTable(w)
  <2> DEFINE d == [pc |-> "publish", host |-> c.host, copy |-> table]
  <2>1. c.host \in Host
    BY <1>3, CallOf, CallStates DEF ReadTable, AtRefresh
  <2>2. d \in Call
    BY <2>1, CallsAre DEF AtPublish, TypeOK
  <2>3. Continue(w, d)
    BY <1>3 DEF ReadTable, Copied
  <2> HIDE DEF d
  <2>4. calls' \in [Worker -> Call]
    BY <2>2, <2>3, ContinueTyped
  <2> QED BY <1>3, <2>4 DEF ReadTable, TypeOK, SyncTypeOK, Call, syncVars, files
<1>4. CASE RefreshFails(w)
  <2>1. End(w)
    BY <1>4 DEF RefreshFails
  <2> QED BY <1>4, <2>1, EndTyped DEF RefreshFails, TypeOK, SyncTypeOK, Call, files
<1>5. CASE Publish(w)
  <2>1. c.copy \in Table
    BY <1>5, CallOf, CallStates DEF Publish, AtPublish
  <2>2. End(w) /\ runtime' = c.copy /\ torn' \in BOOLEAN
    BY <1>5 DEF Publish
  <2> QED BY <1>5, <2>1, <2>2, EndTyped DEF Publish, TypeOK, SyncTypeOK, Call, files
<1> QED BY <1>1, <1>2, <1>3, <1>4, <1>5

\* A site of config.toml enters the table.
LEMMA MergeTyped ==
  ASSUME TypeOK, NEW h \in Host, NEW new \in Row
  PROVE  Merged(h, new) \in Table /\ Unsynced(h, new) \in SUBSET Host
BY DEF Merged, Unsynced, TypeOK, Table

LEMMA ReloadTyped ==
  ASSUME TypeOK, NEW w \in Worker, ReloadConfig(w)
  PROVE  TypeOK'
<1>1. PICK h \in Host, new \in Offered :
        /\ Begin(w, [pc |-> "refresh", host |-> h], Unsynced(h, new))
        /\ table' = Merged(h, new)
        /\ old' = old \cup Overtaken
        /\ UNCHANGED <<syncVars, runtime, gateway, up, stops, torn>>
  BY DEF ReloadConfig
<1>2. new \in Row
  BY RowsAre
<1>3. [pc |-> "refresh", host |-> h] \in Call
  BY CallsAre DEF AtRefresh
<1>4. Begun
  BY <1>1, <1>2, <1>3, BeginTyped, MergeTyped
<1>5. table' \in Table
  BY <1>1, <1>2, MergeTyped
<1>6. old' \in SUBSET Worker
  BY <1>1 DEF TypeOK, Overtaken
<1> QED BY <1>1, <1>4, <1>5, <1>6 DEF Begun, TypeOK, SyncTypeOK, Call, syncVars, files

LEMMA GatewayTyped ==
  ASSUME TypeOK, NEW w \in Worker,
         StartGateway(w) \/ LoadSites(w) \/ ResyncNext(w) \/ ResyncEnds(w) \/ ResyncFails(w)
  PROVE  TypeOK'
<1> DEFINE c == calls[w]
<1>1. CASE StartGateway(w)
  <2>1. PICK listen \in IF gateway = None THEN Listen ELSE {gateway} :
          /\ Begin(w, [pc |-> "load", op |-> "start", listen |-> listen], {})
          /\ gateway' = listen
          /\ UNCHANGED <<syncVars, table, runtime, up, stops, old, torn>>
    BY <1>1 DEF StartGateway
  <2>2. listen \in Listen
    BY DEF TypeOK, Address
  <2>3. [pc |-> "load", op |-> "start", listen |-> listen] \in Call
    BY <2>2, CallsAre DEF AtLoad
  <2>4. Begun
    BY <2>1, <2>3, BeginTyped
  <2> QED BY <2>1, <2>2, <2>4 DEF Begun, TypeOK, SyncTypeOK, Call, syncVars, files, Address
<1>2. CASE LoadSites(w)
  <2> DEFINE todo == {[host |-> h, on |-> table[h].enabled] : h \in ToResync}
             d == [pc |-> "resync", op |-> c.op, listen |-> c.listen, todo |-> todo]
  <2>1. c.op \in {"start", "boot"} /\ c.listen \in Listen
    BY <1>2, CallOf, CallStates DEF LoadSites, AtLoad
  <2>2. \A h \in ToResync : h \in Host /\ table[h].enabled \in BOOLEAN
    BY RowsAre DEF ToResync, TypeOK, Table
  <2>3. todo \in SUBSET [host: Host, on: BOOLEAN]
    BY <2>2
  <2>4. Continue(w, d)
    BY <1>2 DEF LoadSites
  <2> HIDE DEF todo
  <2>5. d \in Call
    BY <2>1, <2>3, CallsAre DEF AtResync
  <2> HIDE DEF d
  <2>6. calls' \in [Worker -> Call]
    BY <2>4, <2>5, ContinueTyped
  <2> QED BY <1>2, <2>6 DEF LoadSites, TypeOK, SyncTypeOK, Call, syncVars, files, history
<1>3. CASE ResyncNext(w)
  <2>1. c \in AtResync
    BY <1>3, CallOf, CallStates DEF ResyncNext, Resyncing
  <2>2. PICK row \in c.todo :
          /\ Continue(w, [c EXCEPT !.todo = @ \ {row}])
          /\ Go(w, Called(row.host, row.on, c.listen))
    BY <1>3 DEF ResyncNext
  <2>3. row.host \in Host /\ row.on \in BOOLEAN /\ c.listen \in Address
    BY <2>1 DEF AtResync, Address
  <2>4. [c EXCEPT !.todo = @ \ {row}] \in AtResync
    BY <2>1 DEF AtResync
  <2>5. calls' \in [Worker -> Call]
    BY <2>2, <2>4, ContinueTyped, CallsAre
  <2>6. sync' \in [Worker -> SyncState]
    BY <2>2, <2>3, CalledTyped DEF TypeOK
  <2> QED BY <1>3, <2>5, <2>6 DEF ResyncNext, TypeOK, SyncTypeOK, Call, files, history
<1>4. CASE ResyncEnds(w)
  <2>1. End(w)
    BY <1>4 DEF ResyncEnds
  <2> QED BY <1>4, <2>1, EndTyped DEF ResyncEnds, TypeOK, SyncTypeOK, Call, files
<1>5. CASE ResyncFails(w)
  <2>1. End(w)
    BY <1>5 DEF ResyncFails
  <2> QED BY <1>5, <2>1, EndTyped DEF ResyncFails, TypeOK, SyncTypeOK, Call, files, Address
<1> QED BY <1>1, <1>2, <1>3, <1>4, <1>5

LEMMA CrashTyped ==
  ASSUME TypeOK, Crash
  PROVE  TypeOK'
<1>1. \A v \in Writing : v \in Worker /\ sync[v].host \in Host
  BY SyncStates DEF Writing, TypeOK
<1>2. \A v \in Worker : sync[v].pc = "done" => sync[v].host \in Host
  BY SyncStates DEF TypeOK
<1>3. excused' \in SUBSET Host
  BY <1>1, <1>2 DEF Crash, Excuse, TypeOK
<1>4. sync' \in [Worker -> SyncState]
  BY DEF Crash, Off, SyncState
<1>5. calls' \in [Worker -> Call]
  BY DEF Crash, Call
<1>6. stops' \in 0..MaxStops
  BY SitesAssumptions DEF Crash, TypeOK
<1> QED BY <1>3, <1>4, <1>5, <1>6 DEF Crash, TypeOK, SyncTypeOK, Call, files, Address

LEMMA BootTyped ==
  ASSUME TypeOK, NEW w \in Worker, Boot(w)
  PROVE  TypeOK'
<1>1. PICK h \in Host, new \in {Absent} \cup Offered, listen \in Listen, licensed \in BOOLEAN :
        /\ IF licensed
             THEN /\ Begin(w, [pc |-> "load", op |-> "boot", listen |-> listen], Unsynced(h, new))
                  /\ gateway' = listen /\ up' = "booting"
             ELSE /\ begun < MaxCalls /\ begun' = begun + 1
                  /\ Excuse(Unsynced(h, new))
                  /\ up' = "up"
                  /\ UNCHANGED <<calls, met, gateway>>
        /\ table' = Merged(h, new)
        /\ runtime' = table'
        /\ UNCHANGED <<syncVars, stops, old, torn>>
  BY DEF Boot
<1>2. new \in Row
  BY RowsAre
<1>3. table' \in Table /\ runtime' \in Table /\ Unsynced(h, new) \in SUBSET Host
  BY <1>1, <1>2, MergeTyped
<1>4. [pc |-> "load", op |-> "boot", listen |-> listen] \in Call
  BY CallsAre DEF AtLoad
<1>5. CASE licensed
  <2>1. Begun
    BY <1>1, <1>3, <1>4, <1>5, BeginTyped
  <2> QED BY <1>1, <1>3, <1>5, <2>1 DEF Begun, TypeOK, SyncTypeOK, Call, syncVars, files, Address
<1>6. CASE ~licensed
  <2>1. begun' \in 0..MaxCalls
    BY <1>1, <1>6, SitesAssumptions DEF TypeOK
  <2>2. excused' \in SUBSET Host
    BY <1>1, <1>3, <1>6 DEF Excuse, TypeOK
  <2> QED BY <1>1, <1>3, <1>6, <2>1, <2>2 DEF TypeOK, SyncTypeOK, syncVars, files
<1> QED BY <1>5, <1>6

LEMMA TypeStep ==
  ASSUME TypeOK, [Next]_vars
  PROVE  TypeOK'
<1>1. CASE StopGateway
  <2>1. stops' \in 0..MaxStops
    BY <1>1, SitesAssumptions DEF StopGateway, TypeOK
  <2> QED BY <1>1, <2>1 DEF StopGateway, TypeOK, SyncTypeOK, syncVars, files, history, Address
<1>2. CASE UNCHANGED vars
  BY <1>2 DEF vars, history, syncVars, files, TypeOK, SyncTypeOK
<1> QED BY <1>1, <1>2, EditTyped, SeeGatewayTyped, SyncTyped, StoreTyped, ReloadTyped,
           GatewayTyped, CrashTyped, BootTyped DEF Next, Step

\* The states of the calls, the files, the table and the map are well typed.
THEOREM TypeCorrect == Spec => []TypeOK
<1>1. Init => TypeOK
  <2> SUFFICES ASSUME Init PROVE TypeOK
    OBVIOUS
  <2>1. table \in Table
    BY RowsAre DEF Init, Table, Row
  <2>2. PICK last \in IF gateway = None THEN Listen ELSE {gateway} :
          includes = [h \in Host |-> IF h \in vhost THEN last ELSE None]
    BY DEF Init
  <2>3. last \in Address
    BY DEF Init, Address
  <2>4. includes \in [Host -> Address]
    BY <2>2, <2>3 DEF Address
  <2>5. sync \in [Worker -> SyncState]
    BY DEF Init, Off, SyncState
  <2>6. begun \in 0..MaxCalls /\ stops \in 0..MaxStops
    BY SitesAssumptions DEF Init
  <2> QED BY <2>1, <2>4, <2>5, <2>6 DEF Init, TypeOK, SyncTypeOK
<1>2. TypeOK /\ [Next]_vars => TypeOK'
  BY TypeStep
<1> QED BY <1>1, <1>2, PTL DEF Spec

---------------------------------------------------------------------------
(* The map follows the table. *)

\* A copy that no write has overtaken is the table, whoever holds it.
CopiesCurrent ==
  \A w \in Worker : calls[w].pc = "publish" /\ w \notin old => calls[w].copy = table

\* Nothing runs while the process is down, and only its start while it boots.
Booting(c) == IsStart(c) /\ c.op = "boot"
UpOrNot ==
  /\ up = "down" => \A w \in Worker : calls[w].pc = "none"
  /\ up = "booting" => \A w \in Worker : calls[w].pc = "none" \/ Booting(calls[w])
  /\ up = "up" => \A w \in Worker : ~Booting(calls[w])
  /\ \A v, w \in Worker : Booting(calls[v]) /\ Booting(calls[w]) => v = w

\* RuntimeAgrees, and that the map is right before the dashboard can change it.
MapCurrent ==
  (up # "down" /\ ~torn /\ \A w \in Worker : calls[w].pc \notin {"refresh", "publish"})
    => runtime = table

MapInv == CopiesCurrent /\ UpOrNot /\ MapCurrent

Quiet(c) == c.pc \notin {"refresh", "publish"}

\* A step that leaves table and map alone, and takes one call from one quiet
\* state to another; a start stays a start.
LEMMA MapFrame ==
  ASSUME MapInv, UNCHANGED <<table, runtime, old, torn, up>>, NEW w \in Worker,
         \A v \in Worker \ {w} : calls'[v] = calls[v],
         Quiet(calls[w]), Quiet(calls'[w]),
         calls'[w].pc = "none" \/ (up = "up" /\ ~Booting(calls'[w]))
           \/ (up = "booting" /\ Booting(calls[w]) /\ Booting(calls'[w]))
  PROVE  MapInv'
<1>1. CopiesCurrent'
  BY DEF MapInv, CopiesCurrent, Quiet
<1>2. UpOrNot'
  BY DEF MapInv, UpOrNot, Booting, IsStart
<1>3. MapCurrent'
  BY DEF MapInv, MapCurrent, Quiet
<1> QED BY <1>1, <1>2, <1>3 DEF MapInv

LEMMA MapSame ==
  ASSUME MapInv, UNCHANGED <<table, runtime, old, torn, up, calls>>
  PROVE  MapInv'
BY DEF MapInv, CopiesCurrent, UpOrNot, MapCurrent, Booting, IsStart

LEMMA CallsChange ==
  ASSUME TypeOK, NEW w \in Worker, NEW c, Continue(w, c)
  PROVE  calls'[w] = c /\ \A v \in Worker \ {w} : calls'[v] = calls[v]
BY DEF TypeOK, Continue

LEMMA CallBegins ==
  ASSUME TypeOK, NEW w \in Worker, NEW c, NEW doubt, Begin(w, c, doubt)
  PROVE  /\ calls[w].pc = "none"
         /\ calls'[w] = c /\ \A v \in Worker \ {w} : calls'[v] = calls[v]
BY DEF TypeOK, Begin, Nothing

LEMMA CallEnds ==
  ASSUME TypeOK, NEW w \in Worker, End(w)
  PROVE  calls'[w].pc = "none" /\ \A v \in Worker \ {w} : calls'[v] = calls[v]
BY CallsChange DEF End, Nothing

\* A new call on the dashboard: to edit a site or to start the gateway.
LEMMA MapBegins ==
  ASSUME TypeOK, MapInv, NEW w \in Worker, NEW c, NEW doubt, Begin(w, c, doubt),
         up = "up", Quiet(c), ~Booting(c), UNCHANGED <<table, runtime, old, torn, up>>
  PROVE  MapInv'
<1>1. /\ calls[w].pc = "none"
      /\ calls'[w] = c /\ \A v \in Worker \ {w} : calls'[v] = calls[v]
  BY CallBegins
<1> QED BY <1>1, MapFrame DEF Quiet

LEMMA MapEdit ==
  ASSUME TypeOK, MapInv, NEW w \in Worker, SaveSite(w) \/ ToggleSite(w) \/ DeleteSite(w)
  PROVE  MapInv'
<1>1. PICK c, doubt : BeginEdit(w, c, doubt) /\ c.pc = "status"
  <2> DEFINE row(op, h, new, was) ==
               [pc |-> "status", op |-> op, host |-> h, new |-> new, was |-> was]
  <2>1. \A op, h, new, was : row(op, h, new, was).pc = "status"
    OBVIOUS
  <2>2. \E op, h, new, was, doubt : BeginEdit(w, row(op, h, new, was), doubt)
    <3>1. CASE SaveSite(w)
      BY <3>1 DEF SaveSite
    <3>2. CASE ToggleSite(w)
      BY <3>2 DEF ToggleSite
    <3>3. CASE DeleteSite(w)
      BY <3>3 DEF DeleteSite
    <3> QED BY <3>1, <3>2, <3>3
  <2> HIDE DEF row
  <2> QED BY <2>1, <2>2
<1>2. Quiet(c) /\ ~Booting(c)
  BY <1>1 DEF Quiet, Booting, IsStart
<1> QED BY <1>1, <1>2, MapBegins DEF BeginEdit

LEMMA MapSeeGateway ==
  ASSUME TypeOK, MapInv, NEW w \in Worker, SeeGateway(w)
  PROVE  MapInv'
<1> DEFINE s == [pc |-> "store", host |-> calls[w].host, new |-> calls[w].new]
<1>1. calls[w].pc = "status" /\ UNCHANGED <<table, runtime, old, torn, up>>
  BY DEF SeeGateway
<1>2. End(w) \/ Continue(w, s)
  BY DEF SeeGateway
<1>3. s.pc = "store"
  OBVIOUS
<1> HIDE DEF s
<1>4. /\ calls'[w].pc \in {"none", "store"}
      /\ \A v \in Worker \ {w} : calls'[v] = calls[v]
  BY <1>2, <1>3, CallEnds, CallsChange
<1>5. up = "up"
  BY <1>1 DEF MapInv, UpOrNot, Booting, IsStart, TypeOK
<1> QED BY <1>1, <1>4, <1>5, MapFrame DEF Quiet, Booting, IsStart

\* The table is written: every copy that was read before is overtaken.
LEMMA MapStore ==
  ASSUME TypeOK, MapInv, NEW w \in Worker, NEW c,
         calls[w].pc \in {"none", "store"}, up = "up",
         calls'[w] = c, c.pc = "refresh",
         \A v \in Worker \ {w} : calls'[v] = calls[v],
         old' = old \cup Overtaken, UNCHANGED up
  PROVE  MapInv'
<1>1. CopiesCurrent'
  BY DEF CopiesCurrent, Overtaken
<1>2. UpOrNot'
  BY DEF MapInv, UpOrNot, Booting, IsStart
<1>3. MapCurrent'
  BY DEF MapCurrent
<1> QED BY <1>1, <1>2, <1>3 DEF MapInv

LEMMA MapWrite ==
  ASSUME TypeOK, MapInv, NEW w \in Worker,
         Store(w) \/ EditFails(w) \/ ReadTable(w) \/ RefreshFails(w) \/ Publish(w)
  PROVE  MapInv'
<1>1. up = "up" /\ UNCHANGED up
  BY DEF Store, EditFails, ReadTable, RefreshFails, Publish, MapInv, UpOrNot, Booting, IsStart,
         TypeOK
<1>2. CASE Store(w)
  <2> DEFINE c == [pc |-> "refresh", host |-> calls[w].host]
  <2>1. Continue(w, c) /\ calls[w].pc = "store" /\ old' = old \cup Overtaken /\ c.pc = "refresh"
    BY <1>2 DEF Store
  <2> HIDE DEF c
  <2>2. calls'[w] = c /\ \A v \in Worker \ {w} : calls'[v] = calls[v]
    BY <2>1, CallsChange
  <2> QED BY <1>1, <2>1, <2>2, MapStore
<1>3. CASE EditFails(w)
  <2>1. calls[w].pc = "store" /\ End(w) /\ UNCHANGED <<table, runtime, old, torn, up>>
    BY <1>3 DEF EditFails
  <2> QED BY <2>1, CallEnds, MapFrame DEF Quiet
<1>4. CASE ReadTable(w)
  <2> DEFINE c == [pc |-> "publish", host |-> calls[w].host, copy |-> table]
  <2>1. Continue(w, c) /\ old' = old \ {w} /\ UNCHANGED <<table, runtime, torn>>
    BY <1>4 DEF ReadTable, Copied
  <2>2. c.pc = "publish" /\ c.copy = table
    OBVIOUS
  <2> HIDE DEF c
  <2>3. calls'[w] = c /\ \A v \in Worker \ {w} : calls'[v] = calls[v]
    BY <2>1, CallsChange
  <2>4. CopiesCurrent'
    BY <2>1, <2>2, <2>3 DEF MapInv, CopiesCurrent
  <2>5. UpOrNot'
    BY <1>1, <2>2, <2>3 DEF MapInv, UpOrNot, Booting, IsStart
  <2>6. MapCurrent'
    BY <2>2, <2>3 DEF MapCurrent
  <2> QED BY <2>4, <2>5, <2>6 DEF MapInv
<1>5. CASE RefreshFails(w)
  <2>1. torn' /\ End(w) /\ UNCHANGED <<table, runtime, old>>
    BY <1>5 DEF RefreshFails
  <2>2. calls'[w].pc = "none" /\ \A v \in Worker \ {w} : calls'[v] = calls[v]
    BY <2>1, CallEnds
  <2>3. CopiesCurrent' /\ MapCurrent'
    BY <2>1, <2>2 DEF MapInv, CopiesCurrent, MapCurrent
  <2>4. UpOrNot'
    BY <1>1, <2>2 DEF MapInv, UpOrNot, Booting, IsStart
  <2> QED BY <2>3, <2>4 DEF MapInv
<1>6. CASE Publish(w)
  <2>1. /\ calls[w].pc = "publish" /\ runtime' = calls[w].copy
        /\ torn' = (w \in old) /\ old' = old \ {w}
        /\ End(w) /\ UNCHANGED table
    BY <1>6 DEF Publish
  <2>2. calls'[w].pc = "none" /\ \A v \in Worker \ {w} : calls'[v] = calls[v]
    BY <2>1, CallEnds
  <2>3. CopiesCurrent'
    BY <2>1, <2>2 DEF MapInv, CopiesCurrent
  <2>4. MapCurrent'
    BY <2>1 DEF MapInv, CopiesCurrent, MapCurrent
  <2>5. UpOrNot'
    BY <1>1, <2>2 DEF MapInv, UpOrNot, Booting, IsStart
  <2> QED BY <2>3, <2>4, <2>5 DEF MapInv
<1> QED BY <1>2, <1>3, <1>4, <1>5, <1>6

LEMMA MapReload ==
  ASSUME TypeOK, MapInv, NEW w \in Worker, ReloadConfig(w)
  PROVE  MapInv'
<1>1. PICK h \in Host, new \in Offered :
        /\ up = "up"
        /\ Begin(w, [pc |-> "refresh", host |-> h], Unsynced(h, new))
        /\ old' = old \cup Overtaken
        /\ UNCHANGED up
  BY DEF ReloadConfig
<1> DEFINE c == [pc |-> "refresh", host |-> h]
<1>2. c.pc = "refresh"
  OBVIOUS
<1> HIDE DEF c
<1>3. /\ calls[w].pc = "none"
      /\ calls'[w] = c /\ \A v \in Worker \ {w} : calls'[v] = calls[v]
  BY <1>1, CallBegins DEF c
<1> QED BY <1>1, <1>2, <1>3, MapStore

LEMMA MapGateway ==
  ASSUME TypeOK, MapInv, NEW w \in Worker,
         StartGateway(w) \/ LoadSites(w) \/ ResyncNext(w) \/ ResyncEnds(w) \/ ResyncFails(w)
  PROVE  MapInv'
<1>1. CASE StartGateway(w)
  <2>1. PICK listen :
          /\ up = "up"
          /\ Begin(w, [pc |-> "load", op |-> "start", listen |-> listen], {})
          /\ UNCHANGED <<table, runtime, up, old, torn>>
    BY <1>1 DEF StartGateway
  <2> DEFINE c == [pc |-> "load", op |-> "start", listen |-> listen]
  <2>2. Quiet(c) /\ ~Booting(c)
    BY DEF Quiet, Booting
  <2> HIDE DEF c
  <2>3. Begin(w, c, {})
    BY <2>1 DEF c
  <2> QED BY <2>1, <2>2, <2>3, MapBegins
<1>2. CASE LoadSites(w) \/ ResyncNext(w)
  <2>1. /\ calls[w].pc \in {"load", "resync"}
        /\ UNCHANGED <<table, runtime, old, torn, up>>
    BY <1>2 DEF LoadSites, ResyncNext, Resyncing, history
  <2>2. calls[w] \in AtLoad \cup AtResync
    BY <2>1, CallOf, CallStates
  <2>3. PICK c : Continue(w, c) /\ c.pc = "resync" /\ c.op = calls[w].op
    <3>1. CASE LoadSites(w)
      BY <3>1 DEF LoadSites
    <3>2. CASE ResyncNext(w)
      <4>1. PICK row \in calls[w].todo : Continue(w, [calls[w] EXCEPT !.todo = @ \ {row}])
        BY <3>2 DEF ResyncNext
      <4>2. calls[w] \in AtResync
        BY <3>2, CallOf, CallStates DEF ResyncNext, Resyncing
      <4>3. LET c == [calls[w] EXCEPT !.todo = @ \ {row}] IN c.pc = "resync" /\ c.op = calls[w].op
        BY <4>2 DEF AtResync
      <4> QED BY <4>1, <4>3
    <3> QED BY <1>2, <3>1, <3>2
  <2>4. calls'[w] = c /\ \A v \in Worker \ {w} : calls'[v] = calls[v]
    BY <2>3, CallsChange
  <2>5. Quiet(calls[w]) /\ Quiet(calls'[w])
    BY <2>1, <2>3, <2>4 DEF Quiet
  <2>6. Booting(calls'[w]) <=> Booting(calls[w])
    BY <2>1, <2>3, <2>4 DEF Booting, IsStart
  <2>7. (up = "up" /\ ~Booting(calls[w])) \/ (up = "booting" /\ Booting(calls[w]))
    BY <2>1 DEF MapInv, UpOrNot, TypeOK
  <2> QED BY <2>1, <2>4, <2>5, <2>6, <2>7, MapFrame
<1>3. CASE ResyncEnds(w)
  <2>1. /\ calls[w].pc = "resync" /\ End(w) /\ up' = "up"
        /\ UNCHANGED <<table, runtime, old, torn>>
    BY <1>3 DEF ResyncEnds, Resyncing
  <2>2. calls'[w].pc = "none" /\ \A v \in Worker \ {w} : calls'[v] = calls[v]
    BY <2>1, CallEnds
  <2>3. CopiesCurrent'
    BY <2>1, <2>2 DEF MapInv, CopiesCurrent
  <2>4. MapCurrent'
    BY <2>1, <2>2 DEF MapInv, MapCurrent, UpOrNot
  <2>5. ~Booting(calls'[w])
    BY <2>2 DEF Booting, IsStart
  <2>6. \A v \in Worker \ {w} : ~Booting(calls'[v])
    BY <2>1, <2>2 DEF MapInv, UpOrNot, TypeOK
  <2>7. UpOrNot'
    BY <2>1, <2>5, <2>6 DEF UpOrNot
  <2> QED BY <2>3, <2>4, <2>7 DEF MapInv
<1>4. CASE ResyncFails(w)
  <2>1. /\ calls[w].pc \in {"load", "resync"} /\ End(w)
        /\ up' = (IF calls[w].op = "boot" THEN "down" ELSE up)
        /\ UNCHANGED <<table, runtime, old, torn>>
    BY <1>4 DEF ResyncFails
  <2>2. calls'[w].pc = "none" /\ \A v \in Worker \ {w} : calls'[v] = calls[v]
    BY <2>1, CallEnds
  <2>3. CopiesCurrent'
    BY <2>1, <2>2 DEF MapInv, CopiesCurrent
  <2>4. MapCurrent'
    BY <2>1, <2>2 DEF MapInv, MapCurrent, UpOrNot
  <2>5. ~Booting(calls'[w])
    BY <2>2 DEF Booting, IsStart
  <2>6. ASSUME calls[w].op = "boot" PROVE UpOrNot'
    <3>1. Booting(calls[w])
      BY <2>1, <2>6 DEF Booting, IsStart
    <3>2. up = "booting"
      BY <2>1, <3>1 DEF MapInv, UpOrNot, TypeOK
    <3>3. \A v \in Worker \ {w} : ~Booting(calls[v])
      BY <3>1 DEF MapInv, UpOrNot
    <3>4. \A v \in Worker \ {w} : calls[v].pc = "none"
      BY <3>2, <3>3 DEF MapInv, UpOrNot
    <3> QED BY <2>1, <2>2, <2>5, <2>6, <3>3, <3>4 DEF UpOrNot
  <2>7. ASSUME calls[w].op # "boot" PROVE UpOrNot'
    BY <2>1, <2>2, <2>5, <2>7 DEF MapInv, UpOrNot, Booting
  <2>8. UpOrNot'
    BY <2>6, <2>7
  <2> QED BY <2>3, <2>4, <2>8 DEF MapInv
<1> QED BY <1>1, <1>2, <1>3, <1>4

LEMMA MapCrash ==
  ASSUME TypeOK, MapInv, Crash
  PROVE  MapInv'
<1>1. \A w \in Worker : calls'[w].pc = "none"
  BY DEF Crash, Nothing
<1>2. up' = "down"
  BY DEF Crash
<1> QED BY <1>1, <1>2 DEF MapInv, CopiesCurrent, UpOrNot, MapCurrent, Booting, IsStart

\* The process starts: the table is read into the map before anything else.
LEMMA MapBoot ==
  ASSUME TypeOK, MapInv, NEW w \in Worker, Boot(w)
  PROVE  MapInv'
<1>1. up = "down" /\ runtime' = table' /\ UNCHANGED <<old, torn>>
  BY DEF Boot
<1>2. \A v \in Worker : calls[v].pc = "none"
  BY <1>1 DEF MapInv, UpOrNot
<1>3. CASE up' = "up" /\ UNCHANGED calls
  BY <1>1, <1>2, <1>3 DEF MapInv, CopiesCurrent, UpOrNot, MapCurrent, Booting, IsStart
<1>4. ASSUME NEW c, NEW doubt, Begin(w, c, doubt), c.pc = "load", c.op = "boot", up' = "booting"
      PROVE  MapInv'
  <2>1. calls'[w] = c /\ \A v \in Worker \ {w} : calls'[v] = calls[v]
    BY <1>4, CallBegins
  <2>2. \A v \in Worker \ {w} : calls'[v].pc = "none" /\ ~Booting(calls'[v])
    BY <1>2, <2>1 DEF Booting, IsStart
  <2>3. Booting(calls'[w]) /\ calls'[w].pc = "load"
    BY <1>4, <2>1 DEF Booting, IsStart
  <2>4. CopiesCurrent'
    BY <2>2, <2>3 DEF CopiesCurrent
  <2>5. UpOrNot'
    BY <1>4, <2>2, <2>3 DEF UpOrNot
  <2>6. MapCurrent'
    BY <1>1 DEF MapCurrent
  <2> QED BY <2>4, <2>5, <2>6 DEF MapInv
<1>5. (up' = "up" /\ UNCHANGED calls)
        \/ \E c, doubt : Begin(w, c, doubt) /\ c.pc = "load" /\ c.op = "boot" /\ up' = "booting"
  <2> DEFINE start(listen) == [pc |-> "load", op |-> "boot", listen |-> listen]
  <2>1. \A listen : start(listen).pc = "load" /\ start(listen).op = "boot"
    OBVIOUS
  <2>2. (up' = "up" /\ UNCHANGED calls)
          \/ \E listen, doubt : Begin(w, start(listen), doubt) /\ up' = "booting"
    BY DEF Boot
  <2> HIDE DEF start
  <2> QED BY <2>1, <2>2
<1> QED BY <1>3, <1>4, <1>5

LEMMA MapStep ==
  ASSUME TypeOK, MapInv, [Next]_vars
  PROVE  MapInv'
<1>1. CASE StopGateway \/ UNCHANGED vars
  <2>1. UNCHANGED <<table, runtime, old, torn, up, calls>>
    BY <1>1 DEF StopGateway, vars, history
  <2> QED BY <2>1, MapSame
<1>2. ASSUME NEW w \in Worker, Sync(w)
      PROVE  MapInv'
  <2>1. UNCHANGED <<table, runtime, old, torn, up, calls>>
    BY <1>2 DEF Sync
  <2> QED BY <2>1, MapSame
<1> QED BY <1>1, <1>2, MapEdit, MapSeeGateway, MapWrite, MapReload, MapGateway,
           MapCrash, MapBoot DEF Next, Step

\* However edits, reloads, starts and crashes interleave, the map the gateway
\* serves from is the table whenever no call is between its write and its copy,
\* unless the last copy was overtaken by a write or could not be made.
THEOREM MapFollowsTable == Spec => []RuntimeAgrees
<1>1. Init => MapInv
  BY DEF Init, MapInv, CopiesCurrent, UpOrNot, MapCurrent, Booting, IsStart, Nothing
<1>2. TypeOK /\ MapInv /\ [Next]_vars => MapInv'
  BY MapStep
<1>3. MapInv => RuntimeAgrees
  BY DEF MapInv, MapCurrent, RuntimeAgrees
<1> QED BY <1>1, <1>2, <1>3, TypeCorrect, PTL DEF Spec
===========================================================================
