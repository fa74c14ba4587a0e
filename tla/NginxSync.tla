----------------------------- MODULE NginxSync -----------------------------
(* nginx.rs: how one site is put under, or taken out of, the protection of *)
(* BotGate in a running Nginx.  sync_site edits two files, the site's own  *)
(* include and the operator's vhost, in which a marked block names the     *)
(* include, then has Nginx test its configuration and reload.  Each worker *)
(* (a dashboard call, or the start of the gateway) runs sync_site on a     *)
(* thread of its own and no lock is held, so that the steps of two workers *)
(* interleave.                                                              *)
(*                                                                          *)
(* All sites here live in one vhost file, each in the server block that    *)
(* matching_server_closes finds for it.  The file is its set of marked     *)
(* sites: everything else in it is the operator's and stays as it is.      *)
EXTENDS Naturals, FiniteSets

CONSTANTS
  Worker,      \* what may run sync_site
  Host,        \* the sites' hosts
  Listen,      \* addresses the gateway may listen on
  None         \* no include

ASSUME NginxAssumptions == None \notin Listen

VARIABLES
  shared,      \* do all hosts match one server block (a catch-all), or each its own?
  vhost,       \* the hosts with a marked block in the vhost file
  includes,    \* the address in each host's include, or None
  sync         \* where each worker's sync_site is

files == <<vhost, includes>>
syncVars == <<shared, vhost, includes, sync>>

Address == Listen \cup {None}
Off == [pc |-> "off"]
SyncState ==
  [pc: {"off"}]
    \cup [pc: {"read"}, host: Host, on: BOOLEAN, listen: Address]
    \cup [pc: {"done", "failed"}, host: Host]
    \cup [pc: {"include", "vhost", "test", "restore vhost", "restore include"},
          host: Host, on: BOOLEAN, listen: Address,
          original: SUBSET Host, previous: Address]

SyncTypeOK ==
  /\ shared \in BOOLEAN
  /\ vhost \in SUBSET Host
  /\ includes \in [Host -> Address]
  /\ sync \in [Worker -> SyncState]

Go(w, s) == sync' = [sync EXCEPT ![w] = s]
To(w, pc) == Go(w, [sync[w] EXCEPT !.pc = pc])
Over(w, pc) == Go(w, [pc |-> pc, host |-> sync[w].host])

\* The call of sync_site; remove_site is a call with on = FALSE.
Called(host, on, listen) ==
  [pc |-> "read", host |-> host, on |-> on, listen |-> listen]

\* Blocks that name the host come first; a catch-all or default block serves
\* the hosts that no block names.
SameBlock(g, h) == shared \/ g = h

\* What nginx -t accepts: every marked block finds its include, and no server
\* block has two of them (auth_request and the locations would be duplicates).
Valid ==
  /\ \A h \in vhost : includes[h] # None
  /\ \A g, h \in vhost : SameBlock(g, h) => g = h

---------------------------------------------------------------------------

\* insert_marker and remove_marker on the text that was read.
Marked(s) == IF s.on THEN s.original \cup {s.host} ELSE s.original \ {s.host}

Desired(s) == IF s.on THEN s.listen ELSE None

\* A block that is there is removed and inserted again, and the white space
\* around it grows, so that a protected site is never left as it is.
VhostChanged(s) == s.on \/ s.host \in s.original
IncludeChanged(s) == s.previous # Desired(s)

\* No file has a block for the host, several have one, none can be read, or no
\* Nginx lists them (with no vhost_dir it also refuses when its configuration
\* is invalid): nothing was written.
VhostNotFound(w) ==
  /\ sync[w].pc = "read"
  /\ Over(w, "failed")
  /\ UNCHANGED <<shared, files>>

\* Both files are read, and what they should become is compared with that.
ReadFiles(w) ==
  LET s == [pc |-> "include", host |-> sync[w].host, on |-> sync[w].on,
            listen |-> sync[w].listen, original |-> vhost,
            previous |-> includes[sync[w].host]] IN
  /\ sync[w].pc = "read"
  /\ IF VhostChanged(s) \/ IncludeChanged(s) THEN Go(w, s) ELSE Over(w, "done")
  /\ UNCHANGED <<shared, files>>

\* The include goes first; an error here ends the call.
WriteInclude(w) ==
  LET s == sync[w] IN
  /\ s.pc = "include"
  /\ \/ /\ includes' = [includes EXCEPT ![s.host] = Desired(s)]
        /\ To(w, IF VhostChanged(s) THEN "vhost" ELSE "test")
     \/ Over(w, "failed") /\ UNCHANGED includes
  /\ UNCHANGED <<shared, vhost>>

\* The whole file is written from what was read; an error leaves the include.
WriteVhost(w) ==
  LET s == sync[w] IN
  /\ s.pc = "vhost"
  /\ \/ vhost' = Marked(s) /\ To(w, "test")
     \/ Over(w, "failed") /\ UNCHANGED vhost
  /\ UNCHANGED <<shared, includes>>

ReloadAnyway == TRUE                                              \* mutant
Passes == Valid

\* test_and_reload.  Either command may also fail for another reason.
TestAndReload(w) ==
  LET s == sync[w] IN
  /\ s.pc = "test"
  /\ \/ Passes /\ Over(w, "done")
     \/ To(w, IF VhostChanged(s) THEN "restore vhost" ELSE "restore include")
  /\ UNCHANGED <<shared, files>>

RestoreVhost(w) ==
  /\ sync[w].pc = "restore vhost"
  /\ vhost' \in {sync[w].original, vhost}     \* an error here is ignored
  /\ To(w, "restore include")
  /\ UNCHANGED <<shared, includes>>

IncludeKept(s) == IF s.previous = None THEN includes[s.host] ELSE s.previous \* mutant
Restored(s) == s.previous

RestoreInclude(w) ==
  LET s == sync[w] IN
  /\ s.pc = "restore include"
  /\ \E i \in {Restored(s), includes[s.host]} :
       includes' = [includes EXCEPT ![s.host] = i]
  /\ Over(w, "failed")
  /\ UNCHANGED <<shared, vhost>>

SyncStep(w) ==
  \/ VhostNotFound(w) \/ ReadFiles(w) \/ WriteInclude(w) \/ WriteVhost(w)
  \/ TestAndReload(w) \/ RestoreVhost(w) \/ RestoreInclude(w)
===========================================================================
