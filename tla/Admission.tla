----------------------------- MODULE Admission -----------------------------
(***************************************************************************)
(* The admission of a request: handle_request of backend/src/main.rs, the   *)
(* auth_request check of backend/src/nginx_bridge.rs, and the risk engine   *)
(* of backend/src/security.rs between which they share state.               *)
(*                                                                         *)
(* A request of a protected site without a live cookie is refused if its    *)
(* address is banned or over its rate; otherwise the risk engine scores it, *)
(* and the score returned from under the lock decides afterwards whether    *)
(* the address is banned, the request refused, the visitor sent to the      *)
(* verification, or the request forwarded.  A forwarded request is scored   *)
(* again when the upstream answers, which may be much later.                *)
(*                                                                         *)
(* Everything up to the scoring takes each lock once and writes nothing but *)
(* the pruned bans: arriving is one step.  The limiter (RateLimit) may      *)
(* refuse any request it is asked about, and the verification endpoints     *)
(* (Verification) may accept or reject any submission; a cookie is bound to *)
(* site and address.  The scanner, the bans and storage are enabled, and an *)
(* enabled license is active.  The challenge threshold only picks between   *)
(* two refusals, so it is left out, and paths are told apart by name and by *)
(* whether they are sensitive.                                              *)
(***************************************************************************)
EXTENDS Integers, FiniteSets

CONSTANTS Client, Site, Path,
          Sensitive,         \* paths that match sensitive_paths
          Unscored,          \* paths under /__bot_verify
          Handler,           \* concurrent request handlers
          SensitivePoints, MethodPoints, DiversityPoints, NotFoundPoints,
          FailurePoints,     \* 30, 10, 20, 20 and 30
          LimitAt, BanAt,    \* risk_limit_threshold, risk_ban_threshold
          MaxPaths, Max404,  \* max_distinct_paths_per_minute, max_404_per_minute
          Window, IdleTTL,   \* 60 s, 300 s
          PathCap, RiskCap,  \* MAX_PATHS_PER_RISK_ENTRY, MAX_RISK_ENTRIES
          MaxCount,          \* where a u32 saturates
          BanDuration, CookieTTL,
          MaxStall,          \* bound: seconds between two steps of a handler
          MaxClock           \* bound: the last second

ASSUME ConfigAssumption ==
  /\ Sensitive \subseteq Path /\ Unscored \subseteq Path
  /\ {SensitivePoints, MethodPoints, DiversityPoints, NotFoundPoints, FailurePoints}
       \subseteq Nat
  /\ LimitAt \in Nat \ {0} /\ BanAt \in Nat /\ BanAt > LimitAt
  /\ MaxPaths \in Nat \ {0} /\ Max404 \in Nat \ {0}
  /\ Window \in Nat \ {0} /\ IdleTTL \in Nat \ {0}
  /\ PathCap \in Nat \ {0} /\ RiskCap \in Nat \ {0}
  /\ MaxCount \in Nat /\ DiversityPoints <= MaxCount
  /\ BanDuration \in Nat \ {0} /\ CookieTTL \in Nat \ {0}
  /\ MaxStall \in Nat /\ MaxClock \in Nat

VARIABLES clock,
          verification, \* verification.enabled, read at the start
          enabled,      \* the sites whose protection is on
          inline,       \* the sites of nginx mode; the others are of proxy mode
          whitelist,    \* the addresses with a whitelist rule
          cookies,      \* the cookies visitors hold
          bans,         \* SecurityState.bans: when an address's ban expires
          risks,        \* SecurityState.risks
          handlers,     \* what each request handler is about to do
          scored        \* history: since when an entry has had points

admin == <<verification, enabled, inline, whitelist>>
vars == <<clock, admin, cookies, bans, risks, handlers, scored>>

Key == Client \X Site
RiskState == [window_started: Nat, last_seen: Nat, not_found: 0..MaxCount,
              distinct_paths: SUBSET Path, score: 0..MaxCount]
Cookie == [site: Site, ip: Client, expires_at: Nat]
Idle == [pc |-> "idle"]

\* bridge: the request came through nginx's auth_request.  The other flags are
\* as they were when it arrived.
HandlerState ==
  [pc: {"idle"}]
    \cup [pc: {"observe"}, ip: Client, site: Site, path: Path, head: BOOLEAN,
          bridge: BOOLEAN, inline: BOOLEAN, now: Nat]
    \cup [pc: {"upstream"}, ip: Client, site: Site, path: Path,
          protected: BOOLEAN, counted: BOOLEAN]
    \cup [pc: {"response"}, ip: Client, site: Site, path: Path, now: Nat]
    \cup [pc: {"submit"}, ip: Client, site: Site]
    \cup [pc: {"fail"}, ip: Client, site: Site, now: Nat]
    \cup [pc: {"ban"}, ip: Client]

\* Handlers that await neither the upstream nor a request body.
Running(h) == handlers[h].pc \in {"observe", "response", "fail"}

TypeOK ==
  /\ clock \in Nat
  /\ verification \in BOOLEAN
  /\ enabled \subseteq Site /\ inline \subseteq Site
  /\ whitelist \subseteq Client
  /\ cookies \subseteq Cookie
  /\ bans \in [Client -> Nat]
  /\ DOMAIN risks \subseteq Key /\ Cardinality(DOMAIN risks) <= RiskCap
  /\ risks \in [DOMAIN risks -> RiskState]
  /\ \A k \in DOMAIN risks : Cardinality(risks[k].distinct_paths) <= PathCap
  /\ handlers \in [Handler -> HandlerState]
  /\ scored \in [Key -> Nat]

Init ==
  /\ clock = 0
  /\ verification \in BOOLEAN
  /\ enabled \in SUBSET Site /\ inline \in SUBSET Site
  /\ whitelist \in SUBSET Client
  /\ cookies = {}
  /\ bans = [ip \in Client |-> 0]
  /\ risks = [k \in {} |-> [score |-> 0]]
  /\ handlers = [h \in Handler |-> Idle]
  /\ scored = [k \in Key |-> 0]

Become(h, hs) == handlers' = [handlers EXCEPT ![h] = hs]

---------------------------------------------------------------------------
(* Arriving.                                                                *)

\* verify_cookie, when verification is enabled.
AnyonesCookie(ip, site) ==                                        \* mutant
  verification /\ \E c \in cookies : c.site = site /\ c.expires_at > clock
Verified(ip, site) ==
  /\ verification
  /\ \E c \in cookies : c.site = site /\ c.ip = ip /\ c.expires_at > clock

\* The requests the scanner's state applies to, and of them those let past
\* active_ban, which prunes the map.
Guarded(ip, site) == site \in enabled /\ ~Verified(ip, site)
Pruned == [ip \in Client |-> IF bans[ip] > clock THEN bans[ip] ELSE 0]
Unbanned(ip) == bans[ip] <= clock
PruneIf(guarded) == bans' = IF guarded THEN Pruned ELSE bans

Observing(ip, site, path, head, bridge) ==
  [pc |-> "observe", ip |-> ip, site |-> site, path |-> path, head |-> head,
   bridge |-> bridge, inline |-> site \in inline, now |-> clock]

Forwarding(ip, site, path, protected, counted) ==
  [pc |-> "upstream", ip |-> ip, site |-> site, path |-> path,
   protected |-> protected, counted |-> counted]

\* Banned, over its rate, or whitelisted and yet unverified.
ArriveRefused(ip, site) ==
  /\ Guarded(ip, site)
  /\ bans' = Pruned
  /\ UNCHANGED <<clock, admin, cookies, risks, handlers, scored>>

\* A POST to a verification path; handle_verification waits for its body.
ArriveSubmit(h, ip, site) ==
  /\ handlers[h] = Idle
  /\ verification /\ site \in enabled
  /\ Guarded(ip, site) => Unbanned(ip)
  /\ PruneIf(Guarded(ip, site))
  /\ Become(h, [pc |-> "submit", ip |-> ip, site |-> site])
  /\ UNCHANGED <<clock, admin, cookies, risks, scored>>

\* handle_request spares whitelisted addresses the scoring, the bridge does not.
ArriveObserved(h, ip, site, path, head, bridge) ==
  /\ handlers[h] = Idle
  /\ Guarded(ip, site) /\ Unbanned(ip)
  /\ IF bridge THEN site \in inline /\ verification ELSE ip \notin whitelist
  /\ bans' = Pruned
  /\ Become(h, Observing(ip, site, path, head, bridge))
  /\ UNCHANGED <<clock, admin, cookies, risks, scored>>

\* A whitelisted request's risk is 0: it still needs the cookie.
Spared(ip) == ip \in whitelist /\ ~verification

\* The requests whose response will be scored.
CountedWhilePaused(ip, site) == ~Verified(ip, site) /\ ip \notin whitelist  \* mutant
Counted(ip, site) == Guarded(ip, site) /\ ip \notin whitelist

\* The requests that go to the upstream without being scored.  Of an nginx-mode
\* site they are answered at once and change nothing.
ArriveAdmitted(h, ip, site, path) ==
  /\ handlers[h] = Idle
  /\ site \notin inline
  /\ Guarded(ip, site) => Spared(ip) /\ Unbanned(ip)
  /\ PruneIf(Guarded(ip, site))
  /\ Become(h, Forwarding(ip, site, path, site \in enabled, Counted(ip, site)))
  /\ UNCHANGED <<clock, admin, cookies, risks, scored>>

---------------------------------------------------------------------------
(* The risk engine.                                                         *)

Since(past, now) == IF now > past THEN now - past ELSE 0
Plus(a, b) == IF a + b < MaxCount THEN a + b ELSE MaxCount
PointsIf(condition, points) == IF condition THEN points ELSE 0

Fresh(now) == [window_started |-> now, last_seen |-> now, not_found |-> 0,
               distinct_paths |-> {}, score |-> 0]

\* The entry at the start of an observation, the window rolled over if need be.
ScoreKept(r, now) ==                                              \* mutant
  IF Since(r.window_started, now) >= Window
  THEN [Fresh(now) EXCEPT !.score = r.score] ELSE [r EXCEPT !.last_seen = now]
PathsKept(r, now) ==                                              \* mutant
  IF Since(r.window_started, now) >= Window
  THEN [Fresh(now) EXCEPT !.distinct_paths = r.distinct_paths]
  ELSE [r EXCEPT !.last_seen = now]
Rolled(r, now) ==
  IF Since(r.window_started, now) >= Window THEN Fresh(now) ELSE [r EXCEPT !.last_seen = now]

Entry(k, live, now) == Rolled(IF k \in live THEN risks[k] ELSE Fresh(now), now)

WithPath(paths, path) ==
  IF Cardinality(paths) < PathCap THEN paths \cup {path} ELSE paths

\* observe_request purges entries that were not seen for IdleTTL.
Recent(now) == {k \in DOMAIN risks : Since(risks[k].last_seen, now) < IdleTTL}

RoomForOneMore(k, live) == k \in live \/ Cardinality(live) <= RiskCap  \* mutant
Room(k, live) == k \in live \/ Cardinality(live) < RiskCap

\* Entry r is stored under k, next to those of live; e is r before its points.
Store(k, e, r, live) ==
  /\ risks' = [j \in live \cup {k} |-> IF j = k THEN r ELSE risks[j]]
  /\ scored' = IF e.score > 0 \/ r.score = 0 THEN scored
               ELSE [scored EXCEPT ![k] = clock]

\* Only the live entries are left, and nothing is scored.
Keep(live) ==
  /\ risks' = [j \in live |-> risks[j]]
  /\ UNCHANGED scored

Observed(r, path, head) ==
  LET paths == WithPath(r.distinct_paths, path)
      points == PointsIf(path \in Sensitive, SensitivePoints)
                  + PointsIf(head, MethodPoints)
                  + PointsIf(Cardinality(paths) = MaxPaths, DiversityPoints) IN
  [r EXCEPT !.distinct_paths = paths, !.score = Plus(r.score, points)]

\* What handle_request or the bridge does with the score it was returned.
Decision(hs, risk) ==
  CASE risk >= BanAt -> [pc |-> "ban", ip |-> hs.ip]
    [] risk < LimitAt /\ ~verification /\ ~hs.inline ->
         Forwarding(hs.ip, hs.site, hs.path, TRUE, TRUE)
    [] OTHER -> Idle

ObserveRequest(h) ==
  LET hs == handlers[h]
      k == <<hs.ip, hs.site>>
      live == Recent(hs.now)
      e == Entry(k, live, hs.now)
      r == Observed(e, hs.path, hs.head) IN
  /\ hs.pc = "observe"
  /\ IF hs.path \in Unscored
     THEN UNCHANGED <<risks, scored>> /\ Become(h, Decision(hs, 0))
     ELSE IF Room(k, live)
     THEN Store(k, e, r, live) /\ Become(h, Decision(hs, r.score))
     ELSE Keep(live) /\ Become(h, Decision(hs, 0))
  /\ UNCHANGED <<clock, admin, cookies, bans>>

\* The upstream answers, fails or times out.  Only a 404 is scored.
Respond(h, not_found) ==
  LET hs == handlers[h] IN
  /\ hs.pc = "upstream"
  /\ Become(h, IF not_found /\ hs.counted
               THEN [pc |-> "response", ip |-> hs.ip, site |-> hs.site,
                     path |-> hs.path, now |-> clock]
               ELSE Idle)
  /\ UNCHANGED <<clock, admin, cookies, bans, risks, scored>>

\* observe_response: the path is inserted after the window may have rolled over,
\* and the number of paths is not looked at.
Answered(r, path) ==
  LET not_found == Plus(r.not_found, 1) IN
  [r EXCEPT !.not_found = not_found,
            !.score = Plus(r.score, PointsIf(not_found = Max404, NotFoundPoints)),
            !.distinct_paths = WithPath(r.distinct_paths, path)]

ObserveResponse(h) ==
  LET hs == handlers[h]
      k == <<hs.ip, hs.site>>
      live == DOMAIN risks
      e == Entry(k, live, hs.now)
      r == Answered(e, hs.path) IN
  /\ hs.pc = "response"
  /\ IF k \in live
     THEN /\ Store(k, e, r, live)
          /\ Become(h, IF r.score >= BanAt THEN [pc |-> "ban", ip |-> hs.ip] ELSE Idle)
     ELSE UNCHANGED <<risks, scored>> /\ Become(h, Idle)
  /\ UNCHANGED <<clock, admin, cookies, bans>>

---------------------------------------------------------------------------
(* A submission that names a challenge.                                     *)

\* A wrong answer, or one too many: note_challenge_failure begins.
RejectSubmission(h) ==
  LET hs == handlers[h] IN
  /\ hs.pc = "submit"
  /\ Become(h, [pc |-> "fail", ip |-> hs.ip, site |-> hs.site, now |-> clock])
  /\ UNCHANGED <<clock, admin, cookies, bans, risks, scored>>

AddRisk(h) ==
  LET hs == handlers[h]
      k == <<hs.ip, hs.site>>
      live == DOMAIN risks
      e == Entry(k, live, hs.now)
      r == [e EXCEPT !.score = Plus(e.score, FailurePoints)] IN
  /\ hs.pc = "fail"
  /\ IF Room(k, live)
     THEN /\ Store(k, e, r, live)
          /\ Become(h, IF r.score >= BanAt THEN [pc |-> "ban", ip |-> hs.ip] ELSE Idle)
     ELSE UNCHANGED <<risks, scored>> /\ Become(h, Idle)
  /\ UNCHANGED <<clock, admin, cookies, bans>>

\* clear_risk, then the cookie, all under the lock of the challenges.
AcceptSubmission(h) ==
  LET hs == handlers[h] IN
  /\ hs.pc = "submit"
  /\ Keep(DOMAIN risks \ {<<hs.ip, hs.site>>})
  /\ cookies' = cookies \cup {[site |-> hs.site, ip |-> hs.ip,
                               expires_at |-> clock + CookieTTL]}
  /\ Become(h, Idle)
  /\ UNCHANGED <<clock, admin, bans>>

\* It names no challenge, or none that is still there; one whose attempts are
\* used up is refused like a wrong answer, by RejectSubmission.
IgnoreSubmission(h) ==
  /\ handlers[h].pc = "submit"
  /\ Become(h, Idle)
  /\ UNCHANGED <<clock, admin, cookies, bans, risks, scored>>

---------------------------------------------------------------------------
\* SecurityState::ban; Bans has the rest of it.
Ban(h) ==
  /\ handlers[h].pc = "ban"
  /\ bans' = [bans EXCEPT ![handlers[h].ip] = clock + BanDuration]
  /\ Become(h, Idle)
  /\ UNCHANGED <<clock, admin, cookies, risks, scored>>

\* An administrator pauses or resumes a site, changes its mode, or adds or
\* deletes a whitelist rule: refresh_managed_runtime puts it in force at once.
Edit ==
  /\ enabled' \in SUBSET Site /\ inline' \in SUBSET Site
  /\ whitelist' \in SUBSET Client
  /\ UNCHANGED <<clock, verification, cookies, bans, risks, handlers, scored>>

\* Cookies and bans outlive the process, and the configuration is read again.
Restart ==
  /\ verification' \in BOOLEAN
  /\ risks' = [k \in {} |-> risks[k]]
  /\ handlers' = [h \in Handler |-> Idle]
  /\ UNCHANGED <<clock, enabled, inline, whitelist, cookies, bans, scored>>

Tick ==
  /\ clock < MaxClock
  /\ \A h \in Handler : Running(h) => clock < handlers[h].now + MaxStall
  /\ clock' = clock + 1
  /\ UNCHANGED <<admin, cookies, bans, risks, handlers, scored>>

Arrive ==
  \E ip \in Client, site \in Site :
    \/ ArriveRefused(ip, site)
    \/ \E h \in Handler :
         \/ ArriveSubmit(h, ip, site)
         \/ \E path \in Path :
              \/ ArriveAdmitted(h, ip, site, path)
              \/ \E head, bridge \in BOOLEAN :
                   ArriveObserved(h, ip, site, path, head, bridge)

HandlerStep(h) ==
  \/ ObserveRequest(h)
  \/ \E not_found \in BOOLEAN : Respond(h, not_found)
  \/ ObserveResponse(h)
  \/ RejectSubmission(h) \/ AddRisk(h) \/ AcceptSubmission(h) \/ IgnoreSubmission(h)
  \/ Ban(h)

Next ==
  \/ Arrive
  \/ \E h \in Handler : HandlerStep(h)
  \/ Edit
  \/ Restart
  \/ Tick

Spec == Init /\ [][Next]_vars

---------------------------------------------------------------------------
(* Properties.                                                              *)

\* docs/ARCHITECTURE.md: a request without a valid cookie never reaches an
\* upstream while verification is enabled, whitelisted or not; a paused site's
\* may.  What is on its way there was let through by a cookie of its site and
\* address, however its protection, its bans and its score have changed since.
OnlyVerifiedForwarded ==
  \A h \in Handler :
    handlers[h].pc = "upstream" /\ handlers[h].protected /\ verification =>
      \E c \in cookies : c.site = handlers[h].site /\ c.ip = handlers[h].ip

\* The points an entry has when it is scored were all given less than a window
\* before, although the three scoring functions roll the window over each on its
\* own and with clock readings that may come in another order than the locks.
PointsAreRecent ==
  \A k \in DOMAIN risks :
    risks[k].score > 0 => risks[k].last_seen < scored[k] + Window

\* With verification on, whoever reaches an upstream of a protected site is
\* verified, and verified traffic is not scored: no 404 is ever counted.
NoNotFoundWhileVerifying ==
  verification => \A k \in DOMAIN risks : risks[k].not_found = 0

\* Path diversity is scored (docs/ARCHITECTURE.md): an entry that went past the
\* number of distinct paths has the points for it.
DiversityIsScored ==
  \A k \in DOMAIN risks :
    Cardinality(risks[k].distinct_paths) > MaxPaths => risks[k].score >= DiversityPoints

\* The same where requests are scored only once, on arrival.
DiversityScoredOnArrival == verification => DiversityIsScored
===========================================================================
