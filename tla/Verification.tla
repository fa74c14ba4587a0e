--------------------------- MODULE Verification ---------------------------
(***************************************************************************)
(* Browser verification of backend/src/verification.rs: an unverified      *)
(* request is redirected to a random path with a one-use state token, the  *)
(* start endpoint exchanges the token for a proof-of-work challenge, and   *)
(* the submit endpoint exchanges a solved challenge for a signed cookie.   *)
(*                                                                         *)
(* The three maps are three mutexes, and each handler takes them one at a  *)
(* time and reads the wall clock outside them, so a handler is a sequence  *)
(* of steps and several handlers interleave.  One action is one stretch    *)
(* under a lock (or one clock reading).  A restart forgets the three maps; *)
(* the signing secret is on disk, so cookies survive it.                   *)
(*                                                                         *)
(* A token and its verify_path are minted together from fresh random bytes *)
(* and never reused; one value of Token stands for both.  A submission is  *)
(* solved when its signature is the challenge's and its counter meets the  *)
(* difficulty.  return_path and page contents are left out.  Bans, logs    *)
(* and the risk engine, which a submission also changes, are in Admission. *)
(***************************************************************************)
EXTENDS Integers, FiniteSets

CONSTANTS Site, Client,   \* hosts, visitor addresses
          Token, Id,      \* redirect tokens (and their paths), challenge ids
          Handler,        \* concurrent request handlers
          NoIp,           \* the cookie's ip when bind_ip is off
          TTL, CookieTTL, \* challenge_ttl_secs, cookie_ttl_secs
          MaxAttempts, MaxActive, BindIp,
          MaxStall,       \* bound: seconds between two steps of a handler
          MaxClock        \* bound: the last second

ASSUME ConfigAssumption ==
  /\ TTL \in Nat \ {0}
  /\ CookieTTL \in Nat \ {0}
  /\ MaxAttempts \in Nat \ {0}
  /\ MaxActive \in Nat \ {0}
  /\ BindIp \in BOOLEAN
  /\ MaxStall \in Nat /\ MaxClock \in Nat
  /\ NoIp \notin Client

VARIABLES clock,       \* unix_now()
          redirects,   \* VerificationState.redirects
          routes,      \* VerificationState.routes
          challenges,  \* VerificationState.challenges
          handlers,    \* what each request handler is about to do
          cookies,     \* the cookies visitors were given
          minted,      \* history: the redirects ever minted
          opened,      \* history: the challenges ever inserted
          guesses,     \* history: submissions compared, per challenge
          redeemed     \* history: cookies issued, per challenge

history == <<minted, opened, guesses, redeemed>>
vars == <<clock, redirects, routes, challenges, handlers, cookies, history>>

RedirectState == [token: Token, site: Site, remote_ip: Client,
                  expires_at: Nat, used: BOOLEAN]
Route == [path: Token, expires_at: Nat]
Challenge == [id: Id, site: Site, remote_ip: Client, path: Token,
              expires_at: Nat, attempts: Nat]
CookiePayload == [id: Id, site: Site, ip: Client \cup {NoIp},
                  issued_at: Nat, expires_at: Nat]

\* A handler between two steps.  now is the clock at its latest step.
Idle == [pc |-> "idle"]
HandlerState ==
  [pc: {"idle"}]
    \cup [pc: {"mint"}, site: Site, ip: Client, now: Nat]
    \cup [pc: {"answer"}, token: Token, now: Nat]
    \cup [pc: {"start"}, site: Site, ip: Client, token: Token, path: Token]
    \cup [pc: {"check"}, site: Site, ip: Client, path: Token,
          expires_at: Nat, used: BOOLEAN, now: Nat]
    \cup [pc: {"issue"}, site: Site, ip: Client, path: Token, now: Nat]
    \cup [pc: {"insert"}, site: Site, ip: Client, path: Token, now: Nat]
    \cup [pc: {"submit"}, site: Site, ip: Client, path: Token, id: Id,
          solved: BOOLEAN]

\* The handlers a stall bound applies to: the others wait for the network.
Running(h) == handlers[h].pc \notin {"idle", "start", "submit"}

TypeOK ==
  /\ clock \in Nat
  /\ redirects \subseteq RedirectState
  /\ routes \subseteq Route
  /\ challenges \subseteq Challenge
  /\ handlers \in [Handler -> HandlerState]
  /\ cookies \subseteq CookiePayload
  /\ minted \subseteq [token: Token, site: Site, remote_ip: Client]
  /\ opened \subseteq [id: Id, path: Token]
  /\ guesses \in [Id -> Nat]
  /\ redeemed \in [Id -> Nat]

Init ==
  /\ clock = 0
  /\ redirects = {} /\ routes = {} /\ challenges = {}
  /\ handlers = [h \in Handler |-> Idle]
  /\ cookies = {} /\ minted = {} /\ opened = {}
  /\ guesses = [i \in Id |-> 0]
  /\ redeemed = [i \in Id |-> 0]

Become(h, hs) == handlers' = [handlers EXCEPT ![h] = hs]

\* redirect_response begins: create_redirect_state reads the clock.
Minting(site, ip) == [pc |-> "mint", site |-> site, ip |-> ip, now |-> clock]

---------------------------------------------------------------------------
(* Requests arrive.  Every path that ends in /start or /submit goes through *)
(* is_verification_path, which also purges the routes.                      *)

LiveRoutes == {r \in routes : r.expires_at > clock}   \* is_verification_path's retain
Routed(path) == \E r \in LiveRoutes : r.path = path

ArriveOrdinary(h, site, ip) ==
  /\ handlers[h] = Idle
  /\ Become(h, Minting(site, ip))
  /\ UNCHANGED <<clock, redirects, routes, challenges, cookies, history>>

ArriveStart(h, site, ip, token, path) ==
  /\ handlers[h] = Idle
  /\ routes' = LiveRoutes
  /\ Become(h, IF Routed(path)
               THEN [pc |-> "start", site |-> site, ip |-> ip,
                     token |-> token, path |-> path]
               ELSE Minting(site, ip))
  /\ UNCHANGED <<clock, redirects, challenges, cookies, history>>

\* A submission whose path is not routed is refused as an unverified POST.
ArriveSubmit(h, site, ip, path, id, solved) ==
  /\ handlers[h] = Idle
  /\ routes' = LiveRoutes
  /\ Become(h, IF Routed(path)
               THEN [pc |-> "submit", site |-> site, ip |-> ip, path |-> path,
                     id |-> id, solved |-> solved]
               ELSE Idle)
  /\ UNCHANGED <<clock, redirects, challenges, cookies, history>>

---------------------------------------------------------------------------
(* create_redirect_state and redirect_response.  The clock value is the one *)
(* read before the lock was taken.  Spent redirects keep their slot.        *)

KeptUnexpired(now) == {rd \in redirects : rd.expires_at > now}   \* mutant
KeptRedirects(now) == {rd \in redirects : rd.expires_at + TTL > now}

KeptRoutes(now) == {r \in routes : r.expires_at > now}

RouteDiesWithRedirect(expires_at) == expires_at                   \* mutant
RouteExpiry(expires_at) == expires_at + 2 * TTL

RefuseRedirect(h) ==
  /\ handlers[h].pc = "mint"
  /\ Cardinality(KeptRedirects(handlers[h].now)) >= MaxActive
  /\ redirects' = KeptRedirects(handlers[h].now)
  /\ Become(h, Idle)
  /\ UNCHANGED <<clock, routes, challenges, cookies, history>>

CreateRedirect(h, t) ==
  LET hs == handlers[h]
      kept == KeptRedirects(hs.now)
      expires_at == hs.now + TTL IN
  /\ hs.pc = "mint"
  /\ Cardinality(kept) < MaxActive
  /\ \A m \in minted : m.token # t
  /\ redirects' = kept \cup {[token |-> t, site |-> hs.site,
                              remote_ip |-> hs.ip, expires_at |-> expires_at,
                              used |-> FALSE]}
  /\ routes' = KeptRoutes(hs.now)
                 \cup {[path |-> t, expires_at |-> RouteExpiry(expires_at)]}
  /\ minted' = minted \cup {[token |-> t, site |-> hs.site, remote_ip |-> hs.ip]}
  /\ Become(h, [pc |-> "answer", token |-> t, now |-> clock])
  /\ UNCHANGED <<clock, challenges, cookies, opened, guesses, redeemed>>

\* The lock is taken again to read the path the answer will name.
AnswerRedirect(h) ==
  /\ handlers[h].pc = "answer"
  /\ Become(h, Idle)
  /\ UNCHANGED <<clock, redirects, routes, challenges, cookies, history>>

---------------------------------------------------------------------------
(* The start endpoint.                                                      *)

Names(hs, rd) == rd.token = hs.token /\ rd.token = hs.path

StartUnknown(h) ==
  LET hs == handlers[h] IN
  /\ hs.pc = "start"
  /\ ~ \E rd \in redirects : Names(hs, rd)
  /\ Become(h, Minting(hs.site, hs.ip))
  /\ UNCHANGED <<clock, redirects, routes, challenges, cookies, history>>

MarkUsed(rd) == [rd EXCEPT !.used = TRUE]

\* The token is marked used even when the visitor or the site is another's;
\* the handler goes on with the copy taken before the mark.
StartFound(h) ==
  LET hs == handlers[h] IN
  /\ hs.pc = "start"
  /\ \E rd \in redirects :
       /\ Names(hs, rd)
       /\ redirects' = (redirects \ {rd}) \cup {MarkUsed(rd)}
       /\ Become(h, IF rd.site = hs.site /\ rd.remote_ip = hs.ip
                    THEN [pc |-> "check", site |-> hs.site, ip |-> hs.ip,
                          path |-> hs.path, expires_at |-> rd.expires_at,
                          used |-> rd.used, now |-> clock]
                    ELSE Minting(hs.site, hs.ip))
  /\ UNCHANGED <<clock, routes, challenges, cookies, history>>

CheckRedirect(h) ==
  LET hs == handlers[h] IN
  /\ hs.pc = "check"
  /\ Become(h, IF hs.used \/ hs.expires_at <= clock
               THEN Minting(hs.site, hs.ip)
               ELSE [pc |-> "issue", site |-> hs.site, ip |-> hs.ip,
                     path |-> hs.path, now |-> clock])
  /\ UNCHANGED <<clock, redirects, routes, challenges, cookies, history>>

\* create_challenge: now is the challenge's issued_at.
CreateChallenge(h) ==
  /\ handlers[h].pc = "issue"
  /\ Become(h, [handlers[h] EXCEPT !.pc = "insert", !.now = clock])
  /\ UNCHANGED <<clock, redirects, routes, challenges, cookies, history>>

LiveChallenges == {c \in challenges : c.expires_at > clock}

InsertChallenge(h, id) ==
  LET hs == handlers[h] IN
  /\ hs.pc = "insert"
  /\ Cardinality(LiveChallenges) < MaxActive
  /\ \A o \in opened : o.id # id
  /\ challenges' = LiveChallenges
       \cup {[id |-> id, site |-> hs.site, remote_ip |-> hs.ip,
              path |-> hs.path, expires_at |-> hs.now + TTL, attempts |-> 0]}
  /\ opened' = opened \cup {[id |-> id, path |-> hs.path]}
  /\ Become(h, Idle)
  /\ UNCHANGED <<clock, redirects, routes, cookies, minted, guesses, redeemed>>

\* Too many active challenges: the visitor's token is already spent.
RefuseChallenge(h) ==
  /\ handlers[h].pc = "insert"
  /\ Cardinality(LiveChallenges) >= MaxActive
  /\ challenges' = LiveChallenges
  /\ Become(h, Idle)
  /\ UNCHANGED <<clock, redirects, routes, cookies, history>>

---------------------------------------------------------------------------
(* The submit endpoint: one stretch under the challenges lock, after the    *)
(* body has been read.                                                      *)

AcceptsAnyAddress(c, hs) ==                                       \* mutant
  /\ hs.solved /\ c.expires_at > clock
  /\ c.site = hs.site /\ c.path = hs.path

Accepts(c, hs) ==
  /\ hs.solved
  /\ c.expires_at > clock
  /\ c.site = hs.site
  /\ c.path = hs.path
  /\ BindIp => c.remote_ip = hs.ip

AttemptsRemaining(c) == [c EXCEPT !.attempts = c.attempts - 1]    \* mutant
AttemptUncounted(c) == c                                          \* mutant
CountAttempt(c) == [c EXCEPT !.attempts = c.attempts + 1]

NotConsumed(c) == challenges                                      \* mutant
Consume(c) == challenges \ {c}

SubmitUnknown(h) ==
  /\ handlers[h].pc = "submit"
  /\ \A c \in challenges : c.id # handlers[h].id
  /\ Become(h, Idle)
  /\ UNCHANGED <<clock, redirects, routes, challenges, cookies, history>>

SubmitExhausted(h) ==
  /\ handlers[h].pc = "submit"
  /\ \E c \in challenges : c.id = handlers[h].id /\ c.attempts >= MaxAttempts
  /\ Become(h, Idle)
  /\ UNCHANGED <<clock, redirects, routes, challenges, cookies, history>>

SubmitRejected(h) ==
  LET hs == handlers[h] IN
  /\ hs.pc = "submit"
  /\ \E c \in challenges :
       /\ c.id = hs.id /\ c.attempts < MaxAttempts /\ ~Accepts(c, hs)
       /\ challenges' = (challenges \ {c}) \cup {CountAttempt(c)}
  /\ guesses' = [guesses EXCEPT ![hs.id] = guesses[hs.id] + 1]
  /\ Become(h, Idle)
  /\ UNCHANGED <<clock, redirects, routes, cookies, minted, opened, redeemed>>

\* issue_cookie_response: the cookie is for the challenge's site and the
\* submitter's address.
IssuedCookie(c, hs) ==
  [id |-> c.id, site |-> c.site, ip |-> IF BindIp THEN hs.ip ELSE NoIp,
   issued_at |-> clock, expires_at |-> clock + CookieTTL]

SubmitAccepted(h) ==
  LET hs == handlers[h] IN
  /\ hs.pc = "submit"
  /\ \E c \in challenges :
       /\ c.id = hs.id /\ c.attempts < MaxAttempts /\ Accepts(c, hs)
       /\ challenges' = Consume(c)
       /\ cookies' = cookies \cup {IssuedCookie(c, hs)}
  /\ guesses' = [guesses EXCEPT ![hs.id] = guesses[hs.id] + 1]
  /\ redeemed' = [redeemed EXCEPT ![hs.id] = redeemed[hs.id] + 1]
  /\ Become(h, Idle)
  /\ UNCHANGED <<clock, redirects, routes, minted, opened>>

---------------------------------------------------------------------------
(* The environment: time passes, the process restarts.                      *)

Tick ==
  /\ clock < MaxClock
  /\ \A h \in Handler : Running(h) => clock < handlers[h].now + MaxStall
  /\ clock' = clock + 1
  /\ UNCHANGED <<redirects, routes, challenges, handlers, cookies, history>>

Restart ==
  /\ redirects' = {} /\ routes' = {} /\ challenges' = {}
  /\ handlers' = [h \in Handler |-> Idle]
  /\ UNCHANGED <<clock, cookies, history>>

Arrive(h) ==
  \E site \in Site, ip \in Client :
    \/ ArriveOrdinary(h, site, ip)
    \/ \E token, path \in Token : ArriveStart(h, site, ip, token, path)
    \/ \E path \in Token, id \in Id, solved \in BOOLEAN :
         ArriveSubmit(h, site, ip, path, id, solved)

RedirectStep(h) ==
  \/ RefuseRedirect(h)
  \/ \E t \in Token : CreateRedirect(h, t)
  \/ AnswerRedirect(h)

StartStep(h) ==
  \/ StartUnknown(h) \/ StartFound(h) \/ CheckRedirect(h)
  \/ CreateChallenge(h) \/ RefuseChallenge(h)
  \/ \E id \in Id : InsertChallenge(h, id)

SubmitStep(h) ==
  SubmitUnknown(h) \/ SubmitExhausted(h) \/ SubmitRejected(h) \/ SubmitAccepted(h)

Next ==
  \/ \E h \in Handler : Arrive(h) \/ RedirectStep(h) \/ StartStep(h) \/ SubmitStep(h)
  \/ Tick
  \/ Restart

Spec == Init /\ [][Next]_vars

---------------------------------------------------------------------------
(* Properties.                                                              *)

\* verify_cookie of a cookie the server signed.
CookieAccepted(c, site, ip) ==
  /\ c.site = site
  /\ BindIp => c.ip = ip
  /\ c.expires_at > clock
  /\ c.issued_at <= clock
  /\ c.expires_at - c.issued_at <= CookieTTL

\* docs/SECURITY.md: challenges are one-use.  However submissions, restarts and
\* purges interleave, a challenge yields at most one cookie.
OneCookiePerChallenge == \A i \in Id : redeemed[i] <= 1

\* A state token opens at most one challenge, although the token is marked
\* used in one lock section, checked on a copy outside it, and the challenge is
\* inserted in another.
OneChallengePerRedirect ==
  \A o1, o2 \in opened : o1.path = o2.path => o1 = o2

\* No more than max_attempts submissions are ever compared with a challenge,
\* by all visitors together.
GuessesBounded == \A i \in Id : guesses[i] <= MaxAttempts

\* A cookie that verify_cookie accepts for a site and an address descends, over
\* three requests, from a redirect minted for that site and (with bind_ip) that
\* address, through a challenge that was solved.
CookieSound ==
  \A c \in cookies, site \in Site, ip \in Client :
    CookieAccepted(c, site, ip) =>
      \E o \in opened, m \in minted :
        /\ o.id = c.id /\ m.token = o.path
        /\ m.site = site
        /\ BindIp => m.remote_ip = ip
        /\ redeemed[c.id] > 0

\* A handler that is not waiting for a request body has no await between its
\* lock sections, so a scheduler that is not overloaded delays it by less than
\* challenge_ttl_secs.  RoutedWhilePending and AnswerFindsRedirect rest on that.
Prompt == MaxStall < TTL

\* The routes map is purged on its own schedule: while a redirect can still be
\* started or a challenge still be solved, its path is routed, so the visitor's
\* next request reaches handle_verification.
RoutedWhilePending ==
  Prompt => /\ \A rd \in redirects : rd.expires_at > clock => Routed(rd.token)
            /\ \A c \in challenges : c.expires_at > clock => Routed(c.path)

\* redirect_response looks its own redirect up again after releasing the lock
\* and answers with a dead path if it is gone: no purge takes it in between.
AnswerFindsRedirect ==
  Prompt => \A h \in Handler : handlers[h].pc = "answer" =>
              \E rd \in redirects : rd.token = handlers[h].token

\* The redirects are purged with clock readings that are taken before the lock:
\* a reading older than another by more than a lifetime inserts a redirect
\* that the next purge takes at once, and only its route stays.
Timely == MaxStall <= TTL

\* The routes map has no cap of its own; the caps of the redirects keep it
\* within twice max active.
RoutesBounded == Timely => Cardinality(routes) <= 2 * MaxActive

\* A token, path or cookie is as the one-time grant says: this module
\* implements OneTimeGrant.
Grant == INSTANCE OneTimeGrant WITH
  Ticket <- Token, Pass <- Id,
  offered <- {m.token : m \in minted},
  opened <- {<<o.path, o.id>> : o \in opened},
  honoured <- redeemed

ImplementsGrant == Grant!Spec
===========================================================================
