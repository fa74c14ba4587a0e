------------------------ MODULE VerificationProofs ------------------------
(***************************************************************************)
(* Verification proved for every number of visitors, tokens, challenges    *)
(* and handlers, and for every clock bound: types, then the inductive      *)
(* invariants behind the properties.                                       *)
(***************************************************************************)
EXTENDS Verification, FiniteSetTheorems, TLAPS

(* ---------------------------- type correctness ------------------------- *)

LEMMA MintingType ==
  ASSUME TypeOK, NEW site \in Site, NEW ip \in Client
  PROVE  Minting(site, ip) \in HandlerState
BY DEF TypeOK, Minting, HandlerState

LEMMA ArriveType ==
  ASSUME TypeOK, NEW h \in Handler, Arrive(h)
  PROVE  TypeOK'
<1>1. PICK site \in Site, ip \in Client :
        \/ ArriveOrdinary(h, site, ip)
        \/ \E token, path \in Token : ArriveStart(h, site, ip, token, path)
        \/ \E path \in Token, id \in Id, solved \in BOOLEAN :
             ArriveSubmit(h, site, ip, path, id, solved)
  BY DEF Arrive
<1>2. LiveRoutes \subseteq routes
  BY DEF LiveRoutes
<1>3. Minting(site, ip) \in HandlerState
  BY MintingType
<1>4. CASE ArriveOrdinary(h, site, ip)
  BY <1>3, <1>4 DEF ArriveOrdinary, TypeOK, Become, history
<1>5. CASE \E token, path \in Token : ArriveStart(h, site, ip, token, path)
  <2>1. PICK token \in Token, path \in Token : ArriveStart(h, site, ip, token, path)
    BY <1>5
  <2>2. [pc |-> "start", site |-> site, ip |-> ip, token |-> token, path |-> path]
          \in HandlerState
    BY DEF HandlerState
  <2>. QED BY <1>2, <1>3, <2>1, <2>2 DEF ArriveStart, TypeOK, Become, history
<1>6. CASE \E path \in Token, id \in Id, solved \in BOOLEAN :
             ArriveSubmit(h, site, ip, path, id, solved)
  <2>1. PICK path \in Token, id \in Id, solved \in BOOLEAN :
          ArriveSubmit(h, site, ip, path, id, solved)
    BY <1>6
  <2>2. /\ [pc |-> "submit", site |-> site, ip |-> ip, path |-> path,
            id |-> id, solved |-> solved] \in HandlerState
        /\ Idle \in HandlerState
    BY DEF HandlerState, Idle
  <2>. QED BY <1>2, <2>1, <2>2 DEF ArriveSubmit, TypeOK, Become, history
<1>. QED BY <1>1, <1>4, <1>5, <1>6

LEMMA RedirectStepType ==
  ASSUME TypeOK, NEW h \in Handler, RedirectStep(h)
  PROVE  TypeOK'
<1>. USE ConfigAssumption
<1>1. Idle \in HandlerState
  BY DEF HandlerState, Idle
<1>2. CASE RefuseRedirect(h)
  <2>1. redirects' \subseteq redirects
    BY <1>2 DEF RefuseRedirect, KeptRedirects
  <2>. QED BY <1>1, <1>2, <2>1 DEF RefuseRedirect, TypeOK, Become, history
<1>3. ASSUME NEW t \in Token, CreateRedirect(h, t)
      PROVE  TypeOK'
  <2>. DEFINE hs == handlers[h]
  <2>1. hs.pc = "mint" /\ hs \in HandlerState
    BY <1>3 DEF CreateRedirect, TypeOK
  <2>2. hs.site \in Site /\ hs.ip \in Client /\ hs.now \in Nat
    BY <2>1 DEF HandlerState
  <2>3. redirects' \subseteq RedirectState
    <3>1. [token |-> t, site |-> hs.site, remote_ip |-> hs.ip,
           expires_at |-> hs.now + TTL, used |-> FALSE] \in RedirectState
      BY <2>2 DEF RedirectState
    <3>2. KeptRedirects(hs.now) \subseteq RedirectState
      BY DEF KeptRedirects, TypeOK
    <3>. QED BY <1>3, <3>1, <3>2 DEF CreateRedirect
  <2>4. RouteExpiry(hs.now + TTL) \in Nat
    BY <2>2 DEF RouteExpiry
  <2>5. routes' \subseteq Route
    BY <1>3, <2>4 DEF CreateRedirect, TypeOK, KeptRoutes, Route
  <2>6. minted' \subseteq [token: Token, site: Site, remote_ip: Client]
    BY <1>3, <2>2 DEF CreateRedirect, TypeOK
  <2>7. [pc |-> "answer", token |-> t, now |-> clock] \in HandlerState
    BY DEF HandlerState, TypeOK
  <2>8. handlers' \in [Handler -> HandlerState]
    BY <1>3, <2>7 DEF CreateRedirect, TypeOK, Become
  <2>. QED BY <1>3, <2>3, <2>5, <2>6, <2>8 DEF CreateRedirect, TypeOK
<1>4. CASE AnswerRedirect(h)
  BY <1>1, <1>4 DEF AnswerRedirect, TypeOK, Become, history
<1>. QED BY <1>2, <1>3, <1>4 DEF RedirectStep

LEMMA StartStepType ==
  ASSUME TypeOK, NEW h \in Handler, StartStep(h)
  PROVE  TypeOK'
<1>. USE ConfigAssumption
<1>. DEFINE hs == handlers[h]
<1>1. Idle \in HandlerState /\ hs \in HandlerState
  BY DEF HandlerState, Idle, TypeOK
<1>2. CASE StartUnknown(h)
  <2>1. hs.site \in Site /\ hs.ip \in Client
    BY <1>1, <1>2 DEF StartUnknown, HandlerState
  <2>. QED BY <1>2, <2>1, MintingType DEF StartUnknown, TypeOK, Become, history
<1>3. CASE StartFound(h)
  <2>1. hs.site \in Site /\ hs.ip \in Client /\ hs.path \in Token
    BY <1>1, <1>3 DEF StartFound, HandlerState
  <2>2. PICK rd \in redirects :
          /\ redirects' = (redirects \ {rd}) \cup {MarkUsed(rd)}
          /\ Become(h, IF rd.site = hs.site /\ rd.remote_ip = hs.ip
                       THEN [pc |-> "check", site |-> hs.site, ip |-> hs.ip,
                             path |-> hs.path, expires_at |-> rd.expires_at,
                             used |-> rd.used, now |-> clock]
                       ELSE Minting(hs.site, hs.ip))
    BY <1>3 DEF StartFound
  <2>3. rd \in RedirectState
    BY DEF TypeOK
  <2>4. redirects' \subseteq RedirectState
    BY <2>2, <2>3 DEF MarkUsed, RedirectState, TypeOK
  <2>5. [pc |-> "check", site |-> hs.site, ip |-> hs.ip, path |-> hs.path,
         expires_at |-> rd.expires_at, used |-> rd.used, now |-> clock]
          \in HandlerState
    BY <2>1, <2>3 DEF HandlerState, RedirectState, TypeOK
  <2>6. handlers' \in [Handler -> HandlerState]
    BY <2>1, <2>2, <2>5, MintingType DEF TypeOK, Become
  <2>. QED BY <1>3, <2>4, <2>6 DEF StartFound, TypeOK, history
<1>4. CASE CheckRedirect(h)
  <2>1. hs.site \in Site /\ hs.ip \in Client /\ hs.path \in Token
    BY <1>1, <1>4 DEF CheckRedirect, HandlerState
  <2>2. [pc |-> "issue", site |-> hs.site, ip |-> hs.ip, path |-> hs.path,
         now |-> clock] \in HandlerState
    BY <2>1 DEF HandlerState, TypeOK
  <2>. QED BY <1>4, <2>1, <2>2, MintingType
           DEF CheckRedirect, TypeOK, Become, history
<1>5. CASE CreateChallenge(h)
  <2>1. hs \in [pc: {"issue"}, site: Site, ip: Client, path: Token, now: Nat]
    BY <1>1, <1>5 DEF CreateChallenge, HandlerState
  <2>2. [hs EXCEPT !.pc = "insert", !.now = clock] \in HandlerState
    BY <2>1 DEF HandlerState, TypeOK
  <2>. QED BY <1>5, <2>2 DEF CreateChallenge, TypeOK, Become, history
<1>6. CASE RefuseChallenge(h)
  <2>1. challenges' \subseteq challenges
    BY <1>6 DEF RefuseChallenge, LiveChallenges
  <2>. QED BY <1>1, <1>6, <2>1 DEF RefuseChallenge, TypeOK, Become, history
<1>7. ASSUME NEW id \in Id, InsertChallenge(h, id)
      PROVE  TypeOK'
  <2>1. /\ hs.site \in Site /\ hs.ip \in Client /\ hs.path \in Token
        /\ hs.now \in Nat
    BY <1>1, <1>7 DEF InsertChallenge, HandlerState
  <2>2. challenges' \subseteq Challenge
    BY <1>7, <2>1 DEF InsertChallenge, LiveChallenges, Challenge, TypeOK
  <2>3. opened' \subseteq [id: Id, path: Token]
    BY <1>7, <2>1 DEF InsertChallenge, TypeOK
  <2>4. handlers' \in [Handler -> HandlerState]
    BY <1>1, <1>7 DEF InsertChallenge, TypeOK, Become
  <2>. QED BY <1>7, <2>2, <2>3, <2>4 DEF InsertChallenge, TypeOK
<1>. QED BY <1>2, <1>3, <1>4, <1>5, <1>6, <1>7 DEF StartStep

LEMMA SubmitStepType ==
  ASSUME TypeOK, NEW h \in Handler, SubmitStep(h)
  PROVE  TypeOK'
<1>. USE ConfigAssumption
<1>. DEFINE hs == handlers[h]
<1>1. Idle \in HandlerState /\ hs \in HandlerState
  BY DEF HandlerState, Idle, TypeOK
<1>2. hs.pc = "submit"
  BY DEF SubmitStep, SubmitUnknown, SubmitExhausted, SubmitRejected, SubmitAccepted
<1>3. hs.site \in Site /\ hs.ip \in Client /\ hs.path \in Token /\ hs.id \in Id
  BY <1>1, <1>2 DEF HandlerState
<1>4. CASE SubmitUnknown(h) \/ SubmitExhausted(h)
  BY <1>1, <1>4 DEF SubmitUnknown, SubmitExhausted, TypeOK, Become, history
<1>5. CASE SubmitRejected(h)
  <2>1. challenges' \subseteq Challenge
    BY <1>5 DEF SubmitRejected, CountAttempt, Challenge, TypeOK
  <2>. QED BY <1>1, <1>3, <1>5, <2>1 DEF SubmitRejected, TypeOK, Become
<1>6. CASE SubmitAccepted(h)
  <2>1. PICK c \in challenges :
          /\ challenges' = Consume(c)
          /\ cookies' = cookies \cup {IssuedCookie(c, hs)}
    BY <1>6 DEF SubmitAccepted
  <2>2. IssuedCookie(c, hs) \in CookiePayload
    BY <1>3 DEF IssuedCookie, CookiePayload, Challenge, TypeOK
  <2>3. challenges' \subseteq challenges
    BY <2>1 DEF Consume
  <2>. QED BY <1>1, <1>3, <1>6, <2>1, <2>2, <2>3
           DEF SubmitAccepted, TypeOK, Become
<1>. QED BY <1>4, <1>5, <1>6 DEF SubmitStep

\* Every reachable state has the declared types.
THEOREM TypeCorrect == Spec => []TypeOK
<1>1. Init => TypeOK
  BY DEF Init, TypeOK, Idle, HandlerState
<1>2. TypeOK /\ [Next]_vars => TypeOK'
  <2>1. ASSUME TypeOK, NEW h \in Handler,
               Arrive(h) \/ RedirectStep(h) \/ StartStep(h) \/ SubmitStep(h)
        PROVE  TypeOK'
    BY <2>1, ArriveType, RedirectStepType, StartStepType, SubmitStepType
  <2>2. TypeOK /\ Tick => TypeOK'
    BY DEF TypeOK, Tick, history
  <2>3. TypeOK /\ Restart => TypeOK'
    BY DEF TypeOK, Restart, history, Idle, HandlerState
  <2>4. TypeOK /\ UNCHANGED vars => TypeOK'
    BY DEF TypeOK, vars, history
  <2>. QED BY <2>1, <2>2, <2>3, <2>4 DEF Next
<1>. QED BY <1>1, <1>2, PTL DEF Spec

(* ------------------------- one challenge per redirect ------------------ *)

\* The visitor's redirect, as it was minted.
Minted(token, site, ip) ==
  \E m \in minted : m.token = token /\ m.site = site /\ m.remote_ip = ip

\* A handler between consuming a token and inserting its challenge; it claims
\* the token when it was the first to consume it.
Carries(h) == handlers[h].pc \in {"check", "issue", "insert"}
Claims(h) == \/ handlers[h].pc \in {"issue", "insert"}
             \/ handlers[h].pc = "check" /\ ~handlers[h].used

TokensMinted == \A rd \in redirects : Minted(rd.token, rd.site, rd.remote_ip)
TokensUnique == \A r1, r2 \in redirects : r1.token = r2.token => r1 = r2
CarriedMinted ==
  \A h \in Handler : Carries(h) =>
    /\ handlers[h].path \in Token
    /\ Minted(handlers[h].path, handlers[h].site, handlers[h].ip)
OpenedMinted == \A o \in opened : \E m \in minted : m.token = o.path
ClaimsExclusive ==
  \A h1, h2 \in Handler :
    Claims(h1) /\ Claims(h2) /\ handlers[h1].path = handlers[h2].path => h1 = h2
ClaimedSpent ==
  \A h \in Handler : Claims(h) =>
    /\ \A rd \in redirects : rd.token = handlers[h].path => rd.used
    /\ \A o \in opened : o.path # handlers[h].path
OpenedSpent == \A o \in opened : \A rd \in redirects : rd.token = o.path => rd.used
IdsUnique == \A o1, o2 \in opened : o1.id = o2.id => o1 = o2

\* OneChallengePerRedirect is not inductive: it needs that a consumed token is
\* claimed by one handler, and that tokens are not minted twice.
TokenInv ==
  /\ TokensMinted /\ TokensUnique /\ CarriedMinted /\ OpenedMinted
  /\ ClaimsExclusive /\ ClaimedSpent /\ OpenedSpent /\ IdsUnique
  /\ OneChallengePerRedirect

\* A step that mints, spends and opens nothing, in which a handler that carries
\* a token has carried it before.
LEMMA TokenInvStable ==
  ASSUME TokenInv,
         redirects' \subseteq redirects, minted' = minted, opened' = opened,
         \A k \in Handler : Carries(k)' =>
           /\ Carries(k)
           /\ Claims(k)' => Claims(k)
           /\ handlers'[k].path = handlers[k].path
           /\ handlers'[k].site = handlers[k].site
           /\ handlers'[k].ip = handlers[k].ip
  PROVE  TokenInv'
<1>1. \A k \in Handler : Claims(k)' => Carries(k)'
  BY DEF Claims, Carries
<1>2. TokensMinted' /\ TokensUnique' /\ OpenedMinted' /\ OpenedSpent' /\ IdsUnique'
        /\ OneChallengePerRedirect'
  BY DEF TokenInv, TokensMinted, TokensUnique, OpenedMinted, OpenedSpent, IdsUnique,
         OneChallengePerRedirect, Minted
<1>3. CarriedMinted'
  BY DEF TokenInv, CarriedMinted, Minted
<1>4. ClaimsExclusive' /\ ClaimedSpent'
  BY <1>1 DEF TokenInv, ClaimsExclusive, ClaimedSpent
<1>. QED BY <1>2, <1>3, <1>4 DEF TokenInv

\* A handler that moves to a state in which it carries nothing.
LEMMA DroppedCarriesNothing ==
  ASSUME TypeOK, NEW h \in Handler, NEW hs, Become(h, hs),
         hs.pc \notin {"check", "issue", "insert"}
  PROVE  \A k \in Handler : Carries(k)' =>
           /\ Carries(k)
           /\ Claims(k)' => Claims(k)
           /\ handlers'[k].path = handlers[k].path
           /\ handlers'[k].site = handlers[k].site
           /\ handlers'[k].ip = handlers[k].ip
BY DEF Become, TypeOK, Carries, Claims

LEMMA CreateRedirectToken ==
  ASSUME TypeOK, TokenInv, NEW h \in Handler, NEW t \in Token, CreateRedirect(h, t)
  PROVE  TokenInv'
<1>. DEFINE hs == handlers[h]
            rd == [token |-> t, site |-> hs.site, remote_ip |-> hs.ip,
                   expires_at |-> hs.now + TTL, used |-> FALSE]
            m == [token |-> t, site |-> hs.site, remote_ip |-> hs.ip]
<1>1. /\ redirects' \subseteq redirects \cup {rd}
      /\ minted' = minted \cup {m}
      /\ opened' = opened
      /\ \A x \in minted : x.token # t
      /\ Become(h, [pc |-> "answer", token |-> t, now |-> clock])
  BY DEF CreateRedirect, KeptRedirects
<1>2. \A k \in Handler : Carries(k)' =>
           /\ Carries(k)
           /\ Claims(k)' => Claims(k)
           /\ handlers'[k].path = handlers[k].path
           /\ handlers'[k].site = handlers[k].site
           /\ handlers'[k].ip = handlers[k].ip
  BY <1>1, DroppedCarriesNothing
<1>3. \A k \in Handler : Claims(k)' => Carries(k)'
  BY DEF Claims, Carries
<1>4. \A x \in redirects : x.token # t
  BY <1>1 DEF TokenInv, TokensMinted, Minted
<1>5. \A o \in opened : o.path # t
  BY <1>1 DEF TokenInv, OpenedMinted
<1>6. \A k \in Handler : Carries(k) => handlers[k].path # t
  BY <1>1 DEF TokenInv, CarriedMinted, Minted
<1>. rd.token = t /\ rd.site = hs.site /\ rd.remote_ip = hs.ip
  OBVIOUS
<1>. HIDE DEF rd
<1>7. TokensMinted'
  <2>1. m \in minted' /\ m.token = t /\ m.site = hs.site /\ m.remote_ip = hs.ip
    BY <1>1
  <2>. HIDE DEF m
  <2>2. ASSUME NEW x \in redirects'
        PROVE  \E y \in minted' : y.token = x.token /\ y.site = x.site
                                   /\ y.remote_ip = x.remote_ip
    BY <1>1, <2>1 DEF TokenInv, TokensMinted, Minted
  <2>. QED BY <2>2 DEF TokensMinted, Minted
<1>8. TokensUnique'
  BY <1>1, <1>4 DEF TokenInv, TokensUnique
<1>9. CarriedMinted' /\ OpenedMinted'
  BY <1>1, <1>2 DEF TokenInv, CarriedMinted, OpenedMinted, Minted
<1>10. ClaimsExclusive'
  BY <1>2, <1>3 DEF TokenInv, ClaimsExclusive
<1>11. ClaimedSpent'
  BY <1>1, <1>2, <1>3, <1>6 DEF TokenInv, ClaimedSpent
<1>12. OpenedSpent' /\ IdsUnique' /\ OneChallengePerRedirect'
  BY <1>1, <1>5 DEF TokenInv, OpenedSpent, IdsUnique, OneChallengePerRedirect
<1>. QED BY <1>7, <1>8, <1>9, <1>10, <1>11, <1>12 DEF TokenInv

LEMMA StartFoundToken ==
  ASSUME TypeOK, TokenInv, NEW h \in Handler, StartFound(h)
  PROVE  TokenInv'
<1>. DEFINE hs == handlers[h]
<1>1. hs.pc = "start" /\ hs \in HandlerState /\ minted' = minted /\ opened' = opened
  BY DEF StartFound, history, TypeOK
<1>2. PICK rd \in redirects :
        /\ rd.token = hs.path
        /\ redirects' = (redirects \ {rd}) \cup {MarkUsed(rd)}
        /\ Become(h, IF rd.site = hs.site /\ rd.remote_ip = hs.ip
                     THEN [pc |-> "check", site |-> hs.site, ip |-> hs.ip,
                           path |-> hs.path, expires_at |-> rd.expires_at,
                           used |-> rd.used, now |-> clock]
                     ELSE Minting(hs.site, hs.ip))
  BY DEF StartFound, Names
<1>3. rd \in RedirectState /\ hs.path \in Token
  BY <1>1 DEF TypeOK, HandlerState
<1>4. /\ MarkUsed(rd).token = rd.token /\ MarkUsed(rd).used = TRUE
      /\ MarkUsed(rd).site = rd.site /\ MarkUsed(rd).remote_ip = rd.remote_ip
  BY <1>3 DEF MarkUsed, RedirectState
<1>5. \A k \in Handler : k # h => handlers'[k] = handlers[k]
  BY <1>2 DEF Become, TypeOK
<1>6. ~Carries(h) /\ ~Claims(h)
  BY <1>1 DEF Carries, Claims
<1>7. Carries(h)' =>
        /\ rd.site = hs.site /\ rd.remote_ip = hs.ip
        /\ handlers'[h].path = hs.path
        /\ handlers'[h].site = hs.site /\ handlers'[h].ip = hs.ip
        /\ Claims(h)' => ~rd.used
  BY <1>2 DEF Become, TypeOK, Carries, Claims, Minting
<1>8. \A k \in Handler : Claims(k)' => Carries(k)'
  BY DEF Claims, Carries
<1>9. \A k \in Handler : k # h => (Carries(k)' <=> Carries(k)) /\ (Claims(k)' <=> Claims(k))
  BY <1>5 DEF Carries, Claims
<1>10. TokensMinted'
  BY <1>1, <1>2, <1>4 DEF TokenInv, TokensMinted, Minted
<1>11. TokensUnique'
  BY <1>2, <1>4 DEF TokenInv, TokensUnique
<1>12. CarriedMinted'
  <2>1. Minted(rd.token, rd.site, rd.remote_ip)
    BY DEF TokenInv, TokensMinted
  <2>. QED BY <1>1, <1>2, <1>3, <1>5, <1>7, <1>9, <2>1 DEF TokenInv, CarriedMinted, Minted
<1>13. ClaimsExclusive'
  BY <1>2, <1>5, <1>7, <1>8, <1>9 DEF TokenInv, ClaimsExclusive, ClaimedSpent
<1>14. ClaimedSpent'
  <2>1. \A x \in redirects' : x.token = hs.path => x.used
    BY <1>2, <1>4 DEF TokenInv, TokensUnique
  <2>2. Claims(h)' => \A o \in opened : o.path # hs.path
    BY <1>2, <1>7, <1>8 DEF TokenInv, OpenedSpent
  <2>3. ASSUME NEW k \in Handler, k # h, Claims(k)
        PROVE  \A x \in redirects' : x.token = handlers[k].path => x.used
    BY <1>2, <1>4, <2>3 DEF TokenInv, ClaimedSpent
  <2>. QED BY <1>1, <1>5, <1>7, <1>8, <1>9, <2>1, <2>2, <2>3 DEF TokenInv, ClaimedSpent
<1>15. OpenedSpent' /\ OpenedMinted' /\ IdsUnique' /\ OneChallengePerRedirect'
  BY <1>1, <1>2, <1>4 DEF TokenInv, OpenedSpent, OpenedMinted, IdsUnique, OneChallengePerRedirect
<1>. QED BY <1>10, <1>11, <1>12, <1>13, <1>14, <1>15 DEF TokenInv

LEMMA InsertChallengeToken ==
  ASSUME TypeOK, TokenInv, NEW h \in Handler, NEW id \in Id, InsertChallenge(h, id)
  PROVE  TokenInv'
<1>. DEFINE hs == handlers[h]
            o == [id |-> id, path |-> hs.path]
<1>1. /\ hs.pc = "insert" /\ redirects' = redirects /\ minted' = minted
      /\ opened' = opened \cup {o} /\ \A x \in opened : x.id # id
      /\ Become(h, Idle)
  BY DEF InsertChallenge
<1>2. Claims(h) /\ Carries(h)
  BY <1>1 DEF Claims, Carries
<1>3. ~Carries(h)' /\ ~Claims(h)'
  BY <1>1 DEF Become, TypeOK, Carries, Claims, Idle
<1>4. \A k \in Handler : k # h =>
        handlers'[k] = handlers[k] /\ (Carries(k)' <=> Carries(k)) /\ (Claims(k)' <=> Claims(k))
  BY <1>1 DEF Become, TypeOK, Carries, Claims
<1>5. TokensMinted' /\ TokensUnique'
  BY <1>1 DEF TokenInv, TokensMinted, TokensUnique, Minted
<1>6. CarriedMinted' /\ ClaimsExclusive'
  BY <1>1, <1>3, <1>4 DEF TokenInv, CarriedMinted, ClaimsExclusive, Minted
<1>7. OpenedMinted'
  BY <1>1, <1>2 DEF TokenInv, OpenedMinted, CarriedMinted, Minted
<1>8. ClaimedSpent'
  BY <1>1, <1>2, <1>3, <1>4 DEF TokenInv, ClaimedSpent, ClaimsExclusive
<1>9. OpenedSpent'
  BY <1>1, <1>2 DEF TokenInv, OpenedSpent, ClaimedSpent
<1>10. IdsUnique' /\ OneChallengePerRedirect'
  BY <1>1, <1>2 DEF TokenInv, IdsUnique, OneChallengePerRedirect, ClaimedSpent
<1>. QED BY <1>5, <1>6, <1>7, <1>8, <1>9, <1>10 DEF TokenInv

\* The steps that neither mint, nor consume, nor open.
LEMMA OtherStepToken ==
  ASSUME TypeOK, TokenInv, NEW h \in Handler,
         \/ Arrive(h) \/ RefuseRedirect(h) \/ AnswerRedirect(h) \/ StartUnknown(h)
         \/ CheckRedirect(h) \/ CreateChallenge(h) \/ RefuseChallenge(h) \/ SubmitStep(h)
  PROVE  TokenInv'
<1>. DEFINE hs == handlers[h]
<1>1. Idle.pc \notin {"check", "issue", "insert"}
  BY DEF Idle
<1>2. \A site, ip : Minting(site, ip).pc \notin {"check", "issue", "insert"}
  BY DEF Minting
<1>3. CASE Arrive(h)
  <2>1. /\ Become(h, handlers'[h])
        /\ handlers'[h].pc \notin {"check", "issue", "insert"}
    BY <1>3 DEF Arrive, ArriveOrdinary, ArriveStart, ArriveSubmit, Become, TypeOK,
                Minting, Idle
  <2>2. redirects' = redirects /\ minted' = minted /\ opened' = opened
    BY <1>3 DEF Arrive, ArriveOrdinary, ArriveStart, ArriveSubmit, history
  <2>. QED BY <2>1, <2>2, DroppedCarriesNothing, TokenInvStable
<1>4. CASE RefuseRedirect(h) \/ AnswerRedirect(h) \/ RefuseChallenge(h) \/ SubmitStep(h)
  <2>1. Become(h, Idle)
    BY <1>4 DEF RefuseRedirect, AnswerRedirect, RefuseChallenge, SubmitStep, SubmitUnknown,
                SubmitExhausted, SubmitRejected, SubmitAccepted
  <2>2. redirects' \subseteq redirects /\ minted' = minted /\ opened' = opened
    BY <1>4 DEF RefuseRedirect, AnswerRedirect, RefuseChallenge, SubmitStep, SubmitUnknown,
                SubmitExhausted, SubmitRejected, SubmitAccepted, KeptRedirects, history
  <2>. QED BY <1>1, <2>1, <2>2, DroppedCarriesNothing, TokenInvStable
<1>5. CASE StartUnknown(h)
  <2>1. redirects' = redirects /\ minted' = minted /\ opened' = opened
    BY <1>5 DEF StartUnknown, history
  <2>. QED BY <1>2, <1>5, <2>1, DroppedCarriesNothing, TokenInvStable DEF StartUnknown
<1>6. CASE CheckRedirect(h)
  <2>1. redirects' = redirects /\ minted' = minted /\ opened' = opened
    BY <1>6 DEF CheckRedirect, history
  <2>2. CASE hs.used \/ hs.expires_at <= clock
    <3>1. Become(h, Minting(hs.site, hs.ip))
      BY <1>6, <2>2 DEF CheckRedirect
    <3>. QED BY <1>2, <2>1, <3>1, DroppedCarriesNothing, TokenInvStable
  <2>3. CASE ~(hs.used \/ hs.expires_at <= clock)
    <3>1. Become(h, [pc |-> "issue", site |-> hs.site, ip |-> hs.ip,
                     path |-> hs.path, now |-> clock])
      BY <1>6, <2>3 DEF CheckRedirect
    <3>2. Carries(h) /\ Claims(h)
      BY <1>6, <2>3 DEF CheckRedirect, Carries, Claims
    <3>3. \A k \in Handler : Carries(k)' =>
             /\ Carries(k)
             /\ Claims(k)' => Claims(k)
             /\ handlers'[k].path = handlers[k].path
             /\ handlers'[k].site = handlers[k].site
             /\ handlers'[k].ip = handlers[k].ip
      BY <3>1, <3>2 DEF Become, TypeOK, Carries, Claims
    <3>. QED BY <2>1, <3>3, TokenInvStable
  <2>. QED BY <2>2, <2>3
<1>7. CASE CreateChallenge(h)
  <2>1. redirects' = redirects /\ minted' = minted /\ opened' = opened
    BY <1>7 DEF CreateChallenge, history
  <2>2. Carries(h) /\ Claims(h)
    BY <1>7 DEF CreateChallenge, Carries, Claims
  <2>3. hs \in [pc: {"issue"}, site: Site, ip: Client, path: Token, now: Nat]
    BY <1>7 DEF CreateChallenge, TypeOK, HandlerState
  <2>4. \A k \in Handler : Carries(k)' =>
           /\ Carries(k)
           /\ Claims(k)' => Claims(k)
           /\ handlers'[k].path = handlers[k].path
           /\ handlers'[k].site = handlers[k].site
           /\ handlers'[k].ip = handlers[k].ip
    BY <1>7, <2>2, <2>3 DEF CreateChallenge, Become, TypeOK, Carries, Claims
  <2>. QED BY <2>1, <2>4, TokenInvStable
<1>. QED BY <1>3, <1>4, <1>5, <1>6, <1>7

LEMMA TokenInvInductive == TypeOK /\ TokenInv /\ [Next]_vars => TokenInv'
<1>. SUFFICES ASSUME TypeOK, TokenInv, [Next]_vars
              PROVE  TokenInv'
  OBVIOUS
<1>1. ASSUME NEW h \in Handler,
             Arrive(h) \/ RedirectStep(h) \/ StartStep(h) \/ SubmitStep(h)
      PROVE  TokenInv'
  BY <1>1, OtherStepToken, CreateRedirectToken, StartFoundToken, InsertChallengeToken
     DEF RedirectStep, StartStep
<1>2. CASE Tick \/ UNCHANGED vars
  <2>1. redirects' = redirects /\ minted' = minted /\ opened' = opened /\ handlers' = handlers
    BY <1>2 DEF Tick, vars, history
  <2>. QED BY <2>1, TokenInvStable DEF Carries, Claims
<1>3. CASE Restart
  <2>1. redirects' = {} /\ minted' = minted /\ opened' = opened
    BY <1>3 DEF Restart, history
  <2>2. \A k \in Handler : ~Carries(k)'
    BY <1>3 DEF Restart, Carries, Idle
  <2>. QED BY <2>1, <2>2, TokenInvStable
<1>. QED BY <1>1, <1>2, <1>3 DEF Next

LEMMA InitTokenInv == Init => TokenInv
BY DEF Init, TokenInv, TokensMinted, TokensUnique, CarriedMinted, OpenedMinted,
       ClaimsExclusive, ClaimedSpent, OpenedSpent, IdsUnique, OneChallengePerRedirect,
       Carries, Claims, Idle

\* A state token opens at most one challenge, for every number of handlers and
\* every interleaving of their lock sections.
THEOREM AtMostOneChallenge == Spec => []OneChallengePerRedirect
<1>1. TokenInv => OneChallengePerRedirect
  BY DEF TokenInv
<1>. QED BY <1>1, InitTokenInv, TypeCorrect, TokenInvInductive, PTL DEF Spec

(* ---------------------- one cookie per challenge ----------------------- *)

ChallengesOpened ==
  \A c \in challenges : /\ [id |-> c.id, path |-> c.path] \in opened
                        /\ Minted(c.path, c.site, c.remote_ip)
ChallengesUnique == \A c1, c2 \in challenges : c1.id = c2.id => c1 = c2
ChallengesCounted ==
  \A c \in challenges : /\ redeemed[c.id] = 0
                        /\ guesses[c.id] = c.attempts
UnopenedUntouched ==
  \A i \in Id : (\A o \in opened : o.id # i) => redeemed[i] = 0 /\ guesses[i] = 0
CookiesDescend ==
  \A k \in cookies :
    \E o \in opened, m \in minted :
      /\ o.id = k.id /\ m.token = o.path /\ m.site = k.site
      /\ BindIp => m.remote_ip = k.ip
      /\ redeemed[k.id] > 0

\* What is known of a challenge id at each stage of its life: not opened, open
\* (its attempts are the guesses made), consumed.
ChallengeInv ==
  /\ ChallengesOpened /\ ChallengesUnique /\ ChallengesCounted
  /\ UnopenedUntouched /\ CookiesDescend
  /\ OneCookiePerChallenge /\ GuessesBounded

\* A step that may mint and may drop challenges.
LEMMA ChallengeInvStable ==
  ASSUME ChallengeInv,
         challenges' \subseteq challenges, minted \subseteq minted', opened' = opened,
         guesses' = guesses, redeemed' = redeemed, cookies' = cookies
  PROVE  ChallengeInv'
<1>1. ChallengesOpened'
  BY DEF ChallengeInv, ChallengesOpened, Minted
<1>2. ChallengesUnique' /\ ChallengesCounted' /\ UnopenedUntouched'
  BY DEF ChallengeInv, ChallengesUnique, ChallengesCounted, UnopenedUntouched
<1>3. CookiesDescend'
  <2>1. ASSUME NEW k \in cookies
        PROVE  \E o \in opened, m \in minted' :
                 /\ o.id = k.id /\ m.token = o.path /\ m.site = k.site
                 /\ BindIp => m.remote_ip = k.ip
                 /\ redeemed[k.id] > 0
    BY DEF ChallengeInv, CookiesDescend
  <2>. QED BY <2>1 DEF CookiesDescend
<1>4. OneCookiePerChallenge' /\ GuessesBounded'
  BY DEF ChallengeInv, OneCookiePerChallenge, GuessesBounded
<1>. QED BY <1>1, <1>2, <1>3, <1>4 DEF ChallengeInv

LEMMA InsertChallengeCounts ==
  ASSUME TypeOK, TokenInv, ChallengeInv,
         NEW h \in Handler, NEW id \in Id, InsertChallenge(h, id)
  PROVE  ChallengeInv'
<1>. USE ConfigAssumption
<1>. DEFINE hs == handlers[h]
            c == [id |-> id, site |-> hs.site, remote_ip |-> hs.ip, path |-> hs.path,
                  expires_at |-> hs.now + TTL, attempts |-> 0]
            o == [id |-> id, path |-> hs.path]
<1>1. /\ challenges' \subseteq challenges \cup {c}
      /\ opened' = opened \cup {o} /\ \A x \in opened : x.id # id
      /\ minted' = minted /\ guesses' = guesses /\ redeemed' = redeemed
      /\ cookies' = cookies
  BY DEF InsertChallenge, LiveChallenges
<1>2. Minted(hs.path, hs.site, hs.ip)
  BY DEF InsertChallenge, TokenInv, CarriedMinted, Carries
<1>3. /\ c.id = id /\ c.path = hs.path /\ c.site = hs.site /\ c.remote_ip = hs.ip
      /\ c.attempts = 0 /\ o.id = id /\ o = [id |-> c.id, path |-> c.path]
  OBVIOUS
<1>4. redeemed[id] = 0 /\ guesses[id] = 0
  BY <1>1 DEF ChallengeInv, UnopenedUntouched
<1>. HIDE DEF c, o
<1>5. \A x \in challenges : x.id # id
  <2>1. \A x \in challenges : [id |-> x.id, path |-> x.path] \in opened
    BY DEF ChallengeInv, ChallengesOpened
  <2>. QED BY <1>1, <2>1
<1>6. ChallengesOpened'
  BY <1>1, <1>2, <1>3 DEF ChallengeInv, ChallengesOpened, Minted
<1>7. ChallengesUnique' /\ ChallengesCounted'
  BY <1>1, <1>3, <1>4, <1>5 DEF ChallengeInv, ChallengesUnique, ChallengesCounted
<1>8. UnopenedUntouched' /\ OneCookiePerChallenge' /\ GuessesBounded'
  BY <1>1 DEF ChallengeInv, UnopenedUntouched, OneCookiePerChallenge, GuessesBounded
<1>9. CookiesDescend'
  BY <1>1 DEF ChallengeInv, CookiesDescend
<1>. QED BY <1>6, <1>7, <1>8, <1>9 DEF ChallengeInv

LEMMA SubmitRejectedCounts ==
  ASSUME TypeOK, ChallengeInv, NEW h \in Handler, SubmitRejected(h)
  PROVE  ChallengeInv'
<1>. USE ConfigAssumption
<1>. DEFINE hs == handlers[h]
<1>1. PICK c \in challenges :
        /\ c.id = hs.id /\ c.attempts < MaxAttempts
        /\ challenges' = (challenges \ {c}) \cup {CountAttempt(c)}
  BY DEF SubmitRejected
<1>2. /\ guesses' = [guesses EXCEPT ![c.id] = guesses[c.id] + 1]
      /\ redeemed' = redeemed /\ cookies' = cookies
      /\ opened' = opened /\ minted' = minted
  BY <1>1 DEF SubmitRejected
<1>3. c \in Challenge
  BY DEF TypeOK
<1>. DEFINE d == CountAttempt(c)
<1>4. /\ d.id = c.id /\ d.path = c.path /\ d.site = c.site /\ d.remote_ip = c.remote_ip
      /\ d.attempts = c.attempts + 1
  BY <1>3 DEF CountAttempt, Challenge
<1>5. /\ guesses[c.id] = c.attempts /\ redeemed[c.id] = 0 /\ c.id \in Id
      /\ c.attempts \in Nat
  BY <1>3 DEF ChallengeInv, ChallengesCounted, Challenge
<1>6. /\ guesses'[c.id] = d.attempts
      /\ \A i \in Id : i # c.id => guesses'[i] = guesses[i]
  BY <1>2, <1>4, <1>5 DEF TypeOK
<1>. HIDE DEF d
<1>7. ChallengesOpened'
  <2>1. /\ [id |-> c.id, path |-> c.path] \in opened
        /\ Minted(c.path, c.site, c.remote_ip)
    BY DEF ChallengeInv, ChallengesOpened
  <2>. QED BY <1>1, <1>2, <1>4, <2>1 DEF ChallengeInv, ChallengesOpened, Minted, d
<1>8. ChallengesUnique'
  BY <1>1, <1>4 DEF ChallengeInv, ChallengesUnique, d
<1>9. ChallengesCounted'
  <2>1. \A x \in challenges : x # c => x.id # c.id /\ x.id \in Id
    BY DEF ChallengeInv, ChallengesUnique, TypeOK, Challenge
  <2>. QED BY <1>1, <1>2, <1>4, <1>5, <1>6, <2>1 DEF ChallengeInv, ChallengesCounted, d
<1>10. UnopenedUntouched'
  <2>1. \E o \in opened : o.id = c.id
    BY DEF ChallengeInv, ChallengesOpened
  <2>. QED BY <1>2, <1>6, <2>1 DEF ChallengeInv, UnopenedUntouched
<1>11. CookiesDescend' /\ OneCookiePerChallenge'
  BY <1>2 DEF ChallengeInv, CookiesDescend, OneCookiePerChallenge
<1>12. GuessesBounded'
  BY <1>1, <1>4, <1>5, <1>6 DEF ChallengeInv, GuessesBounded
<1>. QED BY <1>7, <1>8, <1>9, <1>10, <1>11, <1>12 DEF ChallengeInv

LEMMA SubmitAcceptedCounts ==
  ASSUME TypeOK, ChallengeInv, NEW h \in Handler, SubmitAccepted(h)
  PROVE  ChallengeInv'
<1>. USE ConfigAssumption
<1>. DEFINE hs == handlers[h]
<1>1. PICK c \in challenges :
        /\ c.id = hs.id /\ c.attempts < MaxAttempts /\ Accepts(c, hs)
        /\ challenges' = challenges \ {c}
        /\ cookies' = cookies \cup {IssuedCookie(c, hs)}
  BY DEF SubmitAccepted, Consume
<1>2. /\ guesses' = [guesses EXCEPT ![c.id] = guesses[c.id] + 1]
      /\ redeemed' = [redeemed EXCEPT ![c.id] = redeemed[c.id] + 1]
      /\ opened' = opened /\ minted' = minted
  BY <1>1 DEF SubmitAccepted
<1>3. c.id \in Id /\ c.attempts \in Nat
  BY DEF TypeOK, Challenge
<1>4. /\ [id |-> c.id, path |-> c.path] \in opened
      /\ Minted(c.path, c.site, c.remote_ip)
      /\ redeemed[c.id] = 0 /\ guesses[c.id] = c.attempts
  BY DEF ChallengeInv, ChallengesOpened, ChallengesCounted
<1>5. /\ redeemed'[c.id] = 1 /\ guesses'[c.id] = c.attempts + 1
      /\ \A i \in Id : i # c.id => redeemed'[i] = redeemed[i] /\ guesses'[i] = guesses[i]
  BY <1>2, <1>3, <1>4 DEF TypeOK
<1>6. ChallengesOpened' /\ ChallengesUnique'
  BY <1>1, <1>2 DEF ChallengeInv, ChallengesOpened, ChallengesUnique, Minted
<1>7. ChallengesCounted'
  <2>1. \A x \in challenges' : x \in challenges /\ x.id # c.id /\ x.id \in Id
    BY <1>1 DEF ChallengeInv, ChallengesUnique, TypeOK, Challenge
  <2>. QED BY <1>5, <2>1 DEF ChallengeInv, ChallengesCounted
<1>8. UnopenedUntouched'
  <2>1. \E o \in opened : o.id = c.id
    BY <1>4
  <2>. QED BY <1>2, <1>5, <2>1 DEF ChallengeInv, UnopenedUntouched
<1>9. OneCookiePerChallenge' /\ GuessesBounded'
  BY <1>1, <1>3, <1>5 DEF ChallengeInv, OneCookiePerChallenge, GuessesBounded
<1>10. CookiesDescend'
  <2>1. \A k \in cookies : k.id \in Id
    BY DEF TypeOK, CookiePayload
  <2>2. ASSUME NEW k \in cookies
        PROVE  \E o \in opened, m \in minted :
                 /\ o.id = k.id /\ m.token = o.path /\ m.site = k.site
                 /\ BindIp => m.remote_ip = k.ip
                 /\ redeemed'[k.id] > 0
    BY <1>5, <2>1 DEF ChallengeInv, CookiesDescend
  <2>. DEFINE k == IssuedCookie(c, hs)
              o == [id |-> c.id, path |-> c.path]
  <2>3. k.id = c.id /\ k.site = c.site /\ (BindIp => k.ip = c.remote_ip)
    BY <1>1 DEF IssuedCookie, Accepts
  <2>4. o \in opened /\ o.id = c.id /\ o.path = c.path
    BY <1>4
  <2>. HIDE DEF k, o
  <2>5. \E x \in opened, m \in minted :
          /\ x.id = k.id /\ m.token = x.path /\ m.site = k.site
          /\ BindIp => m.remote_ip = k.ip
          /\ redeemed'[k.id] > 0
    BY <1>4, <1>5, <2>3, <2>4 DEF Minted
  <2>6. cookies' = cookies \cup {k}
    BY <1>1 DEF k
  <2>. QED BY <1>2, <2>2, <2>5, <2>6 DEF CookiesDescend
<1>. QED BY <1>6, <1>7, <1>8, <1>9, <1>10 DEF ChallengeInv

\* The steps that neither insert a challenge nor compare a submission.
LEMMA OtherStepCounts ==
  ASSUME ChallengeInv,
         \/ \E h \in Handler : \/ Arrive(h) \/ RedirectStep(h) \/ StartUnknown(h)
                              \/ StartFound(h) \/ CheckRedirect(h) \/ CreateChallenge(h)
                              \/ RefuseChallenge(h) \/ SubmitUnknown(h)
                              \/ SubmitExhausted(h)
         \/ Tick \/ Restart \/ UNCHANGED vars
  PROVE  ChallengeInv'
<1>1. /\ challenges' \subseteq challenges /\ minted \subseteq minted' /\ opened' = opened
      /\ guesses' = guesses /\ redeemed' = redeemed /\ cookies' = cookies
  <2>1. CASE \E h \in Handler : Arrive(h)
    <3>1. UNCHANGED <<challenges, history, cookies>>
      <4>1. ASSUME NEW h, NEW site, NEW ip, ArriveOrdinary(h, site, ip)
            PROVE  UNCHANGED <<challenges, history, cookies>>
        BY <4>1 DEF ArriveOrdinary
      <4>2. ASSUME NEW h, NEW site, NEW ip, NEW token, NEW path,
                   ArriveStart(h, site, ip, token, path)
            PROVE  UNCHANGED <<challenges, history, cookies>>
        BY <4>2 DEF ArriveStart
      <4>3. ASSUME NEW h, NEW site, NEW ip, NEW path, NEW id, NEW solved,
                   ArriveSubmit(h, site, ip, path, id, solved)
            PROVE  UNCHANGED <<challenges, history, cookies>>
        BY <4>3 DEF ArriveSubmit
      <4>. HIDE DEF history
      <4>. QED BY <2>1, <4>1, <4>2, <4>3, Zenon DEF Arrive
    <3>. QED BY <3>1 DEF history
  <2>2. CASE \E h \in Handler : RedirectStep(h)
    BY <2>2 DEF RedirectStep, RefuseRedirect, CreateRedirect, AnswerRedirect, history
  <2>3. CASE \E h \in Handler : \/ StartUnknown(h) \/ StartFound(h) \/ CheckRedirect(h)
                               \/ CreateChallenge(h) \/ RefuseChallenge(h)
    BY <2>3 DEF StartUnknown, StartFound, CheckRedirect, CreateChallenge, RefuseChallenge,
                LiveChallenges, history
  <2>4. CASE \E h \in Handler : SubmitUnknown(h) \/ SubmitExhausted(h)
    BY <2>4 DEF SubmitUnknown, SubmitExhausted, history
  <2>5. CASE Tick \/ Restart \/ UNCHANGED vars
    BY <2>5 DEF Tick, Restart, vars, history
  <2>. QED BY <2>1, <2>2, <2>3, <2>4, <2>5
<1>. QED BY <1>1, ChallengeInvStable

LEMMA ChallengeInvInductive ==
  TypeOK /\ TokenInv /\ ChallengeInv /\ [Next]_vars => ChallengeInv'
<1>. SUFFICES ASSUME TypeOK, TokenInv, ChallengeInv, [Next]_vars
              PROVE  ChallengeInv'
  OBVIOUS
<1>1. ASSUME NEW h \in Handler, StartStep(h) \/ SubmitStep(h)
      PROVE  ChallengeInv'
  BY <1>1, OtherStepCounts, InsertChallengeCounts, SubmitRejectedCounts,
     SubmitAcceptedCounts DEF StartStep, SubmitStep
<1>. QED BY <1>1, OtherStepCounts DEF Next

LEMMA InitInv == Init => TokenInv /\ ChallengeInv
<1>1. Init => ChallengeInv
  BY ConfigAssumption
     DEF Init, ChallengeInv, ChallengesOpened, ChallengesUnique, ChallengesCounted,
         UnopenedUntouched, CookiesDescend, OneCookiePerChallenge, GuessesBounded
<1>. QED BY <1>1, InitTokenInv

\* A challenge yields at most one cookie, also across restarts.
THEOREM AtMostOneCookie == Spec => []OneCookiePerChallenge
<1>1. ChallengeInv => OneCookiePerChallenge
  BY DEF ChallengeInv
<1>. QED BY <1>1, InitInv, TypeCorrect, TokenInvInductive, ChallengeInvInductive, PTL DEF Spec

\* At most max_attempts submissions are compared with a challenge.
THEOREM GuessesAreBounded == Spec => []GuessesBounded
<1>1. ChallengeInv => GuessesBounded
  BY DEF ChallengeInv
<1>. QED BY <1>1, InitInv, TypeCorrect, TokenInvInductive, ChallengeInvInductive, PTL DEF Spec

\* A cookie that verify_cookie accepts was earned by a redirect minted for that
\* site and, with bind_ip, that address.
THEOREM CookiesAreSound == Spec => []CookieSound
<1>1. ChallengeInv => CookieSound
  BY DEF ChallengeInv, CookiesDescend, CookieSound, CookieAccepted
<1>. QED BY <1>1, InitInv, TypeCorrect, TokenInvInductive, ChallengeInvInductive, PTL DEF Spec

(* ------------------------ the one-time grant --------------------------- *)

LEMMA GrantFrame ==
  ASSUME opened' = opened, redeemed' = redeemed, minted' = minted
  PROVE  UNCHANGED Grant!vars
BY DEF Grant!vars

LEMMA GrantStep ==
  ASSUME TypeOK, TokenInv, ChallengeInv, [Next]_vars
  PROVE  [Grant!Next]_Grant!vars
<1>1. ASSUME NEW h \in Handler, NEW t \in Token, CreateRedirect(h, t)
      PROVE  Grant!Offer(t)
  <2>. DEFINE m == [token |-> t, site |-> handlers[h].site, remote_ip |-> handlers[h].ip]
  <2>1. /\ minted' = minted \cup {m} /\ opened' = opened /\ redeemed' = redeemed
        /\ \A x \in minted : x.token # t
    BY <1>1 DEF CreateRedirect
  <2>2. m.token = t
    OBVIOUS
  <2>. HIDE DEF m
  <2>3. {x.token : x \in minted'} = {x.token : x \in minted} \cup {t}
    BY <2>1, <2>2
  <2>. QED BY <2>1, <2>3 DEF Grant!Offer
<1>2. ASSUME NEW h \in Handler, NEW id \in Id, InsertChallenge(h, id)
      PROVE  Grant!Exchange(handlers[h].path, id) /\ handlers[h].path \in Token
  <2>. DEFINE path == handlers[h].path
  <2>1. Carries(h) /\ Claims(h)
    BY <1>2 DEF InsertChallenge, Carries, Claims
  <2>2. path \in Token /\ path \in {m.token : m \in minted}
    BY <2>1 DEF TokenInv, CarriedMinted, Minted
  <2>3. \A e \in {<<o.path, o.id>> : o \in opened} : e[1] # path /\ e[2] # id
    BY <1>2, <2>1 DEF InsertChallenge, TokenInv, ClaimedSpent
  <2>4. {<<o.path, o.id>> : o \in opened'}
          = {<<o.path, o.id>> : o \in opened} \cup {<<path, id>>}
    <3>. DEFINE new == [id |-> id, path |-> path]
    <3>1. opened' = opened \cup {new}
      BY <1>2 DEF InsertChallenge
    <3>2. new.id = id /\ new.path = path
      OBVIOUS
    <3>. HIDE DEF new, path
    <3>. QED BY <3>1, <3>2
  <2>. QED BY <1>2, <2>2, <2>3, <2>4 DEF InsertChallenge, Grant!Exchange
<1>3. ASSUME NEW h \in Handler, SubmitAccepted(h)
      PROVE  \E t \in Token, p \in Id : Grant!Honour(t, p)
  <2>1. PICK c \in challenges : c.id = handlers[h].id
    BY <1>3 DEF SubmitAccepted
  <2>2. /\ [id |-> c.id, path |-> c.path] \in opened /\ redeemed[c.id] = 0
        /\ c.id \in Id /\ c.path \in Token
    BY DEF ChallengeInv, ChallengesOpened, ChallengesCounted, TypeOK, Challenge
  <2>3. <<c.path, c.id>> \in {<<o.path, o.id>> : o \in opened}
    BY <2>2
  <2>4. redeemed' = [redeemed EXCEPT ![c.id] = 1] /\ opened' = opened /\ minted' = minted
    BY <1>3, <2>1, <2>2 DEF SubmitAccepted
  <2>5. Grant!Honour(c.path, c.id)
    BY <2>2, <2>3, <2>4 DEF Grant!Honour
  <2>. QED BY <2>2, <2>5
<1>4. ASSUME NEW h \in Handler,
             \/ Arrive(h) \/ RefuseRedirect(h) \/ AnswerRedirect(h) \/ StartUnknown(h)
             \/ StartFound(h) \/ CheckRedirect(h) \/ CreateChallenge(h)
             \/ RefuseChallenge(h)
             \/ SubmitUnknown(h) \/ SubmitExhausted(h) \/ SubmitRejected(h)
      PROVE  opened' = opened /\ redeemed' = redeemed /\ minted' = minted
  <2>1. CASE Arrive(h)
    BY <2>1 DEF Arrive, ArriveOrdinary, ArriveStart, ArriveSubmit, history
  <2>2. CASE ~Arrive(h)
    BY <1>4, <2>2 DEF RefuseRedirect, AnswerRedirect, StartUnknown, StartFound,
       CheckRedirect, CreateChallenge, RefuseChallenge, SubmitUnknown, SubmitExhausted,
       SubmitRejected, history
  <2>. QED BY <2>1, <2>2
<1>5. Tick \/ Restart \/ UNCHANGED vars => UNCHANGED Grant!vars
  BY GrantFrame DEF Tick, Restart, vars, history
<1>6. ASSUME NEW h \in Handler,
             Arrive(h) \/ RedirectStep(h) \/ StartStep(h) \/ SubmitStep(h)
      PROVE  [Grant!Next]_Grant!vars
  BY <1>1, <1>2, <1>3, <1>4, <1>6, GrantFrame
     DEF RedirectStep, StartStep, SubmitStep, Grant!Next
<1>. QED BY <1>5, <1>6 DEF Next

\* The three maps, their purges, the concurrent handlers and the restarts of
\* this module implement the one-time grant.
THEOREM VerificationImplementsGrant == Spec => ImplementsGrant
<1>1. Init => Grant!Init
  BY DEF Init, Grant!Init
<1>2. TypeOK /\ TokenInv /\ ChallengeInv /\ [Next]_vars => [Grant!Next]_Grant!vars
  BY GrantStep
<1>. QED BY <1>1, <1>2, InitInv, TypeCorrect, TokenInvInductive, ChallengeInvInductive, PTL
         DEF Spec, ImplementsGrant, Grant!Spec

(* ------------------- routes outlive what they route -------------------- *)

\* A handler's step is never later than MaxStall after the one before.
ClockInv == \A h \in Handler : Running(h) =>
              handlers[h].now <= clock /\ clock <= handlers[h].now + MaxStall

\* Path p is routed until time e.
RoutedUntil(p, e) == e <= clock \/ \E r \in routes : r.path = p /\ r.expires_at >= e

RedirectsRouted == \A rd \in redirects : RoutedUntil(rd.token, rd.expires_at + 2 * TTL)
ChallengesRouted == \A c \in challenges : RoutedUntil(c.path, c.expires_at)

\* The deadline an in-flight handler carries: the path is routed until it is
\* due, and a handler that inserted a redirect finds it at its next step.
Due(h) ==
  LET hs == handlers[h] IN
  /\ hs.pc = "check"  => RoutedUntil(hs.path, hs.expires_at + 2 * TTL)
  /\ hs.pc = "issue"  => RoutedUntil(hs.path, hs.now + MaxStall + TTL)
  /\ hs.pc = "insert" => RoutedUntil(hs.path, hs.now + TTL)
  /\ hs.pc = "answer" => \E rd \in redirects :
                            /\ rd.token = hs.token
                            /\ rd.expires_at + TTL > hs.now + MaxStall

\* RoutedWhilePending needs the deadlines that in-flight start requests carry:
\* a redirect's slack of 2 * TTL pays for the stall and the challenge's own TTL.
RouteInv == /\ Prompt /\ ClockInv /\ RedirectsRouted /\ ChallengesRouted
            /\ \A h \in Handler : Due(h)

LEMMA HandlerTypes ==
  ASSUME TypeOK, NEW h \in Handler
  PROVE  /\ Running(h) => handlers[h].now \in Nat
         /\ handlers[h].pc = "check" => handlers[h].expires_at \in Nat
BY DEF TypeOK, HandlerState, Running

\* Purging with a clock value that is not ahead of the clock loses no live route.
LEMMA PurgeKeepsRouted ==
  ASSUME TypeOK, NEW n \in Nat, n <= clock, clock' = clock,
         KeptRoutes(n) \subseteq routes'
  PROVE  \A p : \A e \in Nat : RoutedUntil(p, e) => RoutedUntil(p, e)'
BY DEF TypeOK, RoutedUntil, KeptRoutes, Route

\* The maps lose only what has expired; what a step adds is routed; handler h
\* takes on a deadline that is met.
LEMMA RouteFrame ==
  ASSUME TypeOK, RouteInv, TypeOK', NEW h \in Handler,
         \A p : \A e \in Nat : RoutedUntil(p, e) => RoutedUntil(p, e)',
         \A c \in challenges' : \/ c.expires_at \in Nat /\ RoutedUntil(c.path, c.expires_at)
                                \/ \E d \in challenges : /\ c.path = d.path
                                                         /\ c.expires_at = d.expires_at,
         \A rd \in redirects' :
           \/ RoutedUntil(rd.token, rd.expires_at + 2 * TTL)'
           \/ \E old \in redirects : /\ rd.token = old.token
                                     /\ rd.expires_at = old.expires_at,
         \A old \in redirects : old.expires_at + TTL > clock =>
           \E rd \in redirects' : /\ rd.token = old.token
                                  /\ rd.expires_at = old.expires_at,
         \A k \in Handler : k # h => handlers'[k] = handlers[k],
         ClockInv', Due(h)'
  PROVE  RouteInv'
<1>delay. MaxStall \in Nat /\ MaxStall < TTL
  BY ConfigAssumption DEF RouteInv, Prompt
<1>. USE ConfigAssumption, <1>delay
<1>1. RedirectsRouted'
  BY DEF RouteInv, RedirectsRouted, TypeOK, RedirectState
<1>2. ChallengesRouted'
  BY DEF RouteInv, ChallengesRouted, TypeOK, Challenge
<1>3. ASSUME NEW k \in Handler, k # h
      PROVE  Due(k)'
  <2>. DEFINE hs == handlers[k]
  <2>1. handlers'[k] = hs /\ Due(k)
    BY <1>3 DEF RouteInv
  <2>2. /\ hs.pc \in {"issue", "insert", "answer"} => hs.now \in Nat /\ clock <= hs.now + MaxStall
        /\ hs.pc = "check" => hs.expires_at \in Nat
    BY HandlerTypes DEF Running, RouteInv, ClockInv
  <2>3. hs.pc = "check" => RoutedUntil(hs.path, hs.expires_at + 2 * TTL)'
    BY <2>1, <2>2 DEF Due
  <2>4. /\ hs.pc = "issue"  => RoutedUntil(hs.path, hs.now + MaxStall + TTL)'
        /\ hs.pc = "insert" => RoutedUntil(hs.path, hs.now + TTL)'
    BY <2>1, <2>2 DEF Due
  <2>5. ASSUME hs.pc = "answer"
        PROVE  \E rd \in redirects' : /\ rd.token = hs.token
                                      /\ rd.expires_at + TTL > hs.now + MaxStall
    <3>1. PICK old \in redirects : /\ old.token = hs.token
                                   /\ old.expires_at + TTL > hs.now + MaxStall
      BY <2>1, <2>5 DEF Due
    <3>2. old.expires_at + TTL > clock
      BY <2>2, <2>5, <3>1 DEF TypeOK, RedirectState
    <3>. QED BY <3>1, <3>2
  <2>. QED BY <2>1, <2>3, <2>4, <2>5 DEF Due
<1>. QED BY <1>1, <1>2, <1>3 DEF RouteInv

LEMMA ClockStep ==
  ASSUME TypeOK, RouteInv, NEW h \in Handler, clock' = clock,
         \A k \in Handler : k # h => handlers'[k] = handlers[k],
         Running(h)' => handlers'[h].now = clock
  PROVE  ClockInv'
BY ConfigAssumption DEF TypeOK, RouteInv, Prompt, ClockInv, Running

\* A handler's step that adds nothing to the maps and takes on no deadline.
LEMMA RouteQuietStep ==
  ASSUME TypeOK, RouteInv, TypeOK', NEW h \in Handler, NEW n \in Nat, n <= clock,
         clock' = clock, KeptRoutes(n) \subseteq routes',
         \A c \in challenges' : \E d \in challenges : /\ c.path = d.path
                                                     /\ c.expires_at = d.expires_at,
         redirects' \subseteq redirects, KeptRedirects(n) \subseteq redirects',
         \A k \in Handler : k # h => handlers'[k] = handlers[k],
         handlers'[h].pc \notin {"check", "issue", "insert", "answer"},
         Running(h)' => handlers'[h].now = clock
  PROVE  RouteInv'
<1>. USE ConfigAssumption
<1>1. \A p : \A e \in Nat : RoutedUntil(p, e) => RoutedUntil(p, e)'
  BY PurgeKeepsRouted
<1>2. \A old \in redirects : old.expires_at + TTL > clock => old \in redirects'
  BY DEF KeptRedirects, TypeOK, RedirectState
<1>3. Due(h)'
  BY DEF Due
<1>. QED BY <1>1, <1>2, <1>3, ClockStep, RouteFrame

LEMMA QuietRoutes ==
  ASSUME TypeOK, RouteInv, TypeOK', NEW h \in Handler,
         \/ Arrive(h) \/ RefuseRedirect(h) \/ AnswerRedirect(h) \/ StartUnknown(h)
         \/ RefuseChallenge(h) \/ SubmitStep(h)
  PROVE  RouteInv'
<1>. USE DEF Become, Minting, Idle, Running, history
<1>0. clock \in Nat /\ \A n : KeptRoutes(n) \subseteq routes /\ KeptRedirects(n) \subseteq redirects
  BY DEF TypeOK, KeptRoutes, KeptRedirects
<1>1. CASE Arrive(h)
  <2>1. KeptRoutes(clock) \subseteq routes' /\ clock' = clock
        /\ redirects' = redirects /\ challenges' = challenges
    BY <1>0, <1>1 DEF Arrive, ArriveOrdinary, ArriveStart, ArriveSubmit, LiveRoutes, KeptRoutes
  <2>2. /\ \A k \in Handler : k # h => handlers'[k] = handlers[k]
        /\ handlers'[h].pc \in {"mint", "start", "submit", "idle"}
        /\ handlers'[h].pc = "mint" => handlers'[h].now = clock
    BY <1>1 DEF Arrive, ArriveOrdinary, ArriveStart, ArriveSubmit, TypeOK
  <2>. QED BY <1>0, <2>1, <2>2, RouteQuietStep
<1>2. CASE RefuseRedirect(h)
  <2>1. handlers[h].now \in Nat /\ handlers[h].now <= clock
    BY <1>2, HandlerTypes DEF RefuseRedirect, RouteInv, ClockInv
  <2>. QED BY <1>0, <1>2, <2>1, RouteQuietStep DEF RefuseRedirect, TypeOK
<1>3. CASE AnswerRedirect(h)
  BY <1>0, <1>3, RouteQuietStep DEF AnswerRedirect, TypeOK
<1>4. CASE StartUnknown(h)
  BY <1>0, <1>4, RouteQuietStep DEF StartUnknown, TypeOK
<1>5. CASE RefuseChallenge(h)
  BY <1>0, <1>5, RouteQuietStep DEF RefuseChallenge, LiveChallenges, TypeOK
<1>6. CASE SubmitStep(h)
  <2>1. \A c \in challenges' : \E d \in challenges : /\ c.path = d.path
                                                    /\ c.expires_at = d.expires_at
    <3>1. CASE SubmitRejected(h)
      <4>1. PICK c \in challenges : challenges' = (challenges \ {c}) \cup {CountAttempt(c)}
        BY <3>1 DEF SubmitRejected
      <4>2. c \in Challenge
        BY DEF TypeOK
      <4>3. CountAttempt(c).path = c.path /\ CountAttempt(c).expires_at = c.expires_at
        BY <4>2 DEF CountAttempt, Challenge
      <4>. QED BY <4>1, <4>3
    <3>2. CASE ~SubmitRejected(h)
      BY <1>6, <3>2 DEF SubmitStep, SubmitUnknown, SubmitExhausted, SubmitAccepted, Consume
    <3>. QED BY <3>1, <3>2
  <2>2. /\ clock' = clock /\ redirects' = redirects /\ routes' = routes
        /\ \A k \in Handler : k # h => handlers'[k] = handlers[k]
        /\ handlers'[h].pc = "idle"
    BY <1>6 DEF SubmitStep, SubmitUnknown, SubmitExhausted, SubmitAccepted, SubmitRejected,
                TypeOK
  <2>. QED BY <1>0, <2>1, <2>2, RouteQuietStep
<1>. QED BY <1>1, <1>2, <1>3, <1>4, <1>5, <1>6

LEMMA CreateRedirectRoutes ==
  ASSUME TypeOK, RouteInv, TypeOK', NEW h \in Handler, NEW t \in Token, CreateRedirect(h, t)
  PROVE  RouteInv'
<1>delay. MaxStall \in Nat /\ MaxStall < TTL
  BY ConfigAssumption DEF RouteInv, Prompt
<1>. USE ConfigAssumption, <1>delay
<1>. DEFINE hs == handlers[h]
            rd == [token |-> t, site |-> hs.site, remote_ip |-> hs.ip,
                   expires_at |-> hs.now + TTL, used |-> FALSE]
            r == [path |-> t, expires_at |-> RouteExpiry(hs.now + TTL)]
            answer == [pc |-> "answer", token |-> t, now |-> clock]
<1>1. /\ hs.now \in Nat /\ hs.now <= clock /\ clock <= hs.now + MaxStall /\ clock \in Nat
  BY HandlerTypes DEF CreateRedirect, Running, RouteInv, ClockInv, TypeOK
<1>2. /\ redirects' = KeptRedirects(hs.now) \cup {rd}
      /\ routes' = KeptRoutes(hs.now) \cup {r}
      /\ clock' = clock /\ challenges' = challenges
      /\ handlers' = [handlers EXCEPT ![h] = answer]
  BY DEF CreateRedirect, Become
<1>3. /\ rd.token = t /\ rd.expires_at = hs.now + TTL
      /\ r.path = t /\ r.expires_at = hs.now + 3 * TTL
      /\ answer.pc = "answer" /\ answer.token = t /\ answer.now = clock
  BY <1>1 DEF RouteExpiry
<1>. HIDE DEF rd, r, answer
<1>4. \A p : \A e \in Nat : RoutedUntil(p, e) => RoutedUntil(p, e)'
  BY <1>1, <1>2, PurgeKeepsRouted
<1>5. \A x : x = rd => RoutedUntil(x.token, x.expires_at + 2 * TTL)'
  BY <1>1, <1>2, <1>3 DEF RoutedUntil
<1>6. \A x \in redirects' : x \in redirects \/ x = rd
  BY <1>2 DEF KeptRedirects
<1>7. \A old \in redirects : old.expires_at + TTL > clock => old \in redirects'
  BY <1>1, <1>2 DEF KeptRedirects, TypeOK, RedirectState
<1>8. handlers'[h] = answer /\ \A k \in Handler : k # h => handlers'[k] = handlers[k]
  BY <1>2 DEF TypeOK
<1>9. Due(h)'
  <2>1. rd \in redirects' /\ rd.expires_at + TTL > clock + MaxStall
    BY <1>1, <1>2, <1>3
  <2>. QED BY <1>3, <1>8, <2>1 DEF Due
<1>10. ClockInv'
  BY <1>2, <1>3, <1>8, ClockStep
<1>. QED BY <1>2, <1>4, <1>5, <1>6, <1>7, <1>8, <1>9, <1>10, RouteFrame

LEMMA StartRoutes ==
  ASSUME TypeOK, RouteInv, TypeOK', NEW h \in Handler,
         StartFound(h) \/ CheckRedirect(h) \/ CreateChallenge(h)
  PROVE  RouteInv'
<1>delay. MaxStall \in Nat /\ MaxStall < TTL
  BY ConfigAssumption DEF RouteInv, Prompt
<1>. USE ConfigAssumption, <1>delay
<1>. DEFINE hs == handlers[h]
<1>0. /\ clock' = clock /\ routes' = routes /\ challenges' = challenges /\ clock \in Nat
      /\ Due(h) /\ hs \in HandlerState
  BY DEF StartFound, CheckRedirect, CreateChallenge, TypeOK, RouteInv
<1>1. \A p : \A e \in Nat : RoutedUntil(p, e) => RoutedUntil(p, e)'
  BY <1>0 DEF RoutedUntil
<1>2. CASE StartFound(h)
  <2>1. PICK rd \in redirects :
          /\ rd.token = hs.path
          /\ redirects' = (redirects \ {rd}) \cup {MarkUsed(rd)}
          /\ Become(h, IF rd.site = hs.site /\ rd.remote_ip = hs.ip
                       THEN [pc |-> "check", site |-> hs.site, ip |-> hs.ip,
                             path |-> hs.path, expires_at |-> rd.expires_at,
                             used |-> rd.used, now |-> clock]
                       ELSE Minting(hs.site, hs.ip))
    BY <1>2 DEF StartFound, Names
  <2>2. rd \in RedirectState /\ RoutedUntil(rd.token, rd.expires_at + 2 * TTL)
    BY DEF TypeOK, RouteInv, RedirectsRouted
  <2>3. MarkUsed(rd).token = rd.token /\ MarkUsed(rd).expires_at = rd.expires_at
    BY <2>2 DEF MarkUsed, RedirectState
  <2>4. /\ \A k \in Handler : k # h => handlers'[k] = handlers[k]
        /\ handlers'[h].pc \in {"check", "mint"} /\ handlers'[h].now = clock
        /\ handlers'[h].pc = "check" => /\ handlers'[h].path = rd.token
                                        /\ handlers'[h].expires_at = rd.expires_at
    BY <2>1 DEF Become, TypeOK, Minting
  <2>5. Due(h)'
    BY <1>1, <2>2, <2>4 DEF Due, RedirectState
  <2>6. /\ \A x \in redirects' : \E old \in redirects : /\ x.token = old.token
                                                       /\ x.expires_at = old.expires_at
        /\ \A old \in redirects : \E x \in redirects' : /\ x.token = old.token
                                                       /\ x.expires_at = old.expires_at
    BY <2>1, <2>3
  <2>7. ClockInv'
    BY <1>0, <2>4, ClockStep
  <2>. QED BY <1>0, <1>1, <2>4, <2>5, <2>6, <2>7, RouteFrame
<1>3. CASE CheckRedirect(h)
  <2>1. hs.pc = "check" /\ hs.expires_at \in Nat /\ redirects' = redirects
    BY <1>3, HandlerTypes DEF CheckRedirect
  <2>2. /\ \A k \in Handler : k # h => handlers'[k] = handlers[k]
        /\ handlers'[h].pc \in {"issue", "mint"} /\ handlers'[h].now = clock
        /\ handlers'[h].pc = "issue" => handlers'[h].path = hs.path /\ clock < hs.expires_at
    BY <1>0, <1>3, <2>1 DEF CheckRedirect, Become, TypeOK, Minting
  <2>3. handlers'[h].pc = "issue" => RoutedUntil(hs.path, clock + MaxStall + TTL)
    BY <1>0, <2>1, <2>2 DEF Due, RoutedUntil, TypeOK, Route
  <2>4. Due(h)'
    BY <1>0, <1>1, <2>2, <2>3 DEF Due
  <2>5. ClockInv'
    BY <1>0, <2>2, ClockStep
  <2>. QED BY <1>0, <1>1, <2>1, <2>2, <2>4, <2>5, RouteFrame
<1>4. CASE CreateChallenge(h)
  <2>1. hs.pc = "issue" /\ redirects' = redirects
        /\ hs \in [pc: {"issue"}, site: Site, ip: Client, path: Token, now: Nat]
    BY <1>0, <1>4 DEF CreateChallenge, HandlerState
  <2>2. clock <= hs.now + MaxStall /\ hs.now \in Nat
    BY <2>1 DEF RouteInv, ClockInv, Running
  <2>3. /\ \A k \in Handler : k # h => handlers'[k] = handlers[k]
        /\ handlers'[h].pc = "insert" /\ handlers'[h].now = clock
        /\ handlers'[h].path = hs.path
    BY <1>4, <2>1 DEF CreateChallenge, Become, TypeOK
  <2>4. RoutedUntil(hs.path, clock + TTL)
    BY <1>0, <2>1, <2>2 DEF Due, RoutedUntil, TypeOK, Route
  <2>5. Due(h)'
    BY <1>0, <1>1, <2>3, <2>4 DEF Due
  <2>6. ClockInv'
    BY <1>0, <2>3, ClockStep
  <2>. QED BY <1>0, <1>1, <2>1, <2>3, <2>5, <2>6, RouteFrame
<1>. QED BY <1>2, <1>3, <1>4

LEMMA InsertChallengeRoutes ==
  ASSUME TypeOK, RouteInv, TypeOK', NEW h \in Handler, NEW id \in Id, InsertChallenge(h, id)
  PROVE  RouteInv'
<1>. USE ConfigAssumption
<1>. DEFINE hs == handlers[h]
            c == [id |-> id, site |-> hs.site, remote_ip |-> hs.ip, path |-> hs.path,
                  expires_at |-> hs.now + TTL, attempts |-> 0]
<1>1. /\ clock' = clock /\ routes' = routes /\ redirects' = redirects
      /\ challenges' = LiveChallenges \cup {c} /\ hs.pc = "insert"
      /\ Become(h, Idle)
  BY DEF InsertChallenge
<1>2. c.path = hs.path /\ c.expires_at = hs.now + TTL
  OBVIOUS
<1>. HIDE DEF c
<1>3. hs.now \in Nat /\ RoutedUntil(hs.path, hs.now + TTL)
  BY <1>1, HandlerTypes DEF Running, RouteInv, Due
<1>4. \A x \in challenges' : \/ x.expires_at \in Nat /\ RoutedUntil(x.path, x.expires_at)
                            \/ \E d \in challenges : /\ x.path = d.path
                                                     /\ x.expires_at = d.expires_at
  BY <1>1, <1>2, <1>3 DEF LiveChallenges
<1>5. \A p : \A e \in Nat : RoutedUntil(p, e) => RoutedUntil(p, e)'
  BY <1>1 DEF RoutedUntil
<1>6. /\ \A k \in Handler : k # h => handlers'[k] = handlers[k]
      /\ handlers'[h].pc = "idle"
  BY <1>1 DEF Become, Idle, TypeOK
<1>7. Due(h)' /\ ClockInv'
  BY <1>1, <1>6, ClockStep DEF Due, Running
<1>. QED BY <1>1, <1>4, <1>5, <1>6, <1>7, RouteFrame

LEMMA TickRoutes ==
  ASSUME TypeOK, RouteInv, TypeOK', Tick
  PROVE  RouteInv'
<1>delay. MaxStall \in Nat /\ MaxStall < TTL
  BY ConfigAssumption DEF RouteInv, Prompt
<1>. USE <1>delay
<1>1. /\ clock \in Nat /\ clock' = clock + 1 /\ handlers' = handlers /\ routes' = routes
      /\ redirects' = redirects /\ challenges' = challenges
  BY DEF Tick, TypeOK
<1>2. \A p : \A e \in Nat : RoutedUntil(p, e) => RoutedUntil(p, e)'
  BY <1>1 DEF RoutedUntil
<1>3. ClockInv'
  <2>1. ASSUME NEW k \in Handler, Running(k)
        PROVE  handlers[k].now <= clock + 1 /\ clock + 1 <= handlers[k].now + MaxStall
    BY <1>1, <2>1, HandlerTypes DEF Tick, RouteInv, ClockInv
  <2>. QED BY <1>1, <2>1 DEF ClockInv, Running
<1>4. RedirectsRouted' /\ ChallengesRouted'
  BY <1>1, <1>2, ConfigAssumption
     DEF RouteInv, RedirectsRouted, ChallengesRouted, TypeOK, RedirectState, Challenge
<1>5. ASSUME NEW k \in Handler
      PROVE  Due(k)'
  <2>1. Due(k)
    BY DEF RouteInv
  <2>2. /\ handlers[k].pc \in {"issue", "insert"} => handlers[k].now \in Nat
        /\ handlers[k].pc = "check" => handlers[k].expires_at \in Nat
    BY HandlerTypes DEF Running
  <2>. QED BY <1>1, <1>2, <2>1, <2>2, ConfigAssumption DEF Due
<1>. QED BY <1>3, <1>4, <1>5 DEF RouteInv

LEMMA RouteInvInductive == TypeOK /\ TypeOK' /\ RouteInv /\ [Next]_vars => RouteInv'
<1>. SUFFICES ASSUME TypeOK, TypeOK', RouteInv, [Next]_vars
              PROVE  RouteInv'
  OBVIOUS
<1>1. ASSUME NEW h \in Handler,
             Arrive(h) \/ RedirectStep(h) \/ StartStep(h) \/ SubmitStep(h)
      PROVE  RouteInv'
  BY <1>1, QuietRoutes, CreateRedirectRoutes, StartRoutes, InsertChallengeRoutes
     DEF RedirectStep, StartStep
<1>2. CASE Restart
  <2>1. redirects' = {} /\ challenges' = {} /\ \A h \in Handler : handlers'[h].pc = "idle"
    BY <1>2 DEF Restart, Idle
  <2>. QED BY <2>1 DEF RouteInv, ClockInv, RedirectsRouted, ChallengesRouted, Due, Running
<1>3. CASE UNCHANGED vars
  BY <1>3 DEF vars, history, RouteInv, ClockInv, RedirectsRouted, ChallengesRouted, Due,
              Running, RoutedUntil
<1>. QED BY <1>1, <1>2, <1>3, TickRoutes DEF Next

LEMMA RouteInvCorrect == ASSUME Prompt PROVE Spec => []RouteInv
<1>1. Init => RouteInv
  BY DEF Init, RouteInv, ClockInv, RedirectsRouted, ChallengesRouted, Due, Running, Idle
<1>2. TypeOK /\ TypeOK' /\ RouteInv /\ [Next]_vars => RouteInv'
  BY RouteInvInductive
<1>. QED BY <1>1, <1>2, TypeCorrect, PTL DEF Spec

\* While a redirect can be started or a challenge solved, its path is routed,
\* whatever purges the other requests cause, as long as a handler is delayed by
\* less than challenge_ttl_secs.
THEOREM PendingIsRouted == Spec => []RoutedWhilePending
<1>1. CASE Prompt
  <2>1. TypeOK /\ RouteInv => RoutedWhilePending
    BY ConfigAssumption
       DEF TypeOK, RouteInv, RedirectsRouted, ChallengesRouted, RoutedUntil,
           RoutedWhilePending, Routed, LiveRoutes, RedirectState, Route, Challenge
  <2>2. Spec => []RouteInv
    BY <1>1, RouteInvCorrect
  <2>. QED BY <2>1, <2>2, TypeCorrect, PTL
<1>2. CASE ~Prompt
  <2>1. RoutedWhilePending
    BY <1>2 DEF RoutedWhilePending
  <2>. QED BY <2>1, PTL
<1>. QED BY <1>1, <1>2

\* The second lookup of redirect_response finds the redirect just inserted,
\* as long as a handler is delayed by less than challenge_ttl_secs.
THEOREM AnswersFindTheirRedirect == Spec => []AnswerFindsRedirect
<1>1. CASE Prompt
  <2>1. RouteInv => AnswerFindsRedirect
    BY DEF RouteInv, Due, AnswerFindsRedirect
  <2>2. Spec => []RouteInv
    BY <1>1, RouteInvCorrect
  <2>. QED BY <2>1, <2>2, PTL
<1>2. CASE ~Prompt
  <2>1. AnswerFindsRedirect
    BY <1>2 DEF AnswerFindsRedirect
  <2>. QED BY <2>1, PTL
<1>. QED BY <1>1, <1>2

(* ---------------------------- the routes map --------------------------- *)

\* A route whose redirect has been purged.
Orphan(r) == \A rd \in redirects : rd.token # r.path

\* The paths that are or will be orphans at a purge with the reading x, if
\* nothing is minted before it.
Outlasting(x) == {t \in Token : \E r \in routes : /\ r.path = t /\ Orphan(r)
                                                  /\ r.expires_at >= x}
Expiring(x) == {t \in Token : \E rd \in redirects : /\ rd.token = t
                                                    /\ rd.expires_at + TTL < x}
Crowd(x) == Outlasting(x) \cup Expiring(x)

RedirectsCapped == IsFiniteSet(redirects) /\ Cardinality(redirects) <= MaxActive
CrowdsCapped == \A x \in Int : IsFiniteSet(Crowd(x)) /\ Cardinality(Crowd(x)) <= MaxActive
RoutesMinted == \A r \in routes : \E m \in minted : m.token = r.path
RoutesUnique == \A r1, r2 \in routes : r1.path = r2.path => r1 = r2
RoutesDated == \A r \in routes, rd \in redirects :
                 rd.token = r.path => r.expires_at = rd.expires_at + 2 * TTL
OrphansDie ==
  \A r \in routes : Orphan(r) =>
    /\ r.expires_at <= clock + TTL
    /\ \A h \in Handler : handlers[h].pc = "mint" =>
         r.expires_at <= handlers[h].now + 2 * TTL

\* RoutesBounded counts the routes of now; the invariant counts, for every
\* reading x that a later purge may use, the paths that purge would leave
\* without a redirect: they held the slots of the redirects together.
RoomInv == /\ RedirectsCapped /\ CrowdsCapped /\ RoutesMinted /\ RoutesUnique
           /\ RoutesDated /\ OrphansDie

\* A handler that computes has read the clock at most MaxStall seconds ago.
LEMMA ClockInvInductive == TypeOK /\ ClockInv /\ [Next]_vars => ClockInv'
<1>. SUFFICES ASSUME TypeOK, ClockInv, [Next]_vars
              PROVE  ClockInv'
  OBVIOUS
<1>. USE ConfigAssumption
<1>1. ASSUME NEW h \in Handler, NEW hs, clock' = clock, Become(h, hs),
             hs.pc \notin {"idle", "start", "submit"} => hs.now = clock
      PROVE  ClockInv'
  BY <1>1 DEF Become, ClockInv, Running, TypeOK
<1>2. ASSUME NEW h \in Handler, Arrive(h)
      PROVE  ClockInv'
  BY <1>1, <1>2 DEF Arrive, ArriveOrdinary, ArriveStart, ArriveSubmit, Minting, Idle
<1>3. ASSUME NEW h \in Handler, RedirectStep(h)
      PROVE  ClockInv'
  BY <1>1, <1>3 DEF RedirectStep, RefuseRedirect, CreateRedirect, AnswerRedirect, Idle
<1>4. ASSUME NEW h \in Handler, StartStep(h)
      PROVE  ClockInv'
  <2>1. CASE StartUnknown(h)
    BY <1>1, <2>1 DEF StartUnknown, Minting
  <2>2. CASE StartFound(h)
    BY <1>1, <2>2 DEF StartFound, Minting
  <2>3. CASE CheckRedirect(h)
    BY <1>1, <2>3 DEF CheckRedirect, Minting
  <2>4. CASE CreateChallenge(h)
    <3>1. handlers[h] \in [pc: {"issue"}, site: Site, ip: Client, path: Token, now: Nat]
      BY <2>4 DEF CreateChallenge, TypeOK, HandlerState
    <3>2. [handlers[h] EXCEPT !.pc = "insert", !.now = clock].now = clock
      BY <3>1
    <3>. QED BY <1>1, <2>4, <3>2 DEF CreateChallenge
  <2>5. CASE RefuseChallenge(h) \/ \E id \in Id : InsertChallenge(h, id)
    BY <1>1, <2>5 DEF RefuseChallenge, InsertChallenge, Idle
  <2>. QED BY <1>4, <2>1, <2>2, <2>3, <2>4, <2>5 DEF StartStep
<1>5. ASSUME NEW h \in Handler, SubmitStep(h)
      PROVE  ClockInv'
  BY <1>1, <1>5 DEF SubmitStep, SubmitUnknown, SubmitExhausted, SubmitRejected,
                    SubmitAccepted, Idle
<1>6. CASE Tick
  <2>1. ASSUME NEW k \in Handler, Running(k)
        PROVE  handlers[k].now <= clock + 1 /\ clock + 1 <= handlers[k].now + MaxStall
    BY <1>6, <2>1, HandlerTypes DEF Tick, ClockInv, TypeOK
  <2>. QED BY <1>6, <2>1 DEF Tick, ClockInv, Running
<1>7. CASE Restart \/ UNCHANGED vars
  BY <1>7 DEF Restart, Idle, vars, ClockInv, Running
<1>. QED BY <1>2, <1>3, <1>4, <1>5, <1>6, <1>7 DEF Next

\* A step that adds no route and leaves every redirect its token and its date.
LEMMA RoomFrame ==
  ASSUME TypeOK, RoomInv, Timely, clock' \in Nat, clock' >= clock,
         routes' \subseteq routes, minted \subseteq minted', RedirectsCapped',
         \A rd \in redirects' : \E old \in redirects :
           rd.token = old.token /\ rd.expires_at = old.expires_at,
         \A old \in redirects : \E rd \in redirects' :
           rd.token = old.token /\ rd.expires_at = old.expires_at,
         \A k \in Handler : handlers'[k].pc = "mint" =>
           handlers'[k] = handlers[k] \/ handlers'[k].now = clock
  PROVE  RoomInv'
<1>. USE ConfigAssumption
<1>1. \A r : Orphan(r)' <=> Orphan(r)
  BY DEF Orphan
<1>2. ASSUME NEW x \in Int
      PROVE  IsFiniteSet(Crowd(x)') /\ Cardinality(Crowd(x)') <= MaxActive
  <2>1. Outlasting(x)' \subseteq Outlasting(x)
    BY <1>1 DEF Outlasting
  <2>2. Expiring(x)' \subseteq Expiring(x)
    BY DEF Expiring
  <2>3. Crowd(x)' \in SUBSET Crowd(x)
    BY <2>1, <2>2 DEF Crowd
  <2>4. IsFiniteSet(Crowd(x)) /\ Cardinality(Crowd(x)) <= MaxActive
    BY DEF RoomInv, CrowdsCapped
  <2>5. IsFiniteSet(Crowd(x)') /\ Cardinality(Crowd(x)') <= Cardinality(Crowd(x))
    BY <2>3, <2>4, FS_Subset
  <2>. QED BY <2>4, <2>5, FS_CardinalityType
<1>3. RoutesMinted' /\ RoutesUnique'
  BY DEF RoomInv, RoutesMinted, RoutesUnique
<1>4. RoutesDated'
  BY DEF RoomInv, RoutesDated
<1>5. OrphansDie'
  <2>. SUFFICES ASSUME NEW r \in routes', Orphan(r)'
                PROVE  /\ r.expires_at <= clock' + TTL
                       /\ \A h \in Handler : handlers'[h].pc = "mint" =>
                            r.expires_at <= handlers'[h].now + 2 * TTL
    BY DEF OrphansDie
  <2>1. r \in routes /\ Orphan(r) /\ r.expires_at \in Nat /\ clock \in Nat
    BY <1>1 DEF TypeOK, Route
  <2>. QED BY <2>1 DEF RoomInv, OrphansDie
<1>. QED BY <1>2, <1>3, <1>4, <1>5 DEF RoomInv, CrowdsCapped

\* A step that leaves the redirects alone and adds no route.
LEMMA RoomQuietStep ==
  ASSUME TypeOK, RoomInv, Timely, clock' = clock, redirects' = redirects,
         routes' \subseteq routes, minted' = minted,
         \A k \in Handler : handlers'[k].pc = "mint" =>
           handlers'[k] = handlers[k] \/ handlers'[k].now = clock
  PROVE  RoomInv'
<1>1. RedirectsCapped' /\ clock' \in Nat /\ clock' >= clock
  BY DEF RoomInv, RedirectsCapped, TypeOK
<1>. QED BY <1>1, RoomFrame

LEMMA QuietRoom ==
  ASSUME TypeOK, RoomInv, Timely, NEW h \in Handler,
         \/ Arrive(h) \/ RefuseRedirect(h) \/ AnswerRedirect(h) \/ StartUnknown(h)
         \/ CheckRedirect(h) \/ CreateChallenge(h) \/ RefuseChallenge(h)
         \/ SubmitStep(h) \/ \E id \in Id : InsertChallenge(h, id)
  PROVE  RoomInv'
<1>. USE DEF Become, Minting, Idle, history
<1>1. CASE Arrive(h)
  BY <1>1, RoomQuietStep
     DEF Arrive, ArriveOrdinary, ArriveStart, ArriveSubmit, LiveRoutes, TypeOK
<1>2. CASE RefuseRedirect(h)
  <2>. DEFINE kept == KeptRedirects(handlers[h].now)
  <2>1. kept \in SUBSET redirects /\ Cardinality(kept) >= MaxActive
    BY <1>2 DEF RefuseRedirect, KeptRedirects
  <2>2. IsFiniteSet(redirects) /\ Cardinality(redirects) <= MaxActive
    BY DEF RoomInv, RedirectsCapped
  <2>. HIDE DEF kept
  <2>3. /\ IsFiniteSet(kept) /\ Cardinality(kept) <= Cardinality(redirects)
        /\ Cardinality(redirects) = Cardinality(kept) => redirects = kept
    BY <2>1, <2>2, FS_Subset
  <2>4. Cardinality(kept) \in Nat /\ Cardinality(redirects) \in Nat
    BY <2>2, <2>3, FS_CardinalityType
  <2>5. kept = redirects
    BY <2>1, <2>2, <2>3, <2>4, ConfigAssumption
  <2>. QED BY <1>2, <2>5, RoomQuietStep DEF RefuseRedirect, TypeOK, kept
<1>3. CASE AnswerRedirect(h)
  BY <1>3, RoomQuietStep DEF AnswerRedirect, TypeOK
<1>4. CASE StartUnknown(h)
  BY <1>4, RoomQuietStep DEF StartUnknown, TypeOK
<1>5. CASE CheckRedirect(h)
  BY <1>5, RoomQuietStep DEF CheckRedirect, TypeOK
<1>6. CASE CreateChallenge(h)
  <2>1. handlers[h] \in [pc: {"issue"}, site: Site, ip: Client, path: Token, now: Nat]
    BY <1>6 DEF CreateChallenge, TypeOK, HandlerState
  <2>2. [handlers[h] EXCEPT !.pc = "insert", !.now = clock].pc = "insert"
    BY <2>1
  <2>. QED BY <1>6, <2>2, RoomQuietStep DEF CreateChallenge, TypeOK
<1>7. CASE RefuseChallenge(h) \/ \E id \in Id : InsertChallenge(h, id)
  BY <1>7, RoomQuietStep DEF RefuseChallenge, InsertChallenge, TypeOK
<1>8. CASE SubmitStep(h)
  BY <1>8, RoomQuietStep
     DEF SubmitStep, SubmitUnknown, SubmitExhausted, SubmitRejected, SubmitAccepted, TypeOK
<1>. QED BY <1>1, <1>2, <1>3, <1>4, <1>5, <1>6, <1>7, <1>8

LEMMA StartFoundRoom ==
  ASSUME TypeOK, RoomInv, Timely, NEW h \in Handler, StartFound(h)
  PROVE  RoomInv'
<1>. DEFINE hs == handlers[h]
<1>1. PICK rd \in redirects :
        /\ redirects' = (redirects \ {rd}) \cup {MarkUsed(rd)}
        /\ Become(h, IF rd.site = hs.site /\ rd.remote_ip = hs.ip
                     THEN [pc |-> "check", site |-> hs.site, ip |-> hs.ip,
                           path |-> hs.path, expires_at |-> rd.expires_at,
                           used |-> rd.used, now |-> clock]
                     ELSE Minting(hs.site, hs.ip))
  BY DEF StartFound
<1>2. rd \in RedirectState
  BY DEF TypeOK
<1>3. MarkUsed(rd).token = rd.token /\ MarkUsed(rd).expires_at = rd.expires_at
  BY <1>2 DEF MarkUsed, RedirectState
<1>4. RedirectsCapped'
  <2>. DEFINE rest == redirects \ {rd}
              spent == MarkUsed(rd)
  <2>1. IsFiniteSet(redirects) /\ Cardinality(redirects) <= MaxActive
    BY DEF RoomInv, RedirectsCapped
  <2>2. IsFiniteSet(rest) /\ Cardinality(rest) = Cardinality(redirects) - 1
    BY <2>1, FS_RemoveElement
  <2>. HIDE DEF rest, spent
  <2>3. /\ IsFiniteSet(rest \cup {spent})
        /\ Cardinality(rest \cup {spent}) \in {Cardinality(rest), Cardinality(rest) + 1}
    BY <2>2, FS_AddElement
  <2>4. Cardinality(redirects) \in Nat /\ Cardinality(rest) \in Nat
    BY <2>1, <2>2, FS_CardinalityType
  <2>5. Cardinality(rest \cup {spent}) <= MaxActive
    BY <2>1, <2>2, <2>3, <2>4, ConfigAssumption
  <2>6. redirects' = rest \cup {spent}
    BY <1>1 DEF rest, spent
  <2>. QED BY <2>3, <2>5, <2>6 DEF RedirectsCapped
<1>5. \A k \in Handler : handlers'[k].pc = "mint" =>
        handlers'[k] = handlers[k] \/ handlers'[k].now = clock
  BY <1>1 DEF Become, Minting, TypeOK
<1>6. /\ \A x \in redirects' : \E old \in redirects :
           x.token = old.token /\ x.expires_at = old.expires_at
      /\ \A old \in redirects : \E x \in redirects' :
           x.token = old.token /\ x.expires_at = old.expires_at
  BY <1>1, <1>3
<1>7. /\ clock' \in Nat /\ clock' >= clock /\ routes' \subseteq routes
      /\ minted \subseteq minted'
  BY DEF StartFound, TypeOK, history
<1>. QED BY <1>4, <1>5, <1>6, <1>7, RoomFrame

\* The set of the redirects' tokens is no larger than the set of redirects.
LEMMA TokensOf ==
  ASSUME NEW S, S \subseteq RedirectState, IsFiniteSet(S)
  PROVE  /\ IsFiniteSet({rd.token : rd \in S})
         /\ Cardinality({rd.token : rd \in S}) <= Cardinality(S)
<1>. DEFINE T == {rd.token : rd \in S}
            f == [rd \in S |-> rd.token]
<1>1. f \in Surjection(S, T)
  BY DEF Surjection
<1>. QED BY <1>1, FS_Surjection

\* The purge and the redirect of one create_redirect_state: the routes it
\* leaves without a redirect expire before the new redirect is purged, so a
\* later purge counts either them or redirects that hold a slot.
LEMMA CreateRedirectRoom ==
  ASSUME TypeOK, TypeOK', TokenInv, ClockInv, RoomInv, Timely,
         NEW h \in Handler, NEW t \in Token, CreateRedirect(h, t)
  PROVE  RoomInv'
<1>. USE ConfigAssumption
<1>. DEFINE hs == handlers[h]
            p == hs.now
            rd == [token |-> t, site |-> hs.site, remote_ip |-> hs.ip,
                   expires_at |-> p + TTL, used |-> FALSE]
            r == [path |-> t, expires_at |-> RouteExpiry(p + TTL)]
            m == [token |-> t, site |-> hs.site, remote_ip |-> hs.ip]
            answer == [pc |-> "answer", token |-> t, now |-> clock]
<1>1. /\ hs.pc = "mint" /\ p \in Nat /\ p <= clock /\ clock <= p + MaxStall
      /\ clock \in Nat /\ clock' = clock /\ MaxStall <= TTL
  BY HandlerTypes DEF CreateRedirect, Running, ClockInv, TypeOK, Timely
<1>2. /\ redirects' = KeptRedirects(p) \cup {rd}
      /\ routes' = KeptRoutes(p) \cup {r}
      /\ minted' = minted \cup {m}
      /\ handlers' = [handlers EXCEPT ![h] = answer]
      /\ Cardinality(KeptRedirects(p)) < MaxActive
      /\ \A x \in minted : x.token # t
  BY DEF CreateRedirect, Become
<1>3. /\ rd.token = t /\ rd.expires_at = p + TTL
      /\ r.path = t /\ r.expires_at = p + 3 * TTL
      /\ m.token = t /\ answer.pc = "answer"
  BY <1>1 DEF RouteExpiry
<1>. HIDE DEF p, rd, r, m, answer
<1>4. /\ \A x \in redirects : x.token \in Token /\ x.token # t /\ x.expires_at \in Nat
      /\ \A y \in routes : y.path \in Token /\ y.path # t /\ y.expires_at \in Nat
  BY <1>2 DEF TokenInv, TokensMinted, Minted, RoomInv, RoutesMinted, TypeOK,
              RedirectState, Route
<1>5. \A k \in Handler : handlers'[k].pc = "mint" => handlers'[k] = handlers[k]
  BY <1>2, <1>3 DEF TypeOK
<1>6. RedirectsCapped'
  <2>. DEFINE kept == KeptRedirects(p)
  <2>1. kept \in SUBSET redirects /\ Cardinality(kept) < MaxActive
    BY <1>2 DEF KeptRedirects
  <2>. HIDE DEF kept
  <2>2. IsFiniteSet(kept)
    BY <2>1, FS_Subset DEF RoomInv, RedirectsCapped
  <2>3. /\ IsFiniteSet(kept \cup {rd})
        /\ Cardinality(kept \cup {rd}) \in {Cardinality(kept), Cardinality(kept) + 1}
    BY <2>2, FS_AddElement
  <2>4. Cardinality(kept) \in Nat
    BY <2>2, FS_CardinalityType
  <2>5. Cardinality(kept \cup {rd}) <= MaxActive
    BY <2>1, <2>3, <2>4
  <2>6. redirects' = kept \cup {rd}
    BY <1>2 DEF kept
  <2>. QED BY <2>3, <2>5, <2>6 DEF RedirectsCapped
\* A route that is an orphan after the step was one before, or lost its
\* redirect to this purge.
<1>7. ASSUME NEW y \in routes', Orphan(y)'
      PROVE  /\ y \in routes /\ y.expires_at > p
             /\ \/ Orphan(y)
                \/ \E x \in redirects : /\ x.token = y.path /\ x.expires_at + TTL <= p
                                        /\ y.expires_at <= p + TTL
  <2>1. y # r
    BY <1>2, <1>3, <1>7 DEF Orphan
  <2>2. y \in routes /\ y.expires_at > p
    BY <1>2, <2>1 DEF KeptRoutes
  <2>3. ASSUME NEW x \in redirects, x.token = y.path
        PROVE  x.expires_at + TTL <= p /\ y.expires_at <= p + TTL
    <3>1. x \notin redirects'
      BY <1>7, <2>3 DEF Orphan
    <3>2. x.expires_at + TTL <= p
      BY <1>1, <1>2, <1>4, <3>1 DEF KeptRedirects
    <3>3. y.expires_at = x.expires_at + 2 * TTL
      BY <2>2, <2>3 DEF RoomInv, RoutesDated
    <3>. QED BY <1>1, <1>4, <3>2, <3>3
  <2>. QED BY <2>2, <2>3 DEF Orphan
<1>8. \A y \in routes' : Orphan(y)' => y.expires_at <= p + 2 * TTL
  BY <1>1, <1>4, <1>7 DEF RoomInv, OrphansDie
<1>9. ASSUME NEW x \in Int
      PROVE  IsFiniteSet(Crowd(x)') /\ Cardinality(Crowd(x)') <= MaxActive
  <2>1. CASE Outlasting(x)' = {}
    <3>. DEFINE T == {k.token : k \in redirects'}
    <3>1. Crowd(x)' \in SUBSET T
      BY <2>1 DEF Crowd, Expiring
    <3>2. redirects' \subseteq RedirectState /\ IsFiniteSet(redirects')
          /\ Cardinality(redirects') <= MaxActive
      BY <1>6 DEF TypeOK, RedirectsCapped
    <3>3. IsFiniteSet(T) /\ Cardinality(T) <= Cardinality(redirects')
      BY <3>2, TokensOf
    <3>. HIDE DEF T
    <3>4. IsFiniteSet(Crowd(x)') /\ Cardinality(Crowd(x)') <= Cardinality(T)
      BY <3>1, <3>3, FS_Subset
    <3>. QED BY <3>2, <3>3, <3>4, FS_CardinalityType
  <2>2. CASE Outlasting(x)' # {}
    <3>. DEFINE z == IF x > p THEN x ELSE p + 1
    <3>0. z \in Int /\ z >= x /\ z > p
      BY <1>1
    <3>1. x <= p + 2 * TTL
      BY <1>1, <1>4, <1>7, <1>8, <2>2 DEF Outlasting
    <3>. HIDE DEF z
    <3>2. Outlasting(x)' \subseteq Crowd(z)
      <4>. SUFFICES ASSUME NEW y \in routes', Orphan(y)', y.expires_at >= x
                    PROVE  y.path \in Crowd(z)
        BY DEF Outlasting
      <4>1. y \in routes /\ y.expires_at >= z /\ y.path \in Token
        BY <1>1, <1>4, <1>7, <3>0 DEF z
      <4>2. CASE Orphan(y)
        BY <4>1, <4>2 DEF Crowd, Outlasting
      <4>3. CASE \E k \in redirects : k.token = y.path /\ k.expires_at + TTL <= p
        BY <1>1, <1>4, <3>0, <4>1, <4>3 DEF Crowd, Expiring
      <4>. QED BY <1>7, <4>2, <4>3
    <3>3. Expiring(x)' \subseteq Crowd(z)
      <4>. SUFFICES ASSUME NEW k \in redirects', k.expires_at + TTL < x
                    PROVE  k.token \in Crowd(z)
        BY DEF Expiring
      <4>1. k # rd
        BY <1>1, <1>3, <3>1
      <4>2. k \in redirects
        BY <1>2, <4>1 DEF KeptRedirects
      <4>. QED BY <1>4, <3>0, <4>2 DEF Crowd, Expiring
    <3>4. Crowd(x)' \in SUBSET Crowd(z)
      BY <3>2, <3>3 DEF Crowd
    <3>5. IsFiniteSet(Crowd(z)) /\ Cardinality(Crowd(z)) <= MaxActive
      BY <3>0 DEF RoomInv, CrowdsCapped
    <3>6. IsFiniteSet(Crowd(x)') /\ Cardinality(Crowd(x)') <= Cardinality(Crowd(z))
      BY <3>4, <3>5, FS_Subset
    <3>. QED BY <3>5, <3>6, FS_CardinalityType
  <2>. QED BY <2>1, <2>2
<1>10. RoutesMinted'
  <2>1. m \in minted'
    BY <1>2
  <2>. QED BY <1>2, <1>3, <2>1 DEF RoomInv, RoutesMinted, KeptRoutes
<1>11. RoutesUnique'
  BY <1>2, <1>3, <1>4 DEF RoomInv, RoutesUnique, KeptRoutes
<1>12. RoutesDated'
  <2>. SUFFICES ASSUME NEW y \in routes', NEW x \in redirects', x.token = y.path
                PROVE  y.expires_at = x.expires_at + 2 * TTL
    BY DEF RoutesDated
  <2>1. \/ y = r /\ x = rd
        \/ y \in routes /\ x \in redirects
    BY <1>2, <1>3, <1>4 DEF KeptRoutes, KeptRedirects
  <2>. QED BY <1>1, <1>3, <2>1 DEF RoomInv, RoutesDated
<1>13. OrphansDie'
  <2>. SUFFICES ASSUME NEW y \in routes', Orphan(y)'
                PROVE  /\ y.expires_at <= clock + TTL
                       /\ \A k \in Handler : handlers'[k].pc = "mint" =>
                            y.expires_at <= handlers'[k].now + 2 * TTL
    BY <1>1 DEF OrphansDie
  <2>1. y \in routes /\ y.expires_at \in Nat
    BY <1>4, <1>7
  <2>2. CASE Orphan(y)
    BY <1>5, <2>1, <2>2 DEF RoomInv, OrphansDie
  <2>3. CASE y.expires_at <= p + TTL
    <3>1. ASSUME NEW k \in Handler, handlers'[k].pc = "mint"
          PROVE  y.expires_at <= handlers'[k].now + 2 * TTL
      <4>1. handlers'[k] = handlers[k] /\ Running(k)
        BY <1>5, <3>1 DEF Running
      <4>2. handlers[k].now \in Nat /\ clock <= handlers[k].now + MaxStall
        BY <4>1, HandlerTypes DEF ClockInv
      <4>. QED BY <1>1, <2>1, <2>3, <4>1, <4>2
    <3>. QED BY <1>1, <2>1, <2>3, <3>1
  <2>. QED BY <1>7, <2>2, <2>3
<1>. QED BY <1>6, <1>9, <1>10, <1>11, <1>12, <1>13 DEF RoomInv, CrowdsCapped

LEMMA RoomInvInductive ==
  ASSUME Timely
  PROVE  TypeOK /\ TypeOK' /\ TokenInv /\ ClockInv /\ RoomInv /\ [Next]_vars => RoomInv'
<1>. SUFFICES ASSUME TypeOK, TypeOK', TokenInv, ClockInv, RoomInv, [Next]_vars
              PROVE  RoomInv'
  OBVIOUS
<1>1. ASSUME NEW h \in Handler,
             Arrive(h) \/ RedirectStep(h) \/ StartStep(h) \/ SubmitStep(h)
      PROVE  RoomInv'
  BY <1>1, QuietRoom, StartFoundRoom, CreateRedirectRoom DEF RedirectStep, StartStep
<1>2. CASE Tick
  <2>1. clock' \in Nat /\ clock' >= clock /\ RedirectsCapped'
    BY <1>2 DEF Tick, TypeOK, RoomInv, RedirectsCapped
  <2>. QED BY <1>2, <2>1, RoomFrame DEF Tick, history
<1>3. CASE Restart
  <2>1. redirects' = {} /\ routes' = {}
    BY <1>3 DEF Restart
  <2>2. \A x \in Int : Crowd(x)' = {}
    BY <2>1 DEF Crowd, Outlasting, Expiring
  <2>3. IsFiniteSet({}) /\ Cardinality({}) <= MaxActive
    BY FS_EmptySet, ConfigAssumption
  <2>. QED BY <2>1, <2>2, <2>3
           DEF RoomInv, RedirectsCapped, CrowdsCapped, RoutesMinted, RoutesUnique,
               RoutesDated, OrphansDie
<1>4. CASE UNCHANGED vars
  BY <1>4, RoomQuietStep DEF vars, history
<1>. QED BY <1>1, <1>2, <1>3, <1>4 DEF Next

\* Each route is an orphan, or the route of a redirect.
LEMMA RoomForRoutes == TypeOK /\ RoomInv => Cardinality(routes) <= 2 * MaxActive
<1>. SUFFICES ASSUME TypeOK, RoomInv
              PROVE  Cardinality(routes) <= 2 * MaxActive
  OBVIOUS
<1>. DEFINE T == {rd.token : rd \in redirects}
            S == Crowd(0) \cup T
            f == [r \in routes |-> r.path]
<1>1. /\ IsFiniteSet(redirects) /\ Cardinality(redirects) <= MaxActive
      /\ IsFiniteSet(Crowd(0)) /\ Cardinality(Crowd(0)) <= MaxActive
  BY DEF RoomInv, RedirectsCapped, CrowdsCapped
<1>2. IsFiniteSet(T) /\ Cardinality(T) <= Cardinality(redirects)
  BY <1>1, TokensOf DEF TypeOK
<1>3. f \in [routes -> S]
  <2>. SUFFICES ASSUME NEW r \in routes, r.path \notin T
                PROVE  r.path \in Crowd(0)
    OBVIOUS
  <2>1. Orphan(r) /\ r.path \in Token /\ r.expires_at >= 0
    BY DEF Orphan, TypeOK, Route
  <2>. QED BY <2>1 DEF Crowd, Outlasting
<1>4. f \in Injection(routes, S)
  BY <1>3 DEF Injection, IsInjective, RoomInv, RoutesUnique
<1>. HIDE DEF T
<1>5. /\ IsFiniteSet(S)
      /\ Cardinality(S) = Cardinality(Crowd(0)) + Cardinality(T) - Cardinality(Crowd(0) \cap T)
  BY <1>1, <1>2, FS_Union
<1>6. Cardinality(Crowd(0) \cap T) \in Nat /\ Cardinality(Crowd(0)) \in Nat
      /\ Cardinality(T) \in Nat /\ Cardinality(redirects) \in Nat
  BY <1>1, <1>2, FS_CardinalityType, FS_Intersection
<1>. HIDE DEF S, f
<1>7. IsFiniteSet(routes) /\ Cardinality(routes) <= Cardinality(S)
  BY <1>4, <1>5, FS_Injection
<1>8. Cardinality(routes) \in Nat
  BY <1>7, FS_CardinalityType
<1>. QED BY <1>1, <1>2, <1>5, <1>6, <1>7, <1>8, ConfigAssumption

\* The routes map never holds more than twice max active challenges, whatever
\* the requests and their purges, as long as a handler is delayed by at most
\* challenge_ttl_secs.
THEOREM RoutesAreBounded == Spec => []RoutesBounded
<1>1. CASE Timely
  <2>1. Init => RoomInv
    <3>1. IsFiniteSet({}) /\ Cardinality({}) <= MaxActive
      BY FS_EmptySet, ConfigAssumption
    <3>2. Init => \A x \in Int : Crowd(x) = {}
      BY DEF Init, Crowd, Outlasting, Expiring
    <3>. QED BY <3>1, <3>2
             DEF Init, RoomInv, RedirectsCapped, CrowdsCapped, RoutesMinted, RoutesUnique,
                 RoutesDated, OrphansDie
  <2>2. Init => ClockInv
    BY DEF Init, ClockInv, Running, Idle
  <2>3. TypeOK /\ TypeOK' /\ TokenInv /\ ClockInv /\ RoomInv /\ [Next]_vars => RoomInv'
    BY <1>1, RoomInvInductive
  <2>4. TypeOK /\ RoomInv => RoutesBounded
    BY RoomForRoutes DEF RoutesBounded
  <2>. QED BY <2>1, <2>2, <2>3, <2>4, TypeCorrect, InitTokenInv, TokenInvInductive,
              ClockInvInductive, PTL DEF Spec
<1>2. CASE ~Timely
  <2>1. RoutesBounded
    BY <1>2 DEF RoutesBounded
  <2>. QED BY <2>1, PTL
<1>. QED BY <1>1, <1>2
===========================================================================
