-------------------------- MODULE AdmissionProofs --------------------------
(***************************************************************************)
(* Proofs about Admission.  One inductive invariant, IInv, carries all its  *)
(* theorems: what every risk entry satisfies (EntryInv) whichever of the    *)
(* three scoring functions touched it last, and what every handler may be   *)
(* on its way to do (HandlerInv).                                           *)
(***************************************************************************)
EXTENDS Admission, FiniteSetTheorems, TLAPS

---------------------------------------------------------------------------
(* The inductive invariant.                                                 *)

\* An entry r, at time c; s is since when it has had points, v is whether
\* verification is on.  Its paths are finite and capped; it was seen within its
\* window, which began before it had points; with verification on no 404 was
\* counted, and an entry that reached the number of paths has the points for it.
EntryInv(r, s, c, v) ==
  /\ r \in RiskState
  /\ IsFiniteSet(r.distinct_paths)
  /\ Cardinality(r.distinct_paths) <= PathCap
  /\ r.window_started <= c
  /\ r.last_seen < r.window_started + Window
  /\ r.score > 0 => r.window_started <= s
  /\ v => r.not_found = 0
  /\ v /\ Cardinality(r.distinct_paths) >= MaxPaths => r.score >= DiversityPoints

\* A handler in state hs, when the visitors hold the cookies ck: it does not
\* carry a time to come, and with verification on it is not about to score a
\* response, nor will it be, and what it forwards is covered by a cookie.
HandlerInv(hs, c, v, ck) ==
  /\ hs \in HandlerState
  /\ hs.pc \in {"observe", "response", "fail"} => hs.now <= c
  /\ v => hs.pc # "response"
  /\ v /\ hs.pc = "upstream" =>
       /\ ~hs.counted
       /\ hs.protected => \E k \in ck : k.site = hs.site /\ k.ip = hs.ip

Base ==
  /\ clock \in Nat
  /\ verification \in BOOLEAN
  /\ enabled \subseteq Site /\ inline \subseteq Site
  /\ whitelist \subseteq Client
  /\ cookies \subseteq Cookie
  /\ bans \in [Client -> Nat]
  /\ scored \in [Key -> Nat]

RisksInv ==
  /\ DOMAIN risks \subseteq Key
  /\ IsFiniteSet(DOMAIN risks)
  /\ Cardinality(DOMAIN risks) <= RiskCap
  /\ risks \in [DOMAIN risks -> RiskState]
  /\ \A k \in DOMAIN risks : EntryInv(risks[k], scored[k], clock, verification)

HandlersInv ==
  /\ handlers \in [Handler -> HandlerState]
  /\ \A h \in Handler : HandlerInv(handlers[h], clock, verification, cookies)

IInv == Base /\ RisksInv /\ HandlersInv

---------------------------------------------------------------------------
(* Risk entries.                                                            *)

\* A path added within the cap leaves the set finite and within it.
LEMMA WithPathOK ==
  ASSUME NEW paths \in SUBSET Path, IsFiniteSet(paths), NEW path \in Path,
         Cardinality(paths) <= PathCap
  PROVE  /\ WithPath(paths, path) \in SUBSET Path
         /\ IsFiniteSet(WithPath(paths, path))
         /\ Cardinality(paths) \in Nat
         /\ Cardinality(WithPath(paths, path)) \in Nat
         /\ Cardinality(WithPath(paths, path)) <= PathCap
         /\ Cardinality(WithPath(paths, path)) <= Cardinality(paths) + 1
<1>1. Cardinality(paths) \in Nat
  BY FS_CardinalityType
<1>2. /\ IsFiniteSet(paths \cup {path})
      /\ \/ Cardinality(paths \cup {path}) = Cardinality(paths)
         \/ Cardinality(paths \cup {path}) = Cardinality(paths) + 1
  BY FS_AddElement
<1>3. CASE Cardinality(paths) < PathCap
  <2>1. WithPath(paths, path) = paths \cup {path}
    BY <1>3 DEF WithPath
  <2> QED BY <1>1, <1>2, <1>3, <2>1, ConfigAssumption DEF ConfigAssumption
<1>4. CASE ~(Cardinality(paths) < PathCap)
  <2>1. WithPath(paths, path) = paths
    BY <1>4 DEF WithPath
  <2> QED BY <1>1, <2>1
<1> QED BY <1>3, <1>4

\* Adding points to a counter saturates and never lowers it.
LEMMA PlusOK ==
  ASSUME NEW a \in 0..MaxCount, NEW b \in Nat
  PROVE  /\ Plus(a, b) \in 0..MaxCount
         /\ Plus(a, b) >= a
         /\ b >= DiversityPoints => Plus(a, b) >= DiversityPoints
BY ConfigAssumption DEF ConfigAssumption, Plus

LEMMA FreshOK ==
  ASSUME NEW now \in Nat, NEW c \in Nat, now <= c, NEW s \in Nat, NEW v \in BOOLEAN
  PROVE  EntryInv(Fresh(now), s, c, v)
<1>1. IsFiniteSet({}) /\ Cardinality({}) = 0
  BY FS_EmptySet
<1>2. Fresh(now) \in RiskState
  BY ConfigAssumption DEF ConfigAssumption, Fresh, RiskState
<1>3. /\ Fresh(now).distinct_paths = {} /\ Fresh(now).window_started = now
      /\ Fresh(now).last_seen = now /\ Fresh(now).score = 0
      /\ Fresh(now).not_found = 0
  BY DEF Fresh
<1> HIDE DEF Fresh
<1> QED BY <1>1, <1>2, <1>3, ConfigAssumption DEF ConfigAssumption, EntryInv

\* Rolling the window over, or not, keeps what an entry satisfies.
LEMMA RolledOK ==
  ASSUME NEW now \in Nat, NEW c \in Nat, now <= c, NEW s \in Nat, NEW v \in BOOLEAN,
         NEW r, EntryInv(r, s, c, v)
  PROVE  EntryInv(Rolled(r, now), s, c, v)
<1>1. CASE Since(r.window_started, now) >= Window
  <2>1. Rolled(r, now) = Fresh(now)
    BY <1>1 DEF Rolled
  <2> QED BY <2>1, FreshOK
<1>2. CASE ~(Since(r.window_started, now) >= Window)
  <2> DEFINE q == [r EXCEPT !.last_seen = now]
  <2>1. Rolled(r, now) = q
    BY <1>2 DEF Rolled
  <2>2. r \in RiskState
    BY DEF EntryInv
  <2>3. /\ q \in RiskState /\ q.last_seen = now
        /\ q.window_started = r.window_started /\ q.not_found = r.not_found
        /\ q.distinct_paths = r.distinct_paths /\ q.score = r.score
    BY <2>2 DEF RiskState
  <2>4. r.window_started \in Nat
    BY <2>2 DEF RiskState
  <2>5. now < r.window_started + Window
    BY <1>2, <2>4, ConfigAssumption DEF ConfigAssumption, Since
  <2> HIDE DEF q
  <2>6. EntryInv(q, s, c, v)
    BY <2>3, <2>5 DEF EntryInv
  <2> QED BY <2>1, <2>6
<1> QED BY <1>1, <1>2

\* Since when an entry has had points once e has become r at time c.
PointsSince(e, r, s, c) == IF e.score > 0 \/ r.score = 0 THEN s ELSE c

\* A scoring function that leaves the window alone, does not lower the score,
\* and scores the paths, leaves an entry that satisfies EntryInv.
LEMMA ScoringOK ==
  ASSUME NEW c \in Nat, NEW s \in Nat, NEW v \in BOOLEAN, NEW e, NEW r,
         EntryInv(e, s, c, v),
         r \in RiskState,
         r.window_started = e.window_started, r.last_seen = e.last_seen,
         r.score >= e.score,
         IsFiniteSet(r.distinct_paths), Cardinality(r.distinct_paths) <= PathCap,
         v => r.not_found = 0,
         v /\ Cardinality(r.distinct_paths) >= MaxPaths => r.score >= DiversityPoints
  PROVE  EntryInv(r, PointsSince(e, r, s, c), c, v)
<1>1. /\ e.score \in Nat /\ r.score \in Nat /\ e.window_started \in Nat
      /\ e.window_started <= c
  BY ConfigAssumption DEF ConfigAssumption, EntryInv, RiskState
<1>2. r.score > 0 => r.window_started <= PointsSince(e, r, s, c)
  BY <1>1 DEF EntryInv, PointsSince
<1> QED BY <1>2 DEF EntryInv

\* observe_request.
LEMMA ObservedOK ==
  ASSUME NEW c \in Nat, NEW s \in Nat, NEW v \in BOOLEAN, NEW e,
         EntryInv(e, s, c, v), NEW path \in Path, NEW head \in BOOLEAN
  PROVE  EntryInv(Observed(e, path, head),
                  PointsSince(e, Observed(e, path, head), s, c), c, v)
<1> DEFINE paths == WithPath(e.distinct_paths, path)
           points == PointsIf(path \in Sensitive, SensitivePoints)
                       + PointsIf(head, MethodPoints)
                       + PointsIf(Cardinality(paths) = MaxPaths, DiversityPoints)
           score == Plus(e.score, points)
           r == [e EXCEPT !.distinct_paths = paths, !.score = score]
<1>1. e \in RiskState
  BY DEF EntryInv
<1>2. e.distinct_paths \in SUBSET Path /\ e.score \in 0..MaxCount
  BY <1>1 DEF RiskState
<1>3. /\ paths \in SUBSET Path /\ IsFiniteSet(paths)
      /\ Cardinality(e.distinct_paths) \in Nat
      /\ Cardinality(paths) \in Nat /\ Cardinality(paths) <= PathCap
      /\ Cardinality(paths) <= Cardinality(e.distinct_paths) + 1
  BY <1>2, WithPathOK DEF EntryInv
<1> HIDE DEF paths
<1>4. points \in Nat /\ (Cardinality(paths) = MaxPaths => points >= DiversityPoints)
  BY ConfigAssumption DEF ConfigAssumption, PointsIf
<1> HIDE DEF points
<1>5. /\ score \in 0..MaxCount /\ score >= e.score
      /\ points >= DiversityPoints => score >= DiversityPoints
  BY <1>2, <1>4, PlusOK
<1> HIDE DEF score
<1>6. /\ r \in RiskState
      /\ r.window_started = e.window_started /\ r.last_seen = e.last_seen
      /\ r.not_found = e.not_found /\ r.distinct_paths = paths /\ r.score = score
  BY <1>1, <1>3, <1>5 DEF RiskState
<1>7. Observed(e, path, head) = r
  BY DEF Observed, paths, points, score
<1> HIDE DEF r
<1>8. v /\ Cardinality(paths) >= MaxPaths => score >= DiversityPoints
  <2>1. CASE Cardinality(paths) = MaxPaths
    BY <2>1, <1>4, <1>5
  <2>2. CASE Cardinality(paths) # MaxPaths
    <3> SUFFICES ASSUME v, Cardinality(paths) >= MaxPaths
                 PROVE  score >= DiversityPoints
      OBVIOUS
    <3>1. Cardinality(e.distinct_paths) >= MaxPaths
      BY <2>2, <1>3, ConfigAssumption DEF ConfigAssumption
    <3>2. e.score >= DiversityPoints
      BY <3>1 DEF EntryInv
    <3> QED BY <3>2, <1>2, <1>5, ConfigAssumption DEF ConfigAssumption
  <2> QED BY <2>1, <2>2
<1>9. v => r.not_found = 0
  BY <1>6 DEF EntryInv
<1>10. EntryInv(r, PointsSince(e, r, s, c), c, v)
  BY <1>3, <1>5, <1>6, <1>8, <1>9, ScoringOK
<1> QED BY <1>7, <1>10

\* observe_response, which verification keeps from happening.
LEMMA AnsweredOK ==
  ASSUME NEW c \in Nat, NEW s \in Nat, NEW e, EntryInv(e, s, c, FALSE),
         NEW path \in Path
  PROVE  EntryInv(Answered(e, path), PointsSince(e, Answered(e, path), s, c), c, FALSE)
<1> DEFINE paths == WithPath(e.distinct_paths, path)
           not_found == Plus(e.not_found, 1)
           points == PointsIf(not_found = Max404, NotFoundPoints)
           score == Plus(e.score, points)
           r == [e EXCEPT !.not_found = not_found, !.score = score,
                          !.distinct_paths = paths]
<1>1. e \in RiskState
  BY DEF EntryInv
<1>2. /\ e.distinct_paths \in SUBSET Path /\ e.score \in 0..MaxCount
      /\ e.not_found \in 0..MaxCount
  BY <1>1 DEF RiskState
<1>3. paths \in SUBSET Path /\ IsFiniteSet(paths) /\ Cardinality(paths) <= PathCap
  BY <1>2, WithPathOK DEF EntryInv
<1>4. not_found \in 0..MaxCount
  BY <1>2, PlusOK
<1>5. points \in Nat
  BY ConfigAssumption DEF ConfigAssumption, PointsIf
<1>6. score \in 0..MaxCount /\ score >= e.score
  BY <1>2, <1>5, PlusOK
<1> HIDE DEF paths, not_found, score
<1>7. /\ r \in RiskState
      /\ r.window_started = e.window_started /\ r.last_seen = e.last_seen
      /\ r.distinct_paths = paths /\ r.score = score
  BY <1>1, <1>3, <1>4, <1>6 DEF RiskState
<1>8. Answered(e, path) = r
  BY DEF Answered, paths, not_found, score, points
<1> HIDE DEF r
<1>9. EntryInv(r, PointsSince(e, r, s, c), c, FALSE)
  BY <1>3, <1>6, <1>7, ScoringOK
<1> QED BY <1>8, <1>9

\* add_risk.
LEMMA FailedOK ==
  ASSUME NEW c \in Nat, NEW s \in Nat, NEW v \in BOOLEAN, NEW e, EntryInv(e, s, c, v)
  PROVE  LET r == [e EXCEPT !.score = Plus(e.score, FailurePoints)]
         IN  r \in RiskState /\ EntryInv(r, PointsSince(e, r, s, c), c, v)
<1> DEFINE score == Plus(e.score, FailurePoints)
           r == [e EXCEPT !.score = score]
<1>1. e \in RiskState
  BY DEF EntryInv
<1>2. e.score \in 0..MaxCount /\ FailurePoints \in Nat
  BY <1>1, ConfigAssumption DEF ConfigAssumption, RiskState
<1>3. score \in 0..MaxCount /\ score >= e.score
  BY <1>2, PlusOK
<1> HIDE DEF score
<1>4. /\ r \in RiskState
      /\ r.window_started = e.window_started /\ r.last_seen = e.last_seen
      /\ r.not_found = e.not_found /\ r.distinct_paths = e.distinct_paths
      /\ r.score = score
  BY <1>1, <1>3 DEF RiskState
<1> HIDE DEF r
<1>5. v /\ Cardinality(r.distinct_paths) >= MaxPaths => r.score >= DiversityPoints
  BY <1>2, <1>3, <1>4, ConfigAssumption DEF ConfigAssumption, EntryInv
<1>6. EntryInv(r, PointsSince(e, r, s, c), c, v)
  <2>1. /\ r.score >= e.score
        /\ IsFiniteSet(r.distinct_paths) /\ Cardinality(r.distinct_paths) <= PathCap
        /\ v => r.not_found = 0
    BY <1>3, <1>4 DEF EntryInv
  <2> QED BY <1>4, <1>5, <2>1, ScoringOK
<1> QED BY <1>4, <1>6 DEF r, score

---------------------------------------------------------------------------
(* The map of entries.                                                      *)

\* The entry a scoring function begins with.
LEMMA EntryOK ==
  ASSUME Base, RisksInv, NEW k \in Key, NEW live \in SUBSET DOMAIN risks,
         NEW now \in Nat, now <= clock
  PROVE  EntryInv(Entry(k, live, now), scored[k], clock, verification)
<1>1. /\ clock \in Nat /\ verification \in BOOLEAN /\ scored[k] \in Nat
  BY DEF Base
<1>2. CASE k \in live
  <2>1. EntryInv(risks[k], scored[k], clock, verification)
    BY <1>2 DEF RisksInv
  <2>2. Entry(k, live, now) = Rolled(risks[k], now)
    BY <1>2 DEF Entry
  <2> QED BY <1>1, <2>1, <2>2, RolledOK
<1>3. CASE k \notin live
  <2>1. Entry(k, live, now) = Rolled(Fresh(now), now)
    BY <1>3 DEF Entry
  <2>2. EntryInv(Fresh(now), scored[k], clock, verification)
    BY <1>1, FreshOK
  <2> QED BY <1>1, <2>1, <2>2, RolledOK
<1> QED BY <1>2, <1>3

\* Dropping entries leaves at most RiskCap of them.
LEMMA FewerEntries ==
  ASSUME RisksInv, NEW live \in SUBSET DOMAIN risks
  PROVE  IsFiniteSet(live) /\ Cardinality(live) \in Nat /\ Cardinality(live) <= RiskCap
<1> DEFINE all == DOMAIN risks
<1>1. IsFiniteSet(all) /\ Cardinality(all) <= RiskCap
  BY DEF RisksInv
<1>2. IsFiniteSet(live) /\ Cardinality(live) <= Cardinality(all)
  <2> HIDE DEF all
  <2>1. live \subseteq all
    BY DEF all
  <2> QED BY <1>1, <2>1, FS_Subset
<1>3. Cardinality(live) \in Nat /\ Cardinality(all) \in Nat
  BY <1>1, <1>2, FS_CardinalityType
<1>4. RiskCap \in Nat
  BY ConfigAssumption DEF ConfigAssumption
<1> HIDE DEF all
<1> QED BY <1>1, <1>2, <1>3, <1>4

\* Storing an entry within the room there is.
LEMMA StoreOK ==
  ASSUME Base, RisksInv, NEW k \in Key, NEW live \in SUBSET DOMAIN risks,
         Room(k, live), NEW e, NEW r,
         EntryInv(r, PointsSince(e, r, scored[k], clock), clock, verification),
         Store(k, e, r, live), UNCHANGED <<clock, verification>>
  PROVE  RisksInv' /\ scored' \in [Key -> Nat]
<1> DEFINE dom == live \cup {k}
<1>1. r \in RiskState
  BY DEF EntryInv
<1>2. scored \in [Key -> Nat] /\ clock \in Nat
  BY DEF Base
<1>3. /\ scored' \in [Key -> Nat]
      /\ scored'[k] = PointsSince(e, r, scored[k], clock)
      /\ \A j \in Key \ {k} : scored'[j] = scored[j]
  BY <1>2 DEF Store, PointsSince
<1>4. risks' = [j \in dom |-> IF j = k THEN r ELSE risks[j]]
  BY DEF Store
<1>5. DOMAIN risks' = dom
  BY <1>4
<1>6. IsFiniteSet(live) /\ Cardinality(live) <= RiskCap
  BY FewerEntries
<1>7. /\ IsFiniteSet(dom)
      /\ Cardinality(dom) = IF k \in live THEN Cardinality(live) ELSE Cardinality(live) + 1
  BY <1>6, FS_AddElement
<1>8. Cardinality(live) \in Nat
  BY <1>6, FS_CardinalityType
<1>9. Cardinality(dom) <= RiskCap
  BY <1>6, <1>7, <1>8, ConfigAssumption DEF Room, ConfigAssumption
<1>10. dom \subseteq Key
  BY DEF RisksInv
<1>11. risks' \in [dom -> RiskState]
  BY <1>1, <1>4 DEF RisksInv
<1>12. ASSUME NEW j \in dom
       PROVE  EntryInv(risks'[j], scored'[j], clock, verification)
  <2>1. CASE j = k
    <3>1. risks'[j] = r
      BY <1>4, <2>1
    <3> QED BY <1>3, <2>1, <3>1
  <2>2. CASE j # k
    <3>1. j \in live /\ risks'[j] = risks[j]
      BY <1>4, <2>2
    <3>2. scored'[j] = scored[j]
      BY <1>3, <1>10, <2>2
    <3> QED BY <3>1, <3>2 DEF RisksInv
  <2> QED BY <2>1, <2>2
<1> QED BY <1>3, <1>5, <1>7, <1>9, <1>10, <1>11, <1>12 DEF RisksInv

\* Dropping entries.
LEMMA KeepOK ==
  ASSUME RisksInv, NEW live \in SUBSET DOMAIN risks, Keep(live),
         UNCHANGED <<clock, verification>>
  PROVE  RisksInv'
<1>1. risks' = [j \in live |-> risks[j]]
  BY DEF Keep
<1>2. DOMAIN risks' = live
  BY <1>1
<1>3. IsFiniteSet(live) /\ Cardinality(live) <= RiskCap
  BY FewerEntries
<1>4. risks' \in [live -> RiskState]
  BY <1>1 DEF RisksInv
<1>5. \A j \in live : EntryInv(risks'[j], scored'[j], clock, verification)
  BY <1>1 DEF RisksInv, Keep
<1> QED BY <1>2, <1>3, <1>4, <1>5 DEF RisksInv

\* The entries as time passes.
LEMMA RisksLater ==
  ASSUME Base, RisksInv, UNCHANGED <<risks, scored, verification>>,
         clock' \in Nat, clock' >= clock
  PROVE  RisksInv'
<1>1. ASSUME NEW k \in DOMAIN risks
      PROVE  EntryInv(risks[k], scored[k], clock', verification)
  <2>1. EntryInv(risks[k], scored[k], clock, verification)
    BY DEF RisksInv
  <2>2. risks[k].window_started \in Nat /\ clock \in Nat
    BY <2>1 DEF EntryInv, RiskState, Base
  <2> QED BY <2>1, <2>2 DEF EntryInv
<1> QED BY <1>1 DEF RisksInv

---------------------------------------------------------------------------
(* The handlers.                                                            *)

\* What a handler carries.
LEMMA Carries ==
  ASSUME NEW hs \in HandlerState
  PROVE  /\ hs.pc = "observe" =>
              /\ hs.ip \in Client /\ hs.site \in Site /\ hs.path \in Path
              /\ hs.head \in BOOLEAN /\ hs.inline \in BOOLEAN /\ hs.now \in Nat
         /\ hs.pc = "upstream" =>
              /\ hs.ip \in Client /\ hs.site \in Site /\ hs.path \in Path
              /\ hs.protected \in BOOLEAN /\ hs.counted \in BOOLEAN
         /\ hs.pc = "response" =>
              /\ hs.ip \in Client /\ hs.site \in Site /\ hs.path \in Path
              /\ hs.now \in Nat
         /\ hs.pc = "submit" => hs.ip \in Client /\ hs.site \in Site
         /\ hs.pc = "fail" => hs.ip \in Client /\ hs.site \in Site /\ hs.now \in Nat
         /\ hs.pc = "ban" => hs.ip \in Client
BY DEF HandlerState

LEMMA IdleOK ==
  ASSUME NEW c, NEW v, NEW ck
  PROVE  HandlerInv(Idle, c, v, ck)
BY DEF HandlerInv, HandlerState, Idle

LEMMA BanOK ==
  ASSUME NEW ip \in Client, NEW c, NEW v, NEW ck
  PROVE  HandlerInv([pc |-> "ban", ip |-> ip], c, v, ck)
BY DEF HandlerInv, HandlerState

\* A handler is left with what it satisfied as time passes and cookies are issued.
LEMMA HandlerLater ==
  ASSUME NEW hs, NEW c \in Nat, NEW d \in Nat, c <= d, NEW v \in BOOLEAN,
         NEW ck, NEW cl, ck \subseteq cl, HandlerInv(hs, c, v, ck)
  PROVE  HandlerInv(hs, d, v, cl)
<1>1. hs \in HandlerState
  BY DEF HandlerInv
<1>2. hs.pc \in {"observe", "response", "fail"} => hs.now \in Nat
  BY <1>1, Carries
<1>3. hs.pc \in {"observe", "response", "fail"} => hs.now <= d
  BY <1>2 DEF HandlerInv
<1>4. v /\ hs.pc = "upstream" =>
        /\ ~hs.counted
        /\ hs.protected => \E k \in cl : k.site = hs.site /\ k.ip = hs.ip
  BY DEF HandlerInv
<1>5. v => hs.pc # "response"
  BY DEF HandlerInv
<1> QED BY <1>1, <1>3, <1>4, <1>5 DEF HandlerInv

\* One handler moves on, the others stay as they are.
LEMMA BecomeOK ==
  ASSUME Base, HandlersInv, NEW h \in Handler, NEW hs, Become(h, hs),
         HandlerInv(hs, clock', verification', cookies'),
         clock' \in Nat, clock' >= clock, UNCHANGED verification,
         cookies \subseteq cookies'
  PROVE  HandlersInv'
<1>1. hs \in HandlerState
  BY DEF HandlerInv
<1>2. handlers' \in [Handler -> HandlerState]
  BY <1>1 DEF Become, HandlersInv
<1>3. ASSUME NEW g \in Handler
      PROVE  HandlerInv(handlers'[g], clock', verification', cookies')
  <2>1. CASE g = h
    <3>1. handlers'[g] = hs
      BY <2>1 DEF Become, HandlersInv
    <3> QED BY <3>1
  <2>2. CASE g # h
    <3>1. handlers'[g] = handlers[g]
      BY <2>2 DEF Become, HandlersInv
    <3>2. HandlerInv(handlers[g], clock, verification, cookies)
      BY DEF HandlersInv
    <3>3. clock \in Nat /\ verification \in BOOLEAN /\ verification' = verification
      BY DEF Base
    <3>4. HandlerInv(handlers[g], clock', verification, cookies')
      BY <3>2, <3>3, HandlerLater
    <3> QED BY <3>1, <3>3, <3>4
  <2> QED BY <2>1, <2>2
<1> QED BY <1>2, <1>3 DEF HandlersInv

\* With verification on, what is admitted unscored and protected is verified.
LEMMA ForwardingOK ==
  ASSUME NEW ip \in Client, NEW site \in Site, NEW path \in Path,
         NEW protected \in BOOLEAN, NEW counted \in BOOLEAN, NEW c, NEW v, NEW ck,
         v => /\ ~counted
              /\ protected => \E k \in ck : k.site = site /\ k.ip = ip
  PROVE  HandlerInv(Forwarding(ip, site, path, protected, counted), c, v, ck)
<1> DEFINE hs == Forwarding(ip, site, path, protected, counted)
<1>1. /\ hs \in HandlerState
      /\ hs.pc = "upstream" /\ hs.ip = ip /\ hs.site = site
      /\ hs.protected = protected /\ hs.counted = counted
  BY DEF Forwarding, HandlerState
<1> HIDE DEF hs
<1>2. HandlerInv(hs, c, v, ck)
  BY <1>1 DEF HandlerInv
<1> QED BY <1>2 DEF hs

\* The decision on a returned score forwards nothing while verification is on.
LEMMA DecisionOK ==
  ASSUME Base, NEW hs \in HandlerState, hs.pc = "observe", NEW risk \in Nat
  PROVE  HandlerInv(Decision(hs, risk), clock, verification, cookies)
<1>1. hs.ip \in Client /\ hs.site \in Site /\ hs.path \in Path
  BY Carries
<1>2. CASE risk >= BanAt
  <2>1. ~(risk < LimitAt)
    BY <1>2, ConfigAssumption DEF ConfigAssumption
  <2>2. Decision(hs, risk) = [pc |-> "ban", ip |-> hs.ip]
    BY ONLY <1>2, <2>1, Zenon DEF Decision
  <2> QED BY <1>1, <2>2, BanOK
<1>3. CASE ~(risk >= BanAt) /\ (risk < LimitAt /\ ~verification /\ ~hs.inline)
  <2>1. Decision(hs, risk) = Forwarding(hs.ip, hs.site, hs.path, TRUE, TRUE)
    BY <1>3, ConfigAssumption DEF Decision, ConfigAssumption
  <2> QED BY <1>1, <1>3, <2>1, ForwardingOK
<1>4. CASE ~(risk >= BanAt) /\ ~(risk < LimitAt /\ ~verification /\ ~hs.inline)
  <2>1. Decision(hs, risk) = Idle
    BY <1>4, ConfigAssumption DEF Decision, ConfigAssumption
  <2> QED BY <2>1, IdleOK
<1> QED BY <1>2, <1>3, <1>4

---------------------------------------------------------------------------
(* The initial states and the steps.                                        *)

LEMMA InitOK == ASSUME Init PROVE IInv
<1>1. Base
  BY DEF Init, Base
<1>2. RisksInv
  <2>1. DOMAIN risks = {}
    BY DEF Init
  <2>2. IsFiniteSet({}) /\ Cardinality({}) = 0
    BY FS_EmptySet
  <2>3. risks \in [{} -> RiskState]
    BY DEF Init
  <2> QED BY <2>1, <2>2, <2>3, ConfigAssumption DEF RisksInv, ConfigAssumption
<1>3. HandlersInv
  <2>1. \A h \in Handler : handlers[h] = Idle
    BY DEF Init
  <2>2. handlers \in [Handler -> HandlerState]
    BY DEF Init, HandlerState, Idle
  <2> QED BY <2>1, <2>2, IdleOK DEF HandlersInv
<1> QED BY <1>1, <1>2, <1>3 DEF IInv

LEMMA PrunedOK ==
  ASSUME Base PROVE Pruned \in [Client -> Nat]
BY DEF Base, Pruned

\* A handler with nothing to do takes up something and nothing else changes but
\* the pruned bans.
LEMMA TakeUp ==
  ASSUME IInv, NEW h \in Handler, NEW hs, Become(h, hs),
         HandlerInv(hs, clock, verification, cookies),
         bans' \in [Client -> Nat],
         UNCHANGED <<clock, admin, cookies, risks, scored>>
  PROVE  IInv'
<1>1. Base'
  BY DEF IInv, Base, admin
<1>2. RisksInv'
  BY RisksLater DEF IInv, Base, admin
<1>3. HandlersInv'
  BY BecomeOK DEF IInv, Base, admin
<1> QED BY <1>1, <1>2, <1>3 DEF IInv

LEMMA ArriveRefusedOK ==
  ASSUME IInv, NEW ip \in Client, NEW site \in Site, ArriveRefused(ip, site)
  PROVE  IInv'
<1>1. UNCHANGED <<clock, admin, cookies, risks, handlers, scored>> /\ bans' = Pruned
  BY DEF ArriveRefused
<1>2. Base'
  BY <1>1, PrunedOK DEF IInv, Base, admin
<1>3. RisksInv'
  BY <1>1, RisksLater DEF IInv, Base, admin
<1>4. HandlersInv'
  BY <1>1 DEF IInv, HandlersInv, admin
<1> QED BY <1>2, <1>3, <1>4 DEF IInv

LEMMA ArriveSubmitOK ==
  ASSUME IInv, NEW h \in Handler, NEW ip \in Client, NEW site \in Site,
         ArriveSubmit(h, ip, site)
  PROVE  IInv'
<1> DEFINE hs == [pc |-> "submit", ip |-> ip, site |-> site]
<1>1. /\ Become(h, hs) /\ UNCHANGED <<clock, admin, cookies, risks, scored>>
      /\ bans' = Pruned \/ bans' = bans
  BY DEF ArriveSubmit, PruneIf
<1>2. HandlerInv(hs, clock, verification, cookies)
  BY DEF HandlerInv, HandlerState
<1>3. bans' \in [Client -> Nat]
  BY <1>1, PrunedOK DEF IInv, Base
<1> QED BY <1>1, <1>2, <1>3, TakeUp

LEMMA ArriveObservedOK ==
  ASSUME IInv, NEW h \in Handler, NEW ip \in Client, NEW site \in Site,
         NEW path \in Path, NEW head \in BOOLEAN, NEW bridge \in BOOLEAN,
         ArriveObserved(h, ip, site, path, head, bridge)
  PROVE  IInv'
<1> DEFINE hs == Observing(ip, site, path, head, bridge)
<1>1. /\ Become(h, hs) /\ UNCHANGED <<clock, admin, cookies, risks, scored>>
      /\ bans' = Pruned
  BY DEF ArriveObserved
<1>2. clock \in Nat
  BY DEF IInv, Base
<1>3. hs \in HandlerState /\ hs.pc = "observe" /\ hs.now = clock
  BY <1>2 DEF Observing, HandlerState
<1> HIDE DEF hs
<1>4. HandlerInv(hs, clock, verification, cookies)
  BY <1>2, <1>3 DEF HandlerInv
<1>5. bans' \in [Client -> Nat]
  BY <1>1, PrunedOK DEF IInv
<1> QED BY <1>1, <1>4, <1>5, TakeUp

LEMMA ArriveAdmittedOK ==
  ASSUME IInv, NEW h \in Handler, NEW ip \in Client, NEW site \in Site,
         NEW path \in Path, ArriveAdmitted(h, ip, site, path)
  PROVE  IInv'
<1> DEFINE protected == site \in enabled
           counted == Counted(ip, site)
           hs == Forwarding(ip, site, path, protected, counted)
<1>1. /\ Become(h, hs) /\ UNCHANGED <<clock, admin, cookies, risks, scored>>
      /\ bans' = Pruned \/ bans' = bans
      /\ Guarded(ip, site) => Spared(ip)
  BY DEF ArriveAdmitted, PruneIf
<1>2. protected \in BOOLEAN /\ counted \in BOOLEAN
  BY DEF Counted, Guarded
<1>3. verification => ~Guarded(ip, site)
  BY <1>1 DEF Spared
<1>4. verification => ~counted
  BY <1>3 DEF Counted
<1>5. verification /\ protected => \E c \in cookies : c.site = site /\ c.ip = ip
  BY <1>3 DEF Guarded, Verified
<1> HIDE DEF protected, counted
<1>6. HandlerInv(hs, clock, verification, cookies)
  BY <1>2, <1>4, <1>5, ForwardingOK
<1>7. bans' \in [Client -> Nat]
  BY <1>1, PrunedOK DEF IInv, Base
<1> HIDE DEF hs
<1> QED BY <1>1, <1>6, <1>7, TakeUp

\* A scoring step: an entry is stored and the handler moves on.
LEMMA ScoreAndBecome ==
  ASSUME IInv, NEW k \in Key, NEW live \in SUBSET DOMAIN risks, Room(k, live),
         NEW e, NEW r,
         EntryInv(r, PointsSince(e, r, scored[k], clock), clock, verification),
         Store(k, e, r, live),
         NEW h \in Handler, NEW hs, Become(h, hs),
         HandlerInv(hs, clock, verification, cookies),
         UNCHANGED <<clock, admin, cookies, bans>>
  PROVE  IInv'
<1>1. RisksInv' /\ scored' \in [Key -> Nat]
  BY StoreOK DEF IInv, admin
<1>2. Base'
  BY <1>1 DEF IInv, Base, admin
<1>3. HandlersInv'
  BY BecomeOK DEF IInv, Base, admin
<1> QED BY <1>1, <1>2, <1>3 DEF IInv

\* Nothing is scored, entries may be dropped, and the handler moves on.
LEMMA KeepAndBecome ==
  ASSUME IInv, NEW live \in SUBSET DOMAIN risks, Keep(live),
         NEW h \in Handler, NEW hs, Become(h, hs),
         HandlerInv(hs, clock, verification, cookies'),
         cookies \subseteq cookies', cookies' \subseteq Cookie,
         UNCHANGED <<clock, admin, bans>>
  PROVE  IInv'
<1>1. RisksInv'
  BY KeepOK DEF IInv, admin
<1>2. Base'
  BY DEF IInv, Base, admin, Keep
<1>3. HandlersInv'
  BY BecomeOK DEF IInv, Base, admin
<1> QED BY <1>1, <1>2, <1>3 DEF IInv

LEMMA ObserveRequestOK ==
  ASSUME IInv, NEW h \in Handler, ObserveRequest(h)
  PROVE  IInv'
<1> DEFINE hs == handlers[h]
           k == <<hs.ip, hs.site>>
           live == Recent(hs.now)
           e == Entry(k, live, hs.now)
           r == Observed(e, hs.path, hs.head)
<1>1. hs \in HandlerState /\ hs.pc = "observe" /\ hs.now <= clock
  BY DEF IInv, HandlersInv, HandlerInv, ObserveRequest
<1>2. /\ hs.path \in Path /\ hs.head \in BOOLEAN /\ hs.now \in Nat /\ k \in Key
  BY <1>1, Carries DEF Key
<1>3. live \in SUBSET DOMAIN risks
  BY DEF Recent
<1>4. UNCHANGED <<clock, admin, cookies, bans>>
  BY DEF ObserveRequest
<1>5. CASE hs.path \in Unscored
  <2>1. UNCHANGED <<risks, scored>> /\ Become(h, Decision(hs, 0))
    BY <1>5 DEF ObserveRequest
  <2>2. HandlerInv(Decision(hs, 0), clock, verification, cookies)
    BY <1>1, DecisionOK DEF IInv
  <2>3. bans' \in [Client -> Nat]
    BY <1>4 DEF IInv, Base
  <2> QED BY <1>4, <2>1, <2>2, <2>3, TakeUp
<1>6. CASE hs.path \notin Unscored /\ Room(k, live)
  <2>1. Store(k, e, r, live) /\ Become(h, Decision(hs, r.score))
    BY <1>6 DEF ObserveRequest
  <2>2. EntryInv(e, scored[k], clock, verification)
    BY <1>1, <1>2, <1>3, EntryOK DEF IInv
  <2>3. clock \in Nat /\ verification \in BOOLEAN /\ scored[k] \in Nat
    BY <1>2 DEF IInv, Base
  <2> HIDE DEF e
  <2>4. EntryInv(r, PointsSince(e, r, scored[k], clock), clock, verification)
    BY <1>2, <2>2, <2>3, ObservedOK
  <2> HIDE DEF r
  <2>5. HandlerInv(Decision(hs, r.score), clock, verification, cookies)
    <3>1. r.score \in Nat
      BY <2>4, ConfigAssumption DEF EntryInv, RiskState, ConfigAssumption
    <3>2. Base
      BY DEF IInv
    <3> HIDE DEF hs
    <3> QED BY <1>1, <3>1, <3>2, DecisionOK
  <2> HIDE DEF hs, k, live
  <2> QED BY <1>2, <1>3, <1>4, <1>6, <2>1, <2>4, <2>5, ScoreAndBecome
<1>7. CASE hs.path \notin Unscored /\ ~Room(k, live)
  <2>1. Keep(live) /\ Become(h, Decision(hs, 0))
    BY <1>7 DEF ObserveRequest
  <2>2. HandlerInv(Decision(hs, 0), clock, verification, cookies)
    BY <1>1, DecisionOK DEF IInv
  <2>3. cookies' = cookies /\ cookies \subseteq Cookie
    BY <1>4 DEF IInv, Base
  <2> HIDE DEF hs, k, live
  <2> QED BY <1>3, <1>4, <2>1, <2>2, <2>3, KeepAndBecome
<1> QED BY <1>5, <1>6, <1>7

LEMMA RespondOK ==
  ASSUME IInv, NEW h \in Handler, NEW not_found \in BOOLEAN, Respond(h, not_found)
  PROVE  IInv'
<1> DEFINE hs == handlers[h]
           next == [pc |-> "response", ip |-> hs.ip, site |-> hs.site,
                    path |-> hs.path, now |-> clock]
<1>1. /\ hs \in HandlerState /\ hs.pc = "upstream"
      /\ HandlerInv(hs, clock, verification, cookies)
  BY DEF IInv, HandlersInv, HandlerInv, Respond
<1>2. hs.ip \in Client /\ hs.site \in Site /\ hs.path \in Path
  BY <1>1, Carries
<1>3. /\ UNCHANGED <<clock, admin, cookies, bans, risks, scored>>
      /\ Become(h, IF not_found /\ hs.counted THEN next ELSE Idle)
  BY DEF Respond
<1>4. clock \in Nat /\ bans' \in [Client -> Nat]
  BY <1>3 DEF IInv, Base
<1>5. CASE not_found /\ hs.counted
  <2>1. ~verification
    BY <1>1, <1>5 DEF HandlerInv
  <2>2. next \in HandlerState /\ next.pc = "response" /\ next.now = clock
    BY <1>2, <1>4 DEF HandlerState
  <2>3. Become(h, next)
    BY <1>3, <1>5
  <2> HIDE DEF next
  <2>4. HandlerInv(next, clock, verification, cookies)
    BY <1>4, <2>1, <2>2 DEF HandlerInv
  <2> QED BY <1>3, <1>4, <2>3, <2>4, TakeUp
<1>6. CASE ~(not_found /\ hs.counted)
  <2>1. Become(h, Idle)
    BY <1>3, <1>6
  <2> QED BY <1>3, <1>4, <2>1, IdleOK, TakeUp
<1> QED BY <1>5, <1>6

LEMMA ObserveResponseOK ==
  ASSUME IInv, NEW h \in Handler, ObserveResponse(h)
  PROVE  IInv'
<1> DEFINE hs == handlers[h]
           k == <<hs.ip, hs.site>>
           live == DOMAIN risks
           e == Entry(k, live, hs.now)
           r == Answered(e, hs.path)
           next == IF r.score >= BanAt THEN [pc |-> "ban", ip |-> hs.ip] ELSE Idle
<1>1. /\ hs \in HandlerState /\ hs.pc = "response" /\ hs.now <= clock
      /\ ~verification
  BY DEF IInv, HandlersInv, HandlerInv, ObserveResponse
<1>2. hs.ip \in Client /\ hs.path \in Path /\ hs.now \in Nat /\ k \in Key
  BY <1>1, Carries DEF Key
<1>3. UNCHANGED <<clock, admin, cookies, bans>>
  BY DEF ObserveResponse
<1>4. CASE k \in live
  <2>1. Store(k, e, r, live) /\ Become(h, next)
    BY <1>4 DEF ObserveResponse
  <2>2. EntryInv(e, scored[k], clock, FALSE)
    <3>1. EntryInv(e, scored[k], clock, verification)
      BY <1>1, <1>2, EntryOK DEF IInv
    <3>2. verification = FALSE
      BY <1>1 DEF IInv, Base
    <3> QED BY <3>1, <3>2
  <2>3. clock \in Nat /\ scored[k] \in Nat
    BY <1>2 DEF IInv, Base
  <2>4. Room(k, live)
    BY <1>4 DEF Room
  <2> HIDE DEF e
  <2>5. EntryInv(r, PointsSince(e, r, scored[k], clock), clock, verification)
    <3>1. EntryInv(r, PointsSince(e, r, scored[k], clock), clock, FALSE)
      BY <1>2, <2>2, <2>3, AnsweredOK
    <3>2. verification = FALSE
      BY <1>1 DEF IInv, Base
    <3> QED BY <3>1, <3>2
  <2> HIDE DEF r
  <2>6. HandlerInv(next, clock, verification, cookies)
    BY <1>2, BanOK, IdleOK
  <2> HIDE DEF hs, k, live, next
  <2>7. live \in SUBSET DOMAIN risks
    BY DEF live
  <2> QED BY <1>2, <1>3, <2>1, <2>4, <2>5, <2>6, <2>7, ScoreAndBecome
<1>5. CASE k \notin live
  <2>1. UNCHANGED <<risks, scored>> /\ Become(h, Idle)
    BY <1>5 DEF ObserveResponse
  <2>2. bans' \in [Client -> Nat]
    BY <1>3 DEF IInv, Base
  <2> QED BY <1>3, <2>1, <2>2, IdleOK, TakeUp
<1> QED BY <1>4, <1>5

LEMMA RejectSubmissionOK ==
  ASSUME IInv, NEW h \in Handler, RejectSubmission(h)
  PROVE  IInv'
<1> DEFINE hs == handlers[h]
           next == [pc |-> "fail", ip |-> hs.ip, site |-> hs.site, now |-> clock]
<1>1. hs \in HandlerState /\ hs.pc = "submit"
  BY DEF IInv, HandlersInv, RejectSubmission
<1>2. hs.ip \in Client /\ hs.site \in Site
  BY <1>1, Carries
<1>3. UNCHANGED <<clock, admin, cookies, bans, risks, scored>> /\ Become(h, next)
  BY DEF RejectSubmission
<1>4. clock \in Nat /\ bans' \in [Client -> Nat]
  BY <1>3 DEF IInv, Base
<1>5. next \in HandlerState /\ next.pc = "fail" /\ next.now = clock
  BY <1>2, <1>4 DEF HandlerState
<1> HIDE DEF next
<1>6. HandlerInv(next, clock, verification, cookies)
  BY <1>4, <1>5 DEF HandlerInv
<1> QED BY <1>3, <1>4, <1>6, TakeUp

LEMMA AddRiskOK ==
  ASSUME IInv, NEW h \in Handler, AddRisk(h)
  PROVE  IInv'
<1> DEFINE hs == handlers[h]
           k == <<hs.ip, hs.site>>
           live == DOMAIN risks
           e == Entry(k, live, hs.now)
           r == [e EXCEPT !.score = Plus(e.score, FailurePoints)]
           next == IF r.score >= BanAt THEN [pc |-> "ban", ip |-> hs.ip] ELSE Idle
<1>1. hs \in HandlerState /\ hs.pc = "fail" /\ hs.now <= clock
  BY DEF IInv, HandlersInv, HandlerInv, AddRisk
<1>2. hs.ip \in Client /\ hs.now \in Nat /\ k \in Key
  BY <1>1, Carries DEF Key
<1>3. UNCHANGED <<clock, admin, cookies, bans>>
  BY DEF AddRisk
<1>4. CASE Room(k, live)
  <2>1. Store(k, e, r, live) /\ Become(h, next)
    BY <1>4 DEF AddRisk
  <2>2. EntryInv(e, scored[k], clock, verification)
    BY <1>1, <1>2, EntryOK DEF IInv
  <2>3. clock \in Nat /\ verification \in BOOLEAN /\ scored[k] \in Nat
    BY <1>2 DEF IInv, Base
  <2> HIDE DEF e
  <2>4. EntryInv(r, PointsSince(e, r, scored[k], clock), clock, verification)
    BY <2>2, <2>3, FailedOK
  <2> HIDE DEF r
  <2>5. HandlerInv(next, clock, verification, cookies)
    BY <1>2, BanOK, IdleOK
  <2> HIDE DEF hs, k, live, next
  <2>6. live \in SUBSET DOMAIN risks
    BY DEF live
  <2> QED BY <1>2, <1>3, <1>4, <2>1, <2>4, <2>5, <2>6, ScoreAndBecome
<1>5. CASE ~Room(k, live)
  <2>1. UNCHANGED <<risks, scored>> /\ Become(h, Idle)
    BY <1>5 DEF AddRisk
  <2>2. bans' \in [Client -> Nat]
    BY <1>3 DEF IInv, Base
  <2> QED BY <1>3, <2>1, <2>2, IdleOK, TakeUp
<1> QED BY <1>4, <1>5

LEMMA AcceptSubmissionOK ==
  ASSUME IInv, NEW h \in Handler, AcceptSubmission(h)
  PROVE  IInv'
<1> DEFINE hs == handlers[h]
           live == DOMAIN risks \ {<<hs.ip, hs.site>>}
           cookie == [site |-> hs.site, ip |-> hs.ip, expires_at |-> clock + CookieTTL]
<1>1. hs \in HandlerState /\ hs.pc = "submit"
  BY DEF IInv, HandlersInv, AcceptSubmission
<1>2. hs.ip \in Client /\ hs.site \in Site
  BY <1>1, Carries
<1>3. /\ UNCHANGED <<clock, admin, bans>> /\ Keep(live) /\ Become(h, Idle)
      /\ cookies' = cookies \cup {cookie}
  BY DEF AcceptSubmission
<1>4. clock \in Nat /\ cookies \subseteq Cookie
  BY DEF IInv, Base
<1>5. cookie \in Cookie
  BY <1>2, <1>4, ConfigAssumption DEF Cookie, ConfigAssumption
<1>6. cookies \subseteq cookies' /\ cookies' \subseteq Cookie
  BY <1>3, <1>4, <1>5
<1> HIDE DEF live
<1>7. live \in SUBSET DOMAIN risks
  BY DEF live
<1> QED BY <1>3, <1>6, <1>7, IdleOK, KeepAndBecome

LEMMA IgnoreSubmissionOK ==
  ASSUME IInv, NEW h \in Handler, IgnoreSubmission(h)
  PROVE  IInv'
<1>1. UNCHANGED <<clock, admin, cookies, bans, risks, scored>> /\ Become(h, Idle)
  BY DEF IgnoreSubmission
<1>2. bans' \in [Client -> Nat]
  BY <1>1 DEF IInv, Base
<1> QED BY <1>1, <1>2, IdleOK, TakeUp

LEMMA BanStepOK ==
  ASSUME IInv, NEW h \in Handler, Ban(h)
  PROVE  IInv'
<1>1. /\ UNCHANGED <<clock, admin, cookies, risks, scored>> /\ Become(h, Idle)
      /\ bans' = [bans EXCEPT ![handlers[h].ip] = clock + BanDuration]
  BY DEF Ban
<1>2. clock + BanDuration \in Nat
  BY ConfigAssumption DEF ConfigAssumption, IInv, Base
<1>3. bans' \in [Client -> Nat]
  BY <1>1, <1>2 DEF IInv, Base
<1> QED BY <1>1, <1>3, IdleOK, TakeUp

LEMMA EditOK == ASSUME IInv, Edit PROVE IInv'
<1>1. UNCHANGED <<clock, verification, cookies, bans, risks, handlers, scored>>
  BY DEF Edit
<1>2. Base'
  BY <1>1 DEF IInv, Base, Edit
<1>3. RisksInv'
  BY <1>1, RisksLater DEF IInv, Base
<1>4. HandlersInv'
  BY <1>1 DEF IInv, HandlersInv
<1> QED BY <1>2, <1>3, <1>4 DEF IInv

LEMMA RestartOK == ASSUME IInv, Restart PROVE IInv'
<1>1. /\ UNCHANGED <<clock, enabled, inline, whitelist, cookies, bans, scored>>
      /\ verification' \in BOOLEAN
      /\ risks' = [k \in {} |-> risks[k]]
      /\ handlers' = [h \in Handler |-> Idle]
  BY DEF Restart
<1>2. Base'
  BY <1>1 DEF IInv, Base
<1>3. RisksInv'
  <2>1. DOMAIN risks' = {} /\ risks' \in [{} -> RiskState]
    BY <1>1
  <2>2. IsFiniteSet({}) /\ Cardinality({}) = 0
    BY FS_EmptySet
  <2> QED BY <2>1, <2>2, ConfigAssumption DEF RisksInv, ConfigAssumption
<1>4. HandlersInv'
  <2>1. \A h \in Handler : handlers'[h] = Idle
    BY <1>1
  <2>2. handlers' \in [Handler -> HandlerState]
    BY <1>1 DEF HandlerState, Idle
  <2> QED BY <2>1, <2>2, IdleOK DEF HandlersInv
<1> QED BY <1>2, <1>3, <1>4 DEF IInv

\* Time passes, or nothing at all.
LEMMA LaterOK ==
  ASSUME IInv, clock' \in Nat, clock' >= clock,
         UNCHANGED <<admin, cookies, bans, risks, handlers, scored>>
  PROVE  IInv'
<1>1. Base'
  BY DEF IInv, Base, admin
<1>2. RisksInv'
  BY RisksLater DEF IInv, admin
<1>3. HandlersInv'
  <2>1. clock \in Nat /\ verification \in BOOLEAN /\ verification' = verification
    BY DEF IInv, Base, admin
  <2>2. ASSUME NEW h \in Handler
        PROVE  HandlerInv(handlers[h], clock', verification, cookies)
    BY <2>1, HandlerLater DEF IInv, HandlersInv
  <2> QED BY <2>1, <2>2 DEF IInv, HandlersInv
<1> QED BY <1>1, <1>2, <1>3 DEF IInv

LEMMA StepOK == ASSUME IInv, [Next]_vars PROVE IInv'
<1>1. CASE Arrive
  BY <1>1, ArriveRefusedOK, ArriveSubmitOK, ArriveAdmittedOK, ArriveObservedOK DEF Arrive
<1>2. CASE \E h \in Handler : HandlerStep(h)
  <2>1. PICK h \in Handler : HandlerStep(h)
    BY <1>2
  <2>2. CASE ObserveRequest(h)
    BY <2>2, ObserveRequestOK
  <2>3. CASE \E not_found \in BOOLEAN : Respond(h, not_found)
    BY <2>3, RespondOK
  <2>4. CASE ObserveResponse(h)
    BY <2>4, ObserveResponseOK
  <2>5. CASE RejectSubmission(h) \/ AddRisk(h) \/ AcceptSubmission(h) \/ IgnoreSubmission(h)
    BY <2>5, RejectSubmissionOK, AddRiskOK, AcceptSubmissionOK, IgnoreSubmissionOK
  <2>6. CASE Ban(h)
    BY <2>6, BanStepOK
  <2> QED BY <2>1, <2>2, <2>3, <2>4, <2>5, <2>6 DEF HandlerStep
<1>3. CASE Edit
  BY <1>3, EditOK
<1>4. CASE Restart
  BY <1>4, RestartOK
<1>5. CASE Tick
  <2>1. /\ clock' = clock + 1
        /\ UNCHANGED <<admin, cookies, bans, risks, handlers, scored>>
    BY <1>5 DEF Tick
  <2>2. clock \in Nat
    BY DEF IInv, Base
  <2>3. clock' \in Nat /\ clock' >= clock
    BY <2>1, <2>2
  <2> QED BY <2>1, <2>3, LaterOK
<1>6. CASE UNCHANGED vars
  <2>1. clock' = clock /\ UNCHANGED <<admin, cookies, bans, risks, handlers, scored>>
    BY <1>6 DEF vars
  <2>2. clock' \in Nat /\ clock' >= clock
    BY <2>1 DEF IInv, Base
  <2> QED BY <2>1, <2>2, LaterOK
<1> QED BY <1>1, <1>2, <1>3, <1>4, <1>5, <1>6 DEF Next

LEMMA Invariance == Spec => []IInv
<1>1. Init => IInv
  BY InitOK
<1>2. IInv /\ [Next]_vars => IInv'
  BY StepOK
<1> QED BY <1>1, <1>2, PTL DEF Spec

---------------------------------------------------------------------------
(* The theorems.                                                            *)

\* Every variable keeps its type; the map of entries and the paths of an entry
\* keep their caps (MAX_RISK_ENTRIES, MAX_PATHS_PER_RISK_ENTRY).
THEOREM TypeCorrect == Spec => []TypeOK
<1>1. IInv => TypeOK
  BY DEF IInv, Base, RisksInv, HandlersInv, EntryInv, TypeOK
<1> QED BY <1>1, Invariance, PTL

\* While verification is on, a request reaches a protected upstream only with a
\* cookie of its site and address, whatever is paused, whitelisted or scored
\* while it is under way (handle_request).
THEOREM OnlyVerifiedReachUpstream == Spec => []OnlyVerifiedForwarded
<1>1. IInv => OnlyVerifiedForwarded
  BY DEF IInv, HandlersInv, HandlerInv, OnlyVerifiedForwarded
<1> QED BY <1>1, Invariance, PTL

\* The points of an entry are younger than a window when it is scored, for any
\* order of clock readings and lock sections (observe_request, observe_response,
\* add_risk).
THEOREM ScoresAreRecent == Spec => []PointsAreRecent
<1>1. ASSUME IInv, NEW k \in DOMAIN risks, risks[k].score > 0
      PROVE  risks[k].last_seen < scored[k] + Window
  <2>1. EntryInv(risks[k], scored[k], clock, verification) /\ k \in Key
    BY <1>1 DEF IInv, RisksInv
  <2>2. /\ risks[k].window_started \in Nat /\ risks[k].last_seen \in Nat
        /\ risks[k].window_started <= scored[k]
        /\ risks[k].last_seen < risks[k].window_started + Window
    BY <1>1, <2>1 DEF EntryInv, RiskState
  <2>3. scored[k] \in Nat
    BY <1>1, <2>1 DEF IInv, Base
  <2> QED BY <2>2, <2>3, ConfigAssumption DEF ConfigAssumption
<1>2. IInv => PointsAreRecent
  BY <1>1 DEF PointsAreRecent
<1> QED BY <1>2, Invariance, PTL

\* With verification on no 404 is ever counted: what handle_request scores after
\* the upstream answered is only ever traffic of a gate without verification.
THEOREM NoNotFoundIsCounted == Spec => []NoNotFoundWhileVerifying
<1>1. IInv => NoNotFoundWhileVerifying
  BY DEF IInv, RisksInv, EntryInv, NoNotFoundWhileVerifying
<1> QED BY <1>1, Invariance, PTL

\* With verification on the == of observe_request misses nothing: an entry past
\* the number of distinct paths has the points for it.
THEOREM DiversityScored == Spec => []DiversityScoredOnArrival
<1>1. ASSUME IInv, verification, NEW k \in DOMAIN risks,
             Cardinality(risks[k].distinct_paths) > MaxPaths
      PROVE  risks[k].score >= DiversityPoints
  <2>1. EntryInv(risks[k], scored[k], clock, verification)
    BY <1>1 DEF IInv, RisksInv
  <2>2. Cardinality(risks[k].distinct_paths) \in Nat
    BY <2>1, FS_CardinalityType DEF EntryInv
  <2> QED BY <1>1, <2>1, <2>2, ConfigAssumption DEF EntryInv, ConfigAssumption
<1>2. IInv => DiversityScoredOnArrival
  BY <1>1 DEF DiversityScoredOnArrival, DiversityIsScored
<1> QED BY <1>2, Invariance, PTL
===========================================================================
