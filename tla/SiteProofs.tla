----------------------------- MODULE SiteProofs -----------------------------
(***************************************************************************)
(* Proofs about Site for any number of runs, packages, diagrams, versions  *)
(* of the terms and acceptances.                                           *)
(***************************************************************************)
EXTENDS Site, FiniteSums, FiniteSetTheorems, TLAPS

-----------------------------------------------------------------------------
(* Consent.                                                                *)

\* One revision serves, or two during a rollout.
ServingInv ==
  /\ deployed \in Nat /\ serving \subseteq Nat
  /\ serving \in {{deployed}, {deployed - 1, deployed}}

LogInv ==
  /\ log \in Seq(Nat) /\ pointer \in Nat
  /\ NewestOnRecord /\ pointer <= deployed

\* A banner is on a page with the shell alone; the script is never newer than
\* the server.
BannerInv ==
  /\ bundle \in Nat /\ bundle <= deployed
  /\ banner # "none" => page \in Shell
  /\ NoBannerWhenAccepted

ConsentInv == ServingInv /\ LogInv /\ BannerInv

\* An acceptance of a revision that serves is the newest row of the log.
Records == \E v \in serving : recordConsent(v)

LEMMA RecordKeepsLog ==
  ASSUME ServingInv, LogInv, Records, UNCHANGED deployed
  PROVE  LogInv' /\ Len(log') > Len(log) /\ Last(log') = pointer'
<1>1. PICK v \in serving : log' = Append(log, v) /\ pointer' = v
  BY DEF Records, recordConsent
<1>2. v \in Nat /\ v <= deployed
  BY DEF ServingInv
<1>3. log' \in Seq(Nat) /\ Len(log') = Len(log) + 1 /\ log'[Len(log')] = v /\ Len(log) \in Nat
  BY <1>1, <1>2 DEF LogInv
<1>4. log' # <<>>
  BY <1>3
<1>5. Last(log') = v
  BY <1>3 DEF Last
<1>6. QED
  BY <1>1, <1>2, <1>3, <1>4, <1>5 DEF LogInv, NewestOnRecord

\* A page that is loaded shows no banner yet.
LEMMA MountHidesBanner ==
  ASSUME NEW p, NEW r, Mount(p, r), bundle' \in Nat, bundle' <= deployed'
  PROVE  BannerInv' /\ banner' \in {"none", "loading"}
BY DEF Mount, BannerInv, NoBannerWhenAccepted

LEMMA ServedScript ==
  ASSUME ServingInv, NEW v \in serving
  PROVE  v \in Nat /\ v <= deployed
BY DEF ServingInv

LEMMA VisitKeepsConsent ==
  ASSUME ConsentInv, NEW p, NEW r, Visit(p, r)
  PROVE  ConsentInv' /\ UNCHANGED <<log, pointer>> /\ banner' # "accepted"
<1>1. PICK q : Mount(q, r)
  BY DEF Visit
<1>2. UNCHANGED <<log, pointer, deployed, serving>>
  BY DEF Visit, serverVars, revisions
<1>3. ServingInv' /\ LogInv'
  BY <1>2 DEF ConsentInv, LogInv, ServingInv, NewestOnRecord
<1>4. bundle' \in Nat /\ bundle' <= deployed'
  BY <1>2, ServedScript DEF Visit, ConsentInv, BannerInv
<1>5. QED
  BY <1>1, <1>2, <1>3, <1>4, MountHidesBanner DEF ConsentInv

LEMMA LoadHidesBanner ==
  ASSUME NEW p, NEW r, Load(p, r), ServingInv, UNCHANGED deployed
  PROVE  BannerInv' /\ banner' # "accepted"
<1>1. PICK q : Mount(q, r)
  BY DEF Load
<1>2. bundle' \in Nat /\ bundle' <= deployed'
  BY ServedScript DEF Load
<1>3. QED
  BY <1>1, <1>2, MountHidesBanner

LEMMA RestKeepsServing ==
  ASSUME ServingInv, UNCHANGED revisions
  PROVE  ServingInv' /\ UNCHANGED deployed
BY DEF ServingInv, revisions

LEMMA RestKeepsLog ==
  ASSUME LogInv, UNCHANGED <<log, pointer, deployed>>
  PROVE  LogInv'
BY DEF LogInv, NewestOnRecord

\* The log moves when an acceptance is recorded, and nobody is told before.
LogMoves ==
  /\ (Records /\ UNCHANGED revisions) \/ UNCHANGED <<log, pointer>>
  /\ banner = "saving" /\ banner' = "accepted" => Records /\ UNCHANGED <<revisions, bundle>>

LEMMA ConsentStep == ConsentInv /\ [Next]_vars => ConsentInv' /\ LogMoves
<1> SUFFICES ASSUME ConsentInv, [Next]_vars PROVE ConsentInv' /\ LogMoves
  OBVIOUS
<1> USE DEF ConsentInv, LogMoves
<1>1. CASE \E p \in Linked \ {"checkout"} : Visit(p, NoRun)
  BY <1>1, VisitKeepsConsent
<1>2. CASE \E p \in RunPages \cup {"checkout"}, r \in Runs : Visit(p, r)
  BY <1>2, VisitKeepsConsent
<1>3. CASE SignIn
  <2>1. UNCHANGED revisions
    BY <1>3 DEF SignIn
  <2>2. ServingInv' /\ UNCHANGED deployed
    BY <2>1, RestKeepsServing
  <2>3. Records \/ UNCHANGED <<log, pointer>>
    BY <1>3 DEF SignIn, TryConsent, ConsentFails, Records
  <2>4. LogInv'
    BY <2>2, <2>3, RecordKeepsLog, RestKeepsLog
  <2>5. Mount("dashboard", NoRun) /\ bundle' \in serving
    BY <1>3 DEF SignIn
  <2>6. BannerInv' /\ banner' # "accepted"
    BY <2>2, <2>5, ServedScript, MountHidesBanner
  <2>7. QED
    BY <2>1, <2>2, <2>3, <2>4, <2>6
<1>4. CASE SignInRefused \/ SignOut
  <2>1. UNCHANGED <<log, pointer, revisions>> /\ bundle' \in serving
        /\ \E p \in {"unauthorized", "home"} : Mount(p, NoRun)
    BY <1>4 DEF SignInRefused, SignOut, serverVars
  <2>2. ServingInv' /\ UNCHANGED deployed
    BY <2>1, RestKeepsServing
  <2>3. LogInv'
    BY <2>1, <2>2, RestKeepsLog
  <2>4. BannerInv' /\ banner' # "accepted"
    BY <2>1, <2>2, ServedScript, MountHidesBanner
  <2>5. QED
    BY <2>1, <2>2, <2>3, <2>4
<1>5. CASE BannerLoads
  <2>1. UNCHANGED <<log, pointer, revisions, bundle, page>> /\ banner = "loading"
    BY <1>5 DEF BannerLoads, serverVars
  <2>2. banner' = "hidden" => pointer = bundle
    BY <1>5 DEF BannerLoads, needsReconsent
  <2>3. banner' # "accepted"
    BY <1>5 DEF BannerLoads
  <2>4. ServingInv' /\ UNCHANGED deployed
    BY <2>1, RestKeepsServing
  <2>5. LogInv'
    BY <2>1, <2>4, RestKeepsLog
  <2>6. BannerInv'
    BY <2>1, <2>2, <2>4 DEF BannerInv, NoBannerWhenAccepted
  <2>7. QED
    BY <2>1, <2>3, <2>4, <2>5, <2>6
<1>6. CASE Accept
  <2>1. UNCHANGED <<log, pointer, revisions, bundle, page>> /\ banner = "shown"
        /\ banner' = "saving"
    BY <1>6 DEF Accept, serverVars
  <2>2. ServingInv' /\ UNCHANGED deployed
    BY <2>1, RestKeepsServing
  <2>3. LogInv' /\ BannerInv'
    BY <2>1, <2>2, RestKeepsLog DEF BannerInv, NoBannerWhenAccepted
  <2>4. QED
    BY <2>1, <2>2, <2>3
<1>7. CASE AcceptEnds
  <2>1. UNCHANGED <<revisions, bundle, page>> /\ banner' \in {"shown", "accepted"}
        /\ banner = "saving"
    BY <1>7 DEF AcceptEnds
  <2>2. Records \/ (banner' = "shown" /\ UNCHANGED <<log, pointer>>)
    BY <1>7 DEF AcceptEnds, ConsentFails, Records
  <2>3. ServingInv' /\ UNCHANGED deployed
    BY <2>1, RestKeepsServing
  <2>4. LogInv'
    BY <2>2, <2>3, RecordKeepsLog, RestKeepsLog
  <2>5. BannerInv'
    BY <2>1, <2>3 DEF BannerInv, NoBannerWhenAccepted
  <2>6. QED
    BY <2>1, <2>2, <2>3, <2>4, <2>5
<1>8. CASE BriefAnswered \/ CheckoutAnswered \/ StripePaid
  <2>1. UNCHANGED <<log, pointer, revisions>> /\ \E p, r : Load(p, r)
    BY <1>8 DEF BriefAnswered, CheckoutAnswered, StripePaid, serverVars
  <2>2. ServingInv' /\ UNCHANGED deployed
    BY <2>1, RestKeepsServing
  <2>3. LogInv'
    BY <2>1, <2>2, RestKeepsLog
  <2>4. BannerInv' /\ banner' # "accepted"
    BY <2>1, <2>2, LoadHidesBanner
  <2>5. QED
    BY <2>1, <2>2, <2>3, <2>4
<1>9. CASE PostCheckout
  <2>1. Records \/ UNCHANGED <<log, pointer>>
    BY <1>9 DEF PostCheckout, Consent, TryConsent, ConsentFails, Records
  <2>2. UNCHANGED <<revisions, bundle, banner, page>> /\ page = "checkout"
    BY <1>9 DEF PostCheckout
  <2>3. ServingInv' /\ UNCHANGED deployed
    BY <2>2, RestKeepsServing
  <2>4. LogInv'
    BY <2>1, <2>3, RecordKeepsLog, RestKeepsLog
  <2>5. banner = "none"
    BY <2>2 DEF BannerInv, Shell, RunPages
  <2>6. BannerInv'
    BY <2>2, <2>3, <2>5 DEF BannerInv, NoBannerWhenAccepted
  <2>7. QED
    BY <2>1, <2>2, <2>3, <2>4, <2>5, <2>6
<1>10. CASE StripeCanceled
  BY <1>10, VisitKeepsConsent DEF StripeCanceled
<1>11. CASE \E r \in Mine : ClickCard(r)
  BY <1>11, VisitKeepsConsent DEF ClickCard
<1>12. CASE Deploy \/ Retire
  <2>1. UNCHANGED <<log, pointer, bundle, banner, page>>
    BY <1>12 DEF Deploy, Retire, tabVars
  <2>2. ServingInv' /\ deployed <= deployed' /\ deployed' \in Nat
    <3>1. CASE Deploy
      <4>1. serving = {deployed} /\ deployed' = deployed + 1
            /\ serving' = serving \cup {deployed + 1}
        BY <3>1 DEF Deploy
      <4>2. QED
        BY <4>1 DEF ServingInv
    <3>2. CASE Retire
      BY <3>2 DEF Retire, ServingInv
    <3>3. QED
      BY <1>12, <3>1, <3>2
  <2>3. deployed \in Nat
    BY DEF ServingInv
  <2>4. LogInv' /\ BannerInv'
    BY <2>1, <2>2, <2>3 DEF LogInv, BannerInv, NewestOnRecord, NoBannerWhenAccepted
  <2>5. QED
    BY <2>1, <2>2, <2>4
<1>13. CASE UNCHANGED <<log, pointer, revisions, bundle, page, banner>>
  <2>1. ServingInv' /\ UNCHANGED deployed
    BY <1>13, RestKeepsServing
  <2>2. LogInv' /\ BannerInv'
    BY <1>13, <2>1, RestKeepsLog DEF BannerInv, NoBannerWhenAccepted
  <2>3. QED
    BY <1>13, <2>1, <2>2
<1>14. QED
  <2>1. CASE SessionExpires \/ ListArrives \/ Send \/ PostRuns \/ RequestFails
    BY <2>1, <1>13 DEF SessionExpires, ListArrives, Send, PostRuns, RequestFails, serverVars
  <2>2. CASE \E f \in {"completed", "in_progress", "failed", "all"} : SetFilter(f)
    BY <2>2, <1>13 DEF SetFilter, serverVars
  <2>3. CASE \E t \in Texts : Type(t)
    BY <2>3, <1>13 DEF Type, serverVars
  <2>4. CASE \E r \in Mine : WorkerStarts(r) \/ WorkerEnds(r)
    BY <2>4, <1>13 DEF WorkerStarts, WorkerEnds, tabVars
  <2>5. CASE UNCHANGED <<serverVars, tabVars>>
    BY <2>5, <1>13 DEF serverVars, tabVars
  <2>6. QED
    BY <1>1, <1>2, <1>3, <1>4, <1>5, <1>6, <1>7, <1>8, <1>9, <1>10, <1>11, <1>12,
       <2>1, <2>2, <2>3, <2>4, <2>5 DEF Next, vars

\* The version on record is of the newest revision or of the one before, which serves.
LEMMA ConsentMoves ==
  ASSUME ConsentInv, LogMoves
  PROVE  GoesBackInRollout /\ SavedIsOnRecord
<1>1. CASE ~Records
  <2>1. UNCHANGED <<log, pointer>> /\ ~(banner = "saving" /\ banner' = "accepted")
    BY <1>1 DEF LogMoves
  <2>2. ~(pointer' < pointer)
    BY <2>1 DEF ConsentInv, LogInv
  <2>3. QED
    BY <2>1, <2>2 DEF GoesBackInRollout, SavedIsOnRecord
<1>2. CASE Records
  <2>1. PICK v \in serving : pointer' = v
    BY <1>2 DEF Records, recordConsent
  <2>2. /\ deployed \in Nat /\ v \in Nat /\ (v = deployed \/ v = deployed - 1)
        /\ v = deployed - 1 => serving = {deployed - 1, deployed}
    BY DEF ConsentInv, ServingInv
  <2>3. pointer \in Nat /\ pointer <= deployed
    BY DEF ConsentInv, LogInv
  <2>4. GoesBackInRollout
    <3>1. SUFFICES ASSUME pointer' < pointer PROVE serving = {pointer', pointer}
      BY DEF GoesBackInRollout
    <3>2. v = deployed - 1 /\ pointer = deployed
      BY <2>1, <2>2, <2>3, <3>1
    <3>3. QED
      BY <2>1, <2>2, <3>2
  <2>5. SavedIsOnRecord
    <3>1. SUFFICES ASSUME banner = "saving", banner' = "accepted"
                   PROVE  /\ Len(log') > Len(log) /\ Last(log') = pointer'
                          /\ pointer' >= bundle \/ serving = {pointer', bundle}
      BY DEF SavedIsOnRecord
    <3>2. UNCHANGED deployed
      BY <3>1 DEF LogMoves, revisions
    <3>3. Len(log') > Len(log) /\ Last(log') = pointer'
      BY <1>2, <3>2, RecordKeepsLog DEF ConsentInv
    <3>4. bundle \in Nat /\ bundle <= deployed
      BY DEF ConsentInv, BannerInv
    <3>5. CASE v >= bundle
      BY <2>1, <3>3, <3>5
    <3>6. CASE ~(v >= bundle)
      <4>1. v = deployed - 1 /\ bundle = deployed
        BY <2>2, <3>4, <3>6
      <4>2. QED
        BY <2>1, <2>2, <3>3, <4>1
    <3>7. QED
      BY <3>5, <3>6
  <2>6. QED
    BY <2>4, <2>5
<1>3. QED
  BY <1>1, <1>2

\* latestTermsVersion is the version of the newest row, whichever of the sign-in, the checkout
\* and the banner records an acceptance and whichever of the revisions that serve in a rollout
\* handles it; the banner never says that all is accepted when it is not; and the version on
\* record goes back, or is the one before the page's, only while both revisions serve.
THEOREM ConsentOnRecord == Spec => ConsentTrail
<1>1. Init => ConsentInv
  <2>1. SUFFICES ASSUME log = <<>>, pointer = 0, deployed = 1, serving = {1}, bundle = deployed,
                        banner = "none"
                 PROVE  ConsentInv
    BY DEF Init
  <2>2. log \in Seq(Nat)
    BY <2>1
  <2>3. QED
    BY <2>1, <2>2
       DEF ConsentInv, ServingInv, LogInv, BannerInv, NewestOnRecord, NoBannerWhenAccepted
<1>2. ConsentInv => NewestOnRecord /\ NoBannerWhenAccepted
  BY DEF ConsentInv, LogInv, BannerInv
<1>3. ConsentInv /\ [Next]_vars => [GoesBackInRollout /\ SavedIsOnRecord]_vars
  BY ConsentStep, ConsentMoves
<1>4. ConsentInv /\ [Next]_vars => ConsentInv'
  BY ConsentStep
<1>5. QED
  BY <1>1, <1>2, <1>3, <1>4, PTL DEF Spec, ConsentTrail

-----------------------------------------------------------------------------
(* What a page offers.                                                     *)

\* A run that has succeeded has its package, and a package is never taken away.
ServerInv ==
  /\ status \in [Runs -> RunStatus] /\ package \in [Runs -> DOMAIN Packages \cup {NoPackage}]
  /\ \A r \in Runs : status[r] = "succeeded" => package[r] # NoPackage

HasPackage(r) == Owns(r) /\ package[r] # NoPackage

CardsInv ==
  /\ \A r \in DOMAIN list.cards :
       /\ Owns(r) /\ list.cards[r] \in {"completed", "in_progress", "failed"}
       /\ list.cards[r] = "completed" => package[r] # NoPackage
  /\ ~list.loaded => filter = "all" /\ DOMAIN list.cards = {}
  /\ DOMAIN list.cards # {} => Filtered(filter) # {}

TabInv == CardsInv /\ (page = "decide" => HasPackage(shown))

LinksInv == ServerInv /\ TabInv

\* Whatever happens to the rows, a run stays and a package stays.
Keeps ==
  /\ \A r \in Mine : status[r] # "none" => status'[r] # "none"
  /\ \A r \in Mine : package[r] # NoPackage => package'[r] # NoPackage

LEMMA TabStays ==
  ASSUME TabInv, Keeps, UNCHANGED <<page, list, filter>>, shown' = shown \/ page # "decide"
  PROVE  TabInv'
<1>1. \A r : Owns(r) => Owns(r)'
  BY DEF Owns, Keeps
<1>2. \A f : Filtered(f) = Filtered(f)'
  BY DEF Filtered
<1>3. CardsInv'
  <2>1. \A r \in DOMAIN list'.cards :
          /\ Owns(r)' /\ list'.cards[r] \in {"completed", "in_progress", "failed"}
          /\ list'.cards[r] = "completed" => package'[r] # NoPackage
    BY <1>1 DEF TabInv, CardsInv, Owns, Keeps
  <2>2. QED
    BY <1>2, <2>1 DEF TabInv, CardsInv
<1>4. (page = "decide" => HasPackage(shown))'
  BY <1>1 DEF TabInv, HasPackage, Owns, Keeps
<1>5. QED
  BY <1>3, <1>4 DEF TabInv

LEMMA MountStartsAfresh ==
  ASSUME NEW p, NEW r, Mount(p, r), p = "decide" => HasPackage(r)'
  PROVE  TabInv'
<1>1. CardsInv'
  <2>1. list'.cards = <<>> /\ ~list'.loaded /\ filter' = "all"
    BY DEF Mount, NotLoaded
  <2>2. DOMAIN list'.cards = {}
    BY <2>1
  <2>3. QED
    BY <2>1, <2>2 DEF CardsInv
<1>2. QED
  BY <1>1 DEF Mount, TabInv, RunPages

\* The package page opens for its owner alone, and when there is a package.
LEMMA DecideHasPackage ==
  ASSUME NEW p, NEW r, NEW cookie, "decide" \in LandsOn(p, r, cookie)
  PROVE  HasPackage(r)
BY DEF LandsOn, HasPackage, PROTECTED_PREFIXES, RunPages

LEMMA VisitKeepsLinks ==
  ASSUME LinksInv, NEW p, NEW r, Visit(p, r)
  PROVE  LinksInv'
<1>1. PICK q \in LandsOn(p, r, session) : Mount(q, r)
  BY DEF Visit
<1>2. UNCHANGED <<status, package>>
  BY DEF Visit, serverVars
<1>3. q = "decide" => HasPackage(r)'
  BY <1>1, <1>2, DecideHasPackage DEF HasPackage, Owns
<1>4. QED
  BY <1>1, <1>2, <1>3, MountStartsAfresh DEF LinksInv, ServerInv

\* No other page leads to the package page.
LEMMA LoadKeepsLinks ==
  ASSUME ServerInv', NEW p, NEW r, Load(p, r), p # "decide"
  PROVE  LinksInv'
<1>1. PICK q \in LandsOn(p, r, session) : Mount(q, r)
  BY DEF Load
<1>2. CASE q # "decide"
  BY <1>1, <1>2, MountStartsAfresh DEF LinksInv
<1>3. CASE q = "decide"
  <2>1. p \in RunPages /\ p # "run"
    BY <1>1, <1>3 DEF LandsOn
  <2>2. QED
    BY <2>1 DEF RunPages
<1>4. QED
  BY <1>2, <1>3

\* A run that is waived becomes queued or stays pending.
LEMMA WaiveKeeps ==
  ASSUME ServerInv, NEW r, Waive(r), UNCHANGED package
  PROVE  ServerInv' /\ Keeps
<1>1. status' = [status EXCEPT ![r] = "queued"] \/ status' = [status EXCEPT ![r] = "pending"]
  BY DEF Waive
<1>2. status' \in [Runs -> RunStatus]
  BY <1>1 DEF ServerInv, RunStatus
<1>3. \A s \in Runs : status'[s] = status[s] \/ status'[s] \in {"queued", "pending"}
  BY <1>1 DEF ServerInv
<1>4. QED
  BY <1>2, <1>3 DEF ServerInv, Keeps, Runs

LEMMA StatusKeeps ==
  ASSUME ServerInv, NEW r, NEW s \in RunStatus \ {"none", "succeeded"},
         status' = [status EXCEPT ![r] = s], UNCHANGED package
  PROVE  ServerInv' /\ Keeps
<1>1. status' \in [Runs -> RunStatus]
  BY DEF ServerInv
<1>2. \A q \in Runs : status'[q] = status[q] \/ status'[q] = s
  BY DEF ServerInv
<1>3. QED
  BY <1>1, <1>2 DEF ServerInv, Keeps, Runs

LEMMA UnchangedKeeps ==
  ASSUME ServerInv, UNCHANGED <<status, package>>
  PROVE  ServerInv' /\ Keeps
BY DEF ServerInv, Keeps

LEMMA LinksStep == LinksInv /\ [Next]_vars => LinksInv'
<1> SUFFICES ASSUME LinksInv, [Next]_vars PROVE LinksInv'
  OBVIOUS
<1> USE DEF LinksInv
<1>1. CASE \E p \in Linked \ {"checkout"} : Visit(p, NoRun)
  BY <1>1, VisitKeepsLinks
<1>2. CASE \E p \in RunPages \cup {"checkout"}, r \in Runs : Visit(p, r)
  BY <1>2, VisitKeepsLinks
<1>3. CASE SignIn \/ SignInRefused \/ SignOut
  <2>1. ServerInv' /\ \E p \in {"dashboard", "unauthorized", "home"} : Mount(p, NoRun)
    BY <1>3, UnchangedKeeps DEF SignIn, SignInRefused, SignOut, serverVars
  <2>2. QED
    BY <2>1, MountStartsAfresh
<1>4. CASE SessionExpires \/ BannerLoads \/ Accept \/ AcceptEnds \/ Send \/ RequestFails
  <2>1. UNCHANGED <<status, package, page, list, filter>>
    BY <1>4 DEF SessionExpires, BannerLoads, Accept, AcceptEnds, Send, RequestFails, serverVars
  <2>2. shown' = shown \/ page # "decide"
    BY <1>4 DEF SessionExpires, BannerLoads, Accept, AcceptEnds, Send, RequestFails
  <2>3. QED
    BY <2>1, <2>2, UnchangedKeeps, TabStays
<1>5. CASE \E t \in Texts : Type(t)
  BY <1>5, UnchangedKeeps, TabStays DEF Type, serverVars
<1>6. CASE ListArrives
  <2>1. UNCHANGED <<status, package, page, shown, filter>> /\ list'.loaded /\ page = "dashboard"
        /\ filter = "all"
    BY <1>6 DEF ListArrives, serverVars, NotLoaded, TabInv, CardsInv
  <2>2. CASE list' = [NotLoaded EXCEPT !.loaded = TRUE]
    <3>1. list'.cards = <<>>
      BY <2>2 DEF NotLoaded
    <3>2. DOMAIN list'.cards = {}
      BY <3>1
    <3>3. QED
      BY <2>1, <3>2, UnchangedKeeps DEF TabInv, CardsInv
  <2>3. CASE list' = [loaded |-> TRUE,
                      cards |-> [r \in {m \in Mine : status[m] # "none"} |-> mapStatus(status[r])]]
    <3>1. /\ DOMAIN list'.cards = {m \in Mine : status[m] # "none"}
          /\ \A r \in DOMAIN list'.cards : list'.cards[r] = mapStatus(status[r])
      BY <2>3
    <3>2. \A r \in DOMAIN list'.cards :
            /\ Owns(r)' /\ list'.cards[r] \in {"completed", "in_progress", "failed"}
            /\ list'.cards[r] = "completed" => package'[r] # NoPackage
      BY <2>1, <3>1 DEF mapStatus, Owns, ServerInv, Runs
    <3>3. DOMAIN list'.cards # {} => Filtered(filter)' # {}
      BY <2>1 DEF Filtered
    <3>4. QED
      BY <2>1, <3>2, <3>3, UnchangedKeeps DEF TabInv, CardsInv
  <2>4. QED
    BY <1>6, <2>2, <2>3 DEF ListArrives
<1>7. CASE \E f \in {"completed", "in_progress", "failed", "all"} : SetFilter(f)
  <2>1. PICK f \in {"completed", "in_progress", "failed", "all"} : SetFilter(f)
    BY <1>7
  <2>2. /\ UNCHANGED <<status, package, page, shown, list>> /\ page = "dashboard"
        /\ DOMAIN list.cards # {} /\ f \in Tabs /\ filter' = f
    BY <2>1 DEF SetFilter, serverVars
  <2>3. Filtered(f) # {}
    BY <2>2 DEF Tabs, Filtered
  <2>4. Filtered(filter)' # {}
    BY <2>2, <2>3 DEF Filtered
  <2>5. list'.loaded
    BY <2>2 DEF TabInv, CardsInv
  <2>6. QED
    BY <2>2, <2>4, <2>5, UnchangedKeeps DEF TabInv, CardsInv, Owns
<1>8. CASE \E r \in Mine : ClickCard(r)
  BY <1>8, VisitKeepsLinks DEF ClickCard
<1>9. CASE PostRuns
  <2>1. UNCHANGED <<page, list, filter, package>> /\ page = "brief"
    BY <1>9 DEF PostRuns
  <2>2. CASE UNCHANGED status
    BY <2>1, <2>2, UnchangedKeeps, TabStays
  <2>3. CASE \E r \in Mine, v \in serving : createRun(r, v)
    <3>1. PICK r \in Mine, v \in serving : createRun(r, v)
      BY <2>3
    <3>2. CASE status' = [status EXCEPT ![r] = "pending"]
      BY <3>2, <2>1, StatusKeeps, TabStays DEF RunStatus
    <3>3. CASE Waive(r)
      BY <3>3, <2>1, WaiveKeeps, TabStays
    <3>4. QED
      BY <3>1, <3>2, <3>3 DEF createRun
  <2>4. QED
    BY <1>9, <2>2, <2>3 DEF PostRuns
<1>10. CASE PostCheckout
  <2>1. UNCHANGED <<page, shown, list, filter, package>>
    BY <1>10 DEF PostCheckout
  <2>2. UNCHANGED status \/ Waive(shown)
    BY <1>10 DEF PostCheckout, Charge
  <2>3. QED
    BY <2>1, <2>2, UnchangedKeeps, WaiveKeeps, TabStays
<1>11. CASE BriefAnswered \/ CheckoutAnswered
  <2>1. ServerInv' /\ \E p \in {"signin", "run", "stripe"}, r \in {NoRun, shown} : Load(p, r)
    BY <1>11, UnchangedKeeps DEF BriefAnswered, CheckoutAnswered, serverVars
  <2>2. QED
    BY <2>1, LoadKeepsLinks
<1>12. CASE StripePaid
  <2>1. ServerInv'
    BY <1>12, StatusKeeps DEF StripePaid, RunStatus
  <2>2. QED
    BY <1>12, <2>1, LoadKeepsLinks DEF StripePaid
<1>13. CASE StripeCanceled
  BY <1>13, VisitKeepsLinks DEF StripeCanceled
<1>14. CASE \E r \in Mine : WorkerStarts(r)
  BY <1>14, StatusKeeps, TabStays DEF WorkerStarts, RunStatus, tabVars
<1>15. CASE \E r \in Mine : WorkerEnds(r)
  <2>1. PICK r \in Mine : WorkerEnds(r)
    BY <1>15
  <2>2. CASE status' = [status EXCEPT ![r] = "failed"] /\ UNCHANGED package
    BY <2>1, <2>2, StatusKeeps, TabStays DEF WorkerEnds, RunStatus, tabVars
  <2>3. CASE /\ status' = [status EXCEPT ![r] = "succeeded"]
             /\ \E p \in DOMAIN Packages : package' = [package EXCEPT ![r] = p]
    <3>1. PICK p \in DOMAIN Packages : package' = [package EXCEPT ![r] = p]
      BY <2>3
    <3>2. p # NoPackage
      BY PackagesAssumption
    <3>3. r \in Runs
      BY DEF Runs
    <3>4. status' \in [Runs -> RunStatus] /\ package' \in [Runs -> DOMAIN Packages \cup {NoPackage}]
      BY <2>3, <3>1 DEF ServerInv, RunStatus
    <3>5. /\ status'[r] = "succeeded" /\ package'[r] = p
          /\ \A q \in Runs \ {r} : status'[q] = status[q] /\ package'[q] = package[q]
      BY <2>3, <3>1, <3>3 DEF ServerInv
    <3>6. ServerInv' /\ Keeps
      BY <3>2, <3>3, <3>4, <3>5 DEF ServerInv, Keeps, Runs
    <3>7. QED
      BY <2>1, <3>6, TabStays DEF WorkerEnds, tabVars
  <2>4. QED
    BY <2>1, <2>2, <2>3 DEF WorkerEnds
<1>16. CASE Deploy \/ Retire \/ UNCHANGED <<serverVars, tabVars>>
  <2>1. UNCHANGED <<status, package, page, shown, list, filter>>
    BY <1>16 DEF Deploy, Retire, serverVars, tabVars
  <2>2. QED
    BY <2>1, UnchangedKeeps, TabStays
<1>17. QED
  BY <1>1, <1>2, <1>3, <1>4, <1>5, <1>6, <1>7, <1>8, <1>9, <1>10, <1>11, <1>12, <1>13,
     <1>14, <1>15, <1>16 DEF Next, vars

\* A card, a tab and a download button were computed when the page was fetched, and the
\* rows have gone on since: each of them still leads to what it says, because a run is
\* never without a package again and a row never goes away.
THEOREM OffersHold == Spec => []LinksLeadOn
<1>1. Init => LinksInv
  <2>1. SUFFICES ASSUME Init PROVE LinksInv
    OBVIOUS
  <2>2. list.cards = <<>> /\ filter = "all" /\ page = "home"
    BY <2>1 DEF Init, NotLoaded
  <2>3. DOMAIN list.cards = {}
    BY <2>2
  <2>4. ServerInv
    BY <2>1 DEF Init, ServerInv, RunStatus
  <2>5. QED
    BY <2>2, <2>3, <2>4 DEF LinksInv, TabInv, CardsInv
<1>2. LinksInv => LinksLeadOn
  <2>1. SUFFICES ASSUME LinksInv PROVE LinksLeadOn
    OBVIOUS
  <2>2. ASSUME NEW r \in DOMAIN list.cards, session = "in", list.cards[r] # "failed"
        PROVE  CardLeadsTo(list.cards[r]) \in LandsOn(CardLeadsTo(list.cards[r]), r, session)
    <3>1. Owns(r) /\ list.cards[r] \in {"completed", "in_progress"}
          /\ (list.cards[r] = "completed" => package[r] # NoPackage)
      BY <2>1, <2>2 DEF LinksInv, TabInv, CardsInv
    <3>2. CASE list.cards[r] = "completed"
      BY <2>2, <3>1, <3>2 DEF CardLeadsTo, LandsOn, RunPages
    <3>3. CASE list.cards[r] = "in_progress"
      BY <2>2, <3>1, <3>3 DEF CardLeadsTo, LandsOn, RunPages
    <3>4. QED
      BY <3>1, <3>2, <3>3
  <2>3. ASSUME page = "decide", session = "in", NEW k \in Buttons(shown)
        PROVE  200 \in Download(shown, k)
    <3>1. k \in Artifacts(shown) /\ shown \in Mine /\ status[shown] # "none"
      BY <2>1, <2>3 DEF LinksInv, TabInv, HasPackage, Owns, Buttons
    <3>2. QED
      BY <2>3, <3>1 DEF Download
  <2>4. QED
    BY <2>1, <2>2, <2>3 DEF LinksLeadOn, LinksInv, TabInv, CardsInv
<1>3. QED
  BY <1>1, <1>2, LinksStep, PTL DEF Spec

-----------------------------------------------------------------------------
(* The diagrams.                                                           *)

Job == [mounted : BOOLEAN, stage : {"import", "render"}, theme : Themes \cup {"none"}]
Block == [status : Statuses, svg : Themes \cup {"none"}, pending : BOOLEAN,
          cancelled : BOOLEAN, jobs : SUBSET Job]

\* What a block that has noticed the theme holds is of that theme: its picture, and
\* the job that may still report.
Current(b) ==
  ~b.pending =>
    /\ b.status = "ok" => b.svg = theme
    /\ \A j \in b.jobs : j.mounted /\ j.stage = "render" => j.theme = theme /\ config = theme

DiagramInv ==
  /\ theme \in Themes /\ config \in Themes \cup {"none"}
  /\ blocks \in [Diagrams -> Block]
  /\ \A d \in Diagrams : Current(blocks[d])

LEMMA NewBlockCurrent == NewBlock \in Block /\ Current(NewBlock) /\ Current(NewBlock)'
BY DEF NewBlock, NewJob, Block, Job, Statuses, Current

\* The effect starts with no job that may report what it was told before.
LEMMA EffectCurrent ==
  ASSUME NEW b \in Block
  PROVE  Effect(b) \in Block /\ Current(Effect(b))'
<1>1. \A j \in b.jobs : [j EXCEPT !.mounted = FALSE] \in Job
                        /\ [j EXCEPT !.mounted = FALSE].mounted = FALSE
  BY DEF Block, Job
<1>2. NewJob \in Job /\ NewJob.stage = "import"
  BY DEF NewJob, Job
<1>3. \A j \in Effect(b).jobs : j \in Job /\ (j.stage = "import" \/ ~j.mounted)
  BY <1>1, <1>2 DEF Effect
<1>4. Effect(b) \in Block
  BY <1>3 DEF Effect, Block, Statuses, CancelledOnStart
<1>5. Effect(b).status = "rendering"
  BY DEF Effect
<1>6. QED
  BY <1>3, <1>4, <1>5 DEF Current

\* A step of one block in a theme that stays.
LEMMA BlockStep ==
  ASSUME DiagramInv, NEW d \in Diagrams, NEW b \in Block, Current(b)',
         blocks' = [blocks EXCEPT ![d] = b],
         UNCHANGED <<pkg, section, theme>>, config' \in {config, theme}
  PROVE  DiagramInv'
<1>1. Diagrams' = Diagrams
  BY DEF Diagrams, Package
<1>2. blocks' \in [Diagrams -> Block] /\ blocks'[d] = b
      /\ \A e \in Diagrams \ {d} : blocks'[e] = blocks[e]
  BY DEF DiagramInv
<1>3. \A e \in Diagrams \ {d} : Current(blocks[e])'
  BY DEF DiagramInv, Current
<1>4. QED
  BY <1>1, <1>2, <1>3 DEF DiagramInv

LEMMA RerunKeeps ==
  ASSUME DiagramInv, NEW d, Rerun(d)
  PROVE  DiagramInv'
<1>1. d \in Diagrams /\ blocks[d] \in Block
  BY DEF Rerun, DiagramInv
<1>2. blocks' = [blocks EXCEPT ![d] = Effect(blocks[d])]
  BY DEF Rerun
<1>3. QED
  BY <1>1, <1>2, EffectCurrent, BlockStep DEF Rerun

\* A job that ends leaves a picture of the current theme, or none.
LEMMA EndedCurrent ==
  ASSUME NEW b \in Block, Current(b), NEW j, NEW s \in Statuses, NEW svg \in Themes \cup {"none"},
         UNCHANGED <<theme, config>>, s = "ok" => b.pending \/ svg = theme
  PROVE  Ended(b, j, s, svg) \in Block /\ Current(Ended(b, j, s, svg))'
<1>1. Ended(b, j, s, svg) \in Block
  BY DEF Ended, Block
<1>2. LET e == Ended(b, j, s, svg) IN
      e.status = s /\ e.svg = svg /\ e.pending = b.pending /\ e.jobs = b.jobs \ {j}
  BY DEF Ended, Block
<1>3. QED
  BY <1>1, <1>2 DEF Current

LEMMA DroppedCurrent ==
  ASSUME NEW b \in Block, Current(b), NEW j, UNCHANGED <<theme, config>>
  PROVE  Dropped(b, j) \in Block /\ Current(Dropped(b, j))'
<1>1. Dropped(b, j) \in Block
  BY DEF Dropped, Block
<1>2. LET e == Dropped(b, j) IN
      e.status = b.status /\ e.svg = b.svg /\ e.pending = b.pending /\ e.jobs = b.jobs \ {j}
  BY DEF Dropped, Block
<1>3. QED
  BY <1>1, <1>2 DEF Current

Rendered(b, j, k) == [b EXCEPT !.jobs = (@ \ {j}) \cup {k}]

\* A job that asks for a picture asks for one of the current theme.
LEMMA RenderedCurrent ==
  ASSUME NEW b \in Block, Current(b), NEW j, NEW k \in Job, k.theme = theme,
         UNCHANGED theme, config' = theme
  PROVE  Rendered(b, j, k) \in Block /\ Current(Rendered(b, j, k))'
<1>1. Rendered(b, j, k) \in Block
  BY DEF Rendered, Block
<1>2. LET e == Rendered(b, j, k) IN
      /\ e.status = b.status /\ e.svg = b.svg /\ e.pending = b.pending
      /\ e.jobs = (b.jobs \ {j}) \cup {k}
  BY DEF Rendered, Block
<1>3. QED
  BY <1>1, <1>2 DEF Current

LEMMA ImportKeeps ==
  ASSUME DiagramInv, NEW d \in Diagrams, NEW j \in blocks[d].jobs, ImportEnds(d, j)
  PROVE  DiagramInv'
<1>1. blocks[d] \in Block /\ Current(blocks[d]) /\ j \in Job
  BY DEF DiagramInv, Block
<1>2. UNCHANGED <<pkg, section, theme>>
  BY DEF ImportEnds
<1>3. CASE blocks' = [blocks EXCEPT ![d] = Dropped(blocks[d], j)] /\ UNCHANGED config
  BY <1>1, <1>2, <1>3, DroppedCurrent, BlockStep
<1>4. CASE blocks' = [blocks EXCEPT ![d] = Ended(blocks[d], j, "error", "none")] /\ UNCHANGED config
  <2>1. "error" \in Statuses
    BY DEF Statuses
  <2>2. QED
    BY <1>1, <1>2, <1>4, <2>1, EndedCurrent, BlockStep
<1>5. CASE /\ config' = theme
           /\ blocks' = [blocks EXCEPT ![d].jobs =
                           (@ \ {j}) \cup {[j EXCEPT !.stage = "render", !.theme = theme]}]
  <2> DEFINE k == [j EXCEPT !.stage = "render", !.theme = theme]
  <2>1. k \in Job /\ k.theme = theme
    BY <1>1 DEF DiagramInv, Job
  <2>2. blocks' = [blocks EXCEPT ![d] = Rendered(blocks[d], j, k)]
    BY <1>5 DEF Rendered
  <2> HIDE DEF k
  <2>3. QED
    BY <1>1, <1>2, <1>5, <2>1, <2>2, RenderedCurrent, BlockStep
<1>6. QED
  BY <1>3, <1>4, <1>5 DEF ImportEnds

LEMMA RenderKeeps ==
  ASSUME DiagramInv, NEW d \in Diagrams, NEW j \in blocks[d].jobs, RenderEnds(d, j)
  PROVE  DiagramInv'
<1>1. blocks[d] \in Block /\ Current(blocks[d]) /\ j \in Job
  BY DEF DiagramInv, Block
<1>2. UNCHANGED <<pkg, section, theme, config>> /\ j.stage = "render"
  BY DEF RenderEnds
<1>3. CASE blocks' = [blocks EXCEPT ![d] = Dropped(blocks[d], j)]
  BY <1>1, <1>2, <1>3, DroppedCurrent, BlockStep
<1>4. CASE blocks' = [blocks EXCEPT ![d] = Ended(blocks[d], j, "error", "none")]
  <2>1. "error" \in Statuses
    BY DEF Statuses
  <2>2. QED
    BY <1>1, <1>2, <1>4, <2>1, EndedCurrent, BlockStep
<1>5. CASE /\ MayReport(blocks[d], j)
           /\ \E drawn \in {j.theme, config} :
                blocks' = [blocks EXCEPT ![d] = Ended(blocks[d], j, "ok", drawn)]
  <2>1. PICK drawn \in {j.theme, config} :
          blocks' = [blocks EXCEPT ![d] = Ended(blocks[d], j, "ok", drawn)]
    BY <1>5
  <2>2. drawn \in Themes \cup {"none"} /\ "ok" \in Statuses
    BY <1>1 DEF Job, DiagramInv, Statuses
  <2>3. blocks[d].pending \/ drawn = theme
    BY <1>1, <1>2, <1>5 DEF Current, MayReport
  <2>4. QED
    BY <1>1, <1>2, <2>1, <2>2, <2>3, EndedCurrent, BlockStep
<1>6. QED
  BY <1>3, <1>4, <1>5 DEF RenderEnds

\* A change of theme is noticed later.
LEMMA ToggleKeeps ==
  ASSUME DiagramInv, ToggleTheme
  PROVE  DiagramInv'
<1>1. Diagrams' = Diagrams
  BY DEF ToggleTheme, Diagrams, Package
<1>2. theme' \in Themes /\ config' \in Themes \cup {"none"}
  BY DEF ToggleTheme, DiagramInv, Themes
<1>3. \A d \in Diagrams : [blocks[d] EXCEPT !.pending = TRUE] \in Block
                          /\ [blocks[d] EXCEPT !.pending = TRUE].pending
  BY DEF DiagramInv, Block
<1>4. blocks' \in [Diagrams -> Block] /\ \A d \in Diagrams : blocks'[d].pending
  BY <1>3 DEF ToggleTheme, DiagramInv
<1>5. QED
  BY <1>1, <1>2, <1>4 DEF DiagramInv, Current

LEMMA GoToKeeps ==
  ASSUME DiagramInv, NEW s, GoTo(s)
  PROVE  DiagramInv'
<1>1. UNCHANGED <<pkg, theme, config>> /\ section' = s
  BY DEF GoTo
<1>2. CASE s = "system-design"
  <2>1. Diagrams' = DOMAIN Package.sequenceDiagrams
    BY <1>1, <1>2 DEF Diagrams, Package
  <2>2. blocks' = [d \in Diagrams' |-> NewBlock]
    BY <1>2, <2>1 DEF GoTo
  <2>3. QED
    BY <1>1, <2>2, NewBlockCurrent DEF DiagramInv
<1>3. CASE s # "system-design"
  <2>1. Diagrams' = {} /\ blocks' = <<>>
    BY <1>1, <1>3 DEF Diagrams, GoTo
  <2>2. QED
    BY <1>1, <2>1 DEF DiagramInv
<1>4. QED
  BY <1>2, <1>3

LEMMA ReaderKeeps ==
  ASSUME DiagramInv, ReaderNext
  PROVE  DiagramInv'
<1>1. CASE \E s : GoTo(s)
  BY <1>1, GoToKeeps
<1>2. CASE \E n : ClickBox(n)
  BY <1>2 DEF ClickBox, DiagramInv, Diagrams, Package, Current
<1>3. CASE \E m : SortBy(m)
  BY <1>3 DEF SortBy, DiagramInv, Diagrams, Package, Current
<1>4. CASE ToggleTheme
  BY <1>4, ToggleKeeps
<1>5. CASE \E d : Rerun(d)
  BY <1>5, RerunKeeps
<1>6. CASE \E d : JobEnds(d)
  BY <1>6, ImportKeeps, RenderKeeps DEF JobEnds
<1>7. QED
  BY <1>1, <1>2, <1>3, <1>4, <1>5, <1>6 DEF ReaderNext, Pager, FollowCite

\* Opening a package, and leaving its page.
LEMMA MountKeepsDiagrams ==
  ASSUME DiagramInv, NEW p, NEW r, Mount(p, r)
  PROVE  DiagramInv'
<1>1. CASE Open(package[r]) \/ Close
  <2>1. section' # "system-design" /\ blocks' = <<>> /\ config' = "none" /\ theme' = theme
    BY <1>1 DEF Open, Close
  <2>2. Diagrams' = {}
    BY <2>1 DEF Diagrams
  <2>3. QED
    BY <2>1, <2>2 DEF DiagramInv
<1>2. CASE UNCHANGED readerVars
  BY <1>2 DEF readerVars, DiagramInv, Diagrams, Package, Current
<1>3. QED
  BY <1>1, <1>2 DEF Mount

\* The steps of the site open a page, or leave the reader of the package alone.
LEMMA SiteSteps ==
  ASSUME [Next]_vars
  PROVE  (\E p, r : Mount(p, r)) \/ ReaderNext \/ UNCHANGED readerVars
<1>1. ASSUME NEW p, NEW r, Visit(p, r) \/ Load(p, r) PROVE \E q : Mount(q, r)
  BY <1>1 DEF Visit, Load
<1>2. CASE SignIn \/ SignInRefused \/ SignOut
  BY <1>2 DEF SignIn, SignInRefused, SignOut
<1>3. CASE \/ SessionExpires \/ BannerLoads \/ Accept \/ AcceptEnds \/ ListArrives
           \/ \E f : SetFilter(f)
  BY <1>3 DEF SessionExpires, BannerLoads, Accept, AcceptEnds, ListArrives, SetFilter
<1>4. CASE (\E t : Type(t)) \/ Send \/ PostRuns \/ RequestFails \/ PostCheckout
  BY <1>4 DEF Type, Send, PostRuns, RequestFails, PostCheckout
<1>5. CASE BriefAnswered \/ CheckoutAnswered \/ StripePaid \/ StripeCanceled \/ \E r : ClickCard(r)
  BY <1>1, <1>5 DEF BriefAnswered, CheckoutAnswered, StripePaid, StripeCanceled, ClickCard
<1>6. CASE (\E r : WorkerStarts(r) \/ WorkerEnds(r)) \/ Deploy \/ Retire \/ UNCHANGED vars
  BY <1>6 DEF WorkerStarts, WorkerEnds, Deploy, Retire, vars
<1>7. QED
  BY <1>1, <1>2, <1>3, <1>4, <1>5, <1>6 DEF Next

LEMMA DiagramInit == Init => DiagramInv
<1>1. SUFFICES ASSUME Init PROVE DiagramInv
  OBVIOUS
<1>2. Diagrams = {} /\ blocks = <<>> /\ theme = "light" /\ config = "none"
  BY <1>1 DEF Init, ReaderInit, Diagrams
<1>3. QED
  BY <1>2 DEF DiagramInv, Themes

LEMMA DiagramStep == DiagramInv /\ [Next]_vars => DiagramInv'
<1>1. SUFFICES ASSUME DiagramInv, [Next]_vars PROVE DiagramInv'
  OBVIOUS
<1>2. CASE UNCHANGED readerVars
  BY <1>1, <1>2 DEF readerVars, DiagramInv, Diagrams, Package, Current
<1>3. QED
  BY <1>1, <1>2, SiteSteps, MountKeepsDiagrams, ReaderKeeps

\* A picture that was asked for in an earlier theme and is ready late never replaces the
\* one of the theme of the page, whatever the order in which imports and renders end,
\* sections are left and entered, and the theme is changed.
THEOREM NoStalePicture == Spec => []DiagramFollowsTheme
<1>1. DiagramInv => DiagramFollowsTheme
  BY DEF DiagramInv, Current, DiagramFollowsTheme
<1>2. QED
  BY <1>1, DiagramInit, DiagramStep, PTL DEF Spec

-----------------------------------------------------------------------------
(* The types.                                                              *)

\* The script in the tab and the accepted version are ones that were deployed.
VersionInv ==
  /\ deployed \in 1..MaxVersion /\ bundle \in 1..deployed /\ pointer \in 0..deployed
  /\ serving \in {{deployed}, {deployed - 1, deployed}} /\ serving \subseteq 1..MaxVersion

\* A run that was published is paid for, and one that has its package is at its end.
RowsInv ==
  /\ status \in [Runs -> RunStatus] /\ paid \in [Runs -> BOOLEAN]
  /\ stamped \in [Runs -> BOOLEAN] /\ package \in [Runs -> DOMAIN Packages \cup {NoPackage}]
  /\ \A r \in Runs : status[r] \notin {"none", "pending"} => paid[r]
  /\ \A r \in Runs : package[r] # NoPackage => status[r] = "succeeded"

\* What is on its way to Stripe is a run of the reader's that is not paid for.
FormInv ==
  /\ session \in {"in", "out"} /\ registered \in BOOLEAN
  /\ page \in Pages /\ shown \in Runs \cup {NoRun} /\ banner \in Banners
  /\ text \in Texts /\ request \in Requests
  /\ page = "decide" => HasPackage(shown)
  /\ request = "stripe" => page = "checkout"
  /\ page = "stripe" \/ request = "stripe" => Owns(shown) /\ ~paid[shown]

\* A package is open on its page alone.
OpenInv ==
  IF page = "decide" THEN pkg = package[shown] /\ section # "closed"
                     ELSE pkg = NoPackage /\ section = "closed"

Sections == {SECTIONS[i] : i \in DOMAIN SECTIONS}
OneJob(b) == \A j, k \in b.jobs : j.mounted /\ k.mounted => j = k

SectionInv ==
  /\ section \in Sections \cup {"closed"} /\ sortMode \in SortModes
  /\ focus # 0 => section = "verdict" /\ focus \in DOMAIN Package.nodes
  /\ \A d \in Diagrams : OneJob(blocks[d])

\* A rollout moves the server on; else a script is the old one or of a revision that
\* serves, and an acceptance is of such a revision.
LEMMA VersionsMove ==
  ASSUME [Next]_vars
  PROVE  \/ Deploy \/ Retire
         \/ /\ UNCHANGED revisions
            /\ bundle' \in {bundle} \cup serving /\ pointer' \in {pointer} \cup serving
<1>1. ASSUME NEW p, NEW r, Visit(p, r)
      PROVE  UNCHANGED <<revisions, pointer>> /\ bundle' \in {bundle} \cup serving
  BY <1>1 DEF Visit, serverVars
<1>2. CASE SignIn \/ AcceptEnds \/ PostCheckout
  <2>1. UNCHANGED revisions /\ bundle' \in {bundle} \cup serving
    BY <1>2 DEF SignIn, AcceptEnds, PostCheckout
  <2>2. pointer' \in {pointer} \cup serving
    BY <1>2 DEF SignIn, AcceptEnds, PostCheckout, Consent, TryConsent, recordConsent, ConsentFails
  <2>3. QED
    BY <2>1, <2>2
<1>3. CASE \/ SignInRefused \/ SignOut \/ SessionExpires \/ BannerLoads \/ Accept
           \/ ListArrives \/ Send \/ RequestFails
  BY <1>3 DEF SignInRefused, SignOut, SessionExpires, BannerLoads, Accept, ListArrives, Send,
     RequestFails, serverVars
<1>4. CASE PostRuns \/ BriefAnswered \/ CheckoutAnswered \/ StripePaid
  BY <1>4 DEF PostRuns, BriefAnswered, CheckoutAnswered, StripePaid, Load, serverVars
<1>5. CASE (\E f : SetFilter(f)) \/ (\E t : Type(t)) \/ (\E r : WorkerStarts(r) \/ WorkerEnds(r))
  BY <1>5 DEF SetFilter, Type, WorkerStarts, WorkerEnds, serverVars, tabVars
<1>6. CASE UNCHANGED <<serverVars, tabVars>>
  BY <1>6 DEF serverVars, tabVars
<1>7. QED
  BY <1>1, <1>2, <1>3, <1>4, <1>5, <1>6 DEF Next, vars, ClickCard, StripeCanceled

LEMMA VersionStep ==
  ASSUME MaxVersion \in Nat, VersionInv, [Next]_vars
  PROVE  VersionInv'
<1>1. CASE Deploy
  <2>1. /\ deployed' = deployed + 1 /\ deployed < MaxVersion /\ UNCHANGED <<bundle, pointer>>
        /\ serving = {deployed} /\ serving' = serving \cup {deployed + 1}
    BY <1>1 DEF Deploy, tabVars
  <2>2. QED
    BY <2>1 DEF VersionInv
<1>2. CASE Retire
  BY <1>2 DEF Retire, VersionInv, tabVars
<1>3. CASE /\ UNCHANGED revisions
           /\ bundle' \in {bundle} \cup serving /\ pointer' \in {pointer} \cup serving
  <2>1. \A v \in serving : v \in 1..deployed
    BY DEF VersionInv
  <2>2. UNCHANGED <<deployed, serving>>
    BY <1>3 DEF revisions
  <2>3. QED
    BY <1>3, <2>1, <2>2 DEF VersionInv
<1>4. QED
  BY <1>1, <1>2, <1>3, VersionsMove

-----------------------------------------------------------------------------
\* The rows of the runs move as Waive, the worker and Stripe move them.

LEMMA RowsStay ==
  ASSUME RowsInv, UNCHANGED <<status, paid, stamped, package>>
  PROVE  RowsInv'
BY DEF RowsInv

\* A run that is not paid for has no package.
LEMMA WaiveRows ==
  ASSUME RowsInv, NEW r \in Mine, ~paid[r], Waive(r), UNCHANGED package,
         stamped' \in [Runs -> BOOLEAN]
  PROVE  RowsInv'
<1>1. r \in Runs
  BY DEF Runs
<1>2. PICK s \in {"queued", "pending"}, b \in BOOLEAN :
        /\ status' = [status EXCEPT ![r] = s] /\ paid' = [paid EXCEPT ![r] = b]
        /\ s = "queued" => b
  <2>1. paid[r] \in BOOLEAN /\ paid = [paid EXCEPT ![r] = paid[r]]
    BY <1>1 DEF RowsInv
  <2>2. QED
    BY <2>1 DEF Waive
<1>3. status' \in [Runs -> RunStatus] /\ paid' \in [Runs -> BOOLEAN]
  BY <1>2 DEF RowsInv, RunStatus
<1>4. /\ status'[r] = s /\ paid'[r] = b
      /\ \A q \in Runs \ {r} : status'[q] = status[q] /\ paid'[q] = paid[q]
  BY <1>1, <1>2 DEF RowsInv
<1>5. package[r] = NoPackage
  BY <1>1 DEF RowsInv
<1>6. QED
  BY <1>2, <1>3, <1>4, <1>5 DEF RowsInv

\* A run is created, its payment arrives, or its worker takes or loses it.
LEMMA StatusRows ==
  ASSUME RowsInv, NEW r \in Mine, package[r] = NoPackage, NEW s \in RunStatus \ {"succeeded"},
         status' = [status EXCEPT ![r] = s], UNCHANGED <<stamped, package>>,
         \/ UNCHANGED paid /\ (s \in {"none", "pending"} \/ paid[r])
         \/ paid' = [paid EXCEPT ![r] = TRUE]
  PROVE  RowsInv'
<1>1. r \in Runs
  BY DEF Runs
<1>2. status' \in [Runs -> RunStatus] /\ paid' \in [Runs -> BOOLEAN]
  BY DEF RowsInv
<1>3. /\ status'[r] = s /\ \A q \in Runs \ {r} : status'[q] = status[q]
      /\ \A q \in Runs : paid[q] => paid'[q]
      /\ s \in {"none", "pending"} \/ paid'[r]
  BY <1>1 DEF RowsInv
<1>4. QED
  BY <1>2, <1>3 DEF RowsInv

\* A run that ends well has the package of its last stage.
LEMMA PackageRows ==
  ASSUME RowsInv, NEW r \in Mine, status[r] = "running", NEW p \in DOMAIN Packages,
         status' = [status EXCEPT ![r] = "succeeded"], package' = [package EXCEPT ![r] = p],
         UNCHANGED <<stamped, paid>>
  PROVE  RowsInv'
<1>1. r \in Runs
  BY DEF Runs
<1>2. status' \in [Runs -> RunStatus] /\ package' \in [Runs -> DOMAIN Packages \cup {NoPackage}]
  BY DEF RowsInv, RunStatus
<1>3. /\ status'[r] = "succeeded"
      /\ \A q \in Runs \ {r} : status'[q] = status[q] /\ package'[q] = package[q]
  BY <1>1 DEF RowsInv
<1>4. paid[r]
  BY <1>1 DEF RowsInv
<1>5. QED
  BY <1>2, <1>3, <1>4 DEF RowsInv

-----------------------------------------------------------------------------
\* A page that opens has nothing typed and nothing under way.
LEMMA MountForms ==
  ASSUME NEW p \in Pages, NEW r \in Runs \cup {NoRun}, Mount(p, r),
         session' \in {"in", "out"}, registered' \in BOOLEAN,
         p = "decide" => HasPackage(r)', p = "stripe" => Owns(r)' /\ ~paid'[r]
  PROVE  FormInv'
<1>1. /\ page' = p /\ shown' \in Runs \cup {NoRun} /\ banner' \in Banners
      /\ text' \in Texts /\ request' = "none"
  BY DEF Mount, Banners, Texts
<1>2. p \in {"decide", "stripe"} => shown' = r
  BY DEF Mount, RunPages
<1>3. QED
  BY <1>1, <1>2 DEF FormInv, Requests

LEMMA LandsInPages ==
  ASSUME NEW p \in Pages, NEW r, NEW cookie, NEW q \in LandsOn(p, r, cookie)
  PROVE  q \in Pages /\ (q = "stripe" => p = "stripe") /\ (q = "decide" => p = "decide")
BY DEF LandsOn, Pages, PROTECTED_PREFIXES, RunPages

LEMMA VisitForms ==
  ASSUME RowsInv, FormInv, NEW p \in Pages \ {"stripe"}, NEW r \in Runs \cup {NoRun}, Visit(p, r)
  PROVE  RowsInv' /\ FormInv'
<1>1. PICK q \in LandsOn(p, r, session) : Mount(q, r)
  BY DEF Visit
<1>2. UNCHANGED <<status, paid, stamped, package, session, registered>>
  BY DEF Visit, serverVars
<1>3. q \in Pages /\ q # "stripe" /\ (q = "decide" => HasPackage(r)')
  BY <1>1, <1>2, LandsInPages, DecideHasPackage DEF HasPackage, Owns
<1>4. QED
  BY <1>1, <1>2, <1>3, MountForms, RowsStay DEF FormInv

LEMMA LoadForms ==
  ASSUME FormInv, NEW p \in Pages \ {"decide"}, NEW r \in Runs \cup {NoRun}, Load(p, r),
         UNCHANGED registered, p = "stripe" => Owns(r)' /\ ~paid'[r]
  PROVE  FormInv'
<1>1. PICK q \in LandsOn(p, r, session) : Mount(q, r)
  BY DEF Load
<1>2. q \in Pages /\ q # "decide" /\ (q = "stripe" => p = "stripe")
  BY <1>1, LandsInPages
<1>3. UNCHANGED session
  BY DEF Load
<1>4. QED
  BY <1>1, <1>2, <1>3, MountForms DEF FormInv

\* A step of the server alone, of runs that are not on their way to Stripe.
LEMMA FormStays ==
  ASSUME FormInv, Keeps, UNCHANGED <<session, registered, page, shown, banner, text, request>>,
         page = "stripe" \/ request = "stripe" => paid'[shown] = paid[shown]
  PROVE  FormInv'
<1>1. Owns(shown) => Owns(shown)'
  BY DEF Owns, Keeps
<1>2. HasPackage(shown) => HasPackage(shown)'
  BY <1>1 DEF HasPackage, Owns, Keeps
<1>3. QED
  BY <1>1, <1>2 DEF FormInv

FormsInv == RowsInv /\ FormInv

\* An answer is on its page, and the rows are as the handler left them.
LEMMA PostRunsForms ==
  ASSUME FormsInv, PostRuns
  PROVE  FormsInv'
<1> USE DEF FormsInv
<1>1. /\ UNCHANGED <<registered, stamped, package, session, page, banner, text>>
      /\ page = "brief"
  BY DEF PostRuns
<1>2. FormInv' \/ ~(shown' \in Runs \cup {NoRun} /\ request' \in {"denied", "failed", "created"})
  BY <1>1 DEF FormInv, Requests
<1>3. CASE UNCHANGED <<status, paid, shown>> /\ request' \in {"denied", "failed"}
  BY <1>1, <1>2, <1>3, RowsStay DEF FormInv
<1>4. CASE \E r \in Mine, v \in serving : createRun(r, v)
  <2>1. PICK r \in Mine, v \in serving : createRun(r, v)
    BY <1>4
  <2>2. r \in Runs /\ shown' = r /\ status[r] = "none"
    BY <2>1 DEF createRun, Runs
  <2>3. package[r] = NoPackage
    BY <2>2 DEF RowsInv
  <2>4. request' \in {"created", "failed"}
    BY <2>1 DEF createRun
  <2>5. CASE status' = [status EXCEPT ![r] = "pending"] /\ UNCHANGED paid
    <3>1. RowsInv'
      BY <1>1, <2>3, <2>5, StatusRows DEF RunStatus
    <3>2. QED
      BY <1>2, <2>2, <2>4, <3>1
  <2>6. CASE Waive(r)
    <3>1. CASE ~paid[r]
      <4>1. RowsInv'
        BY <1>1, <2>6, <3>1, WaiveRows DEF RowsInv
      <4>2. QED
        BY <1>2, <2>2, <2>4, <4>1
    <3>2. CASE paid[r]
      <4>1. UNCHANGED paid \/ paid' = [paid EXCEPT ![r] = TRUE]
        BY <2>6 DEF Waive
      <4>2. PICK s \in {"queued", "pending"} : status' = [status EXCEPT ![r] = s]
        BY <2>6 DEF Waive
      <4>3. s \in RunStatus \ {"succeeded"}
        BY DEF RunStatus
      <4>4. RowsInv'
        BY <1>1, <2>3, <3>2, <4>1, <4>2, <4>3, StatusRows
      <4>5. QED
        BY <1>2, <2>2, <2>4, <4>4
    <3>3. QED
      BY <3>1, <3>2
  <2>7. QED
    BY <2>1, <2>5, <2>6 DEF createRun
<1>5. QED
  BY <1>3, <1>4 DEF PostRuns

LEMMA PostCheckoutForms ==
  ASSUME FormsInv, PostCheckout
  PROVE  FormsInv'
<1> USE DEF FormsInv
<1>1. /\ UNCHANGED <<registered, package, session, page, shown, banner, text>>
      /\ page = "checkout"
  BY DEF PostCheckout
<1>2. CASE UNCHANGED <<status, paid, stamped>> /\ request' \in {"failed", "settled"}
  BY <1>1, <1>2, RowsStay DEF FormInv, Requests
<1>3. CASE /\ Owns(shown) /\ ~paid[shown]
           /\ \E v \in serving : Consent(shown, v) /\ Charge(shown, v)
  <2>1. shown \in Mine /\ shown \in Runs
    BY <1>3 DEF Owns, Runs
  <2>2. stamped' \in [Runs -> BOOLEAN]
    BY <1>3 DEF Consent, RowsInv
  <2>3. CASE Waive(shown) /\ request' \in {"settled", "failed"}
    <3>1. RowsInv'
      BY <1>1, <1>3, <2>1, <2>2, <2>3, WaiveRows
    <3>2. QED
      BY <1>1, <2>3, <3>1 DEF FormInv, Requests
  <2>4. CASE UNCHANGED <<status, paid>> /\ request' \in {"stripe", "failed"}
    <3>1. RowsInv'
      BY <1>1, <2>2, <2>4 DEF RowsInv
    <3>2. Owns(shown)' /\ ~paid'[shown']
      BY <1>1, <1>3, <2>4 DEF Owns
    <3>3. QED
      BY <1>1, <2>4, <3>1, <3>2 DEF FormInv, Requests
  <2>5. QED
    BY <1>3, <2>3, <2>4 DEF Charge
<1>4. QED
  BY <1>2, <1>3 DEF PostCheckout

LEMMA StripeForms ==
  ASSUME FormsInv, StripePaid
  PROVE  FormsInv'
<1> USE DEF FormsInv
<1>1. /\ UNCHANGED <<registered, stamped, package>> /\ Load("run", shown)
      /\ paid' = [paid EXCEPT ![shown] = TRUE] /\ status' = [status EXCEPT ![shown] = "queued"]
      /\ Owns(shown) /\ ~paid[shown]
  BY DEF StripePaid, FormInv
<1>2. shown \in Mine /\ shown \in Runs
  BY <1>1 DEF Owns, Runs
<1>3. package[shown] = NoPackage
  BY <1>1, <1>2 DEF RowsInv
<1>4. RowsInv'
  <2>1. "queued" \in RunStatus \ {"succeeded"}
    BY DEF RunStatus
  <2>2. QED
    BY <1>1, <1>2, <1>3, <2>1, StatusRows
<1>5. "run" \in Pages
  BY DEF Pages, PROTECTED_PREFIXES, RunPages
<1>6. QED
  BY <1>1, <1>2, <1>4, <1>5, LoadForms

LEMMA WorkerForms ==
  ASSUME FormsInv, NEW r \in Mine, WorkerStarts(r) \/ WorkerEnds(r)
  PROVE  FormsInv'
<1> USE DEF FormsInv
<1>1. UNCHANGED <<registered, paid, stamped, session, page, shown, banner, text, request>>
  BY DEF WorkerStarts, WorkerEnds, tabVars
<1>2. r \in Runs /\ status[r] \in {"queued", "running"}
  BY DEF WorkerStarts, WorkerEnds, Runs
<1>3. paid[r] /\ package[r] = NoPackage
  BY <1>2 DEF RowsInv
<1>4. RowsInv'
  <2>1. CASE \E s \in {"running", "failed"} : status' = [status EXCEPT ![r] = s] /\ UNCHANGED package
    <3>1. PICK s \in {"running", "failed"} : status' = [status EXCEPT ![r] = s] /\ UNCHANGED package
      BY <2>1
    <3>2. s \in RunStatus \ {"succeeded"}
      BY DEF RunStatus
    <3>3. QED
      BY <1>1, <1>3, <3>1, <3>2, StatusRows
  <2>2. CASE \E p \in DOMAIN Packages : /\ status[r] = "running"
                                        /\ status' = [status EXCEPT ![r] = "succeeded"]
                                        /\ package' = [package EXCEPT ![r] = p]
    BY <1>1, <2>2, PackageRows
  <2>3. QED
    BY <2>1, <2>2 DEF WorkerStarts, WorkerEnds
<1>5. Keeps
  <2>1. /\ \A q \in Runs : status'[q] = status[q] \/ status'[q] \in {"running", "failed", "succeeded"}
        /\ \A q \in Runs : package'[q] = package[q] \/ package[q] = NoPackage
    BY <1>2, <1>3 DEF WorkerStarts, WorkerEnds, RowsInv
  <2>2. QED
    BY <2>1 DEF Keeps, Runs
<1>6. QED
  BY <1>1, <1>4, <1>5, FormStays

LEMMA FormsStep == FormsInv /\ [Next]_vars => FormsInv'
<1> SUFFICES ASSUME FormsInv, [Next]_vars PROVE FormsInv'
  OBVIOUS
<1> USE DEF FormsInv
<1>1. Linked \cup RunPages \cup {"unauthorized"} \subseteq Pages \ {"stripe"}
  BY DEF Linked, Pages, PROTECTED_PREFIXES, RunPages
<1>2. ASSUME NEW p \in Linked \cup RunPages, NEW r \in Runs \cup {NoRun}, Visit(p, r)
      PROVE  FormsInv'
  BY <1>1, <1>2, VisitForms
<1>3. CASE SignIn \/ SignInRefused \/ SignOut
  <2>1. \E p \in {"dashboard", "unauthorized", "home"} : Mount(p, NoRun)
    BY <1>3 DEF SignIn, SignInRefused, SignOut
  <2>2. UNCHANGED <<status, paid, stamped, package>>
    BY <1>3 DEF SignIn, SignInRefused, SignOut, serverVars
  <2>3. session' \in {"in", "out"} /\ registered' \in BOOLEAN
    BY <1>3 DEF SignIn, SignInRefused, SignOut, serverVars, FormInv
  <2>4. {"dashboard", "unauthorized", "home"} \subseteq Pages
    BY DEF Pages, PROTECTED_PREFIXES, RunPages
  <2>5. QED
    BY <2>1, <2>2, <2>3, <2>4, MountForms, RowsStay
<1>4. CASE SessionExpires \/ BannerLoads \/ Accept \/ AcceptEnds \/ Deploy \/ Retire
           \/ UNCHANGED <<serverVars, tabVars>>
  <2>1. UNCHANGED <<status, paid, stamped, package, registered, page, shown, text, request>>
    BY <1>4 DEF SessionExpires, BannerLoads, Accept, AcceptEnds, Deploy, Retire, serverVars, tabVars
  <2>2. session' \in {"in", "out"} /\ banner' \in Banners
    BY <1>4 DEF SessionExpires, BannerLoads, Accept, AcceptEnds, Deploy, Retire, tabVars, FormInv,
       Banners
  <2>3. QED
    BY <2>1, <2>2, RowsStay DEF FormInv, HasPackage, Owns
<1>5. CASE ListArrives \/ (\E f : SetFilter(f)) \/ Send \/ RequestFails
           \/ \E t \in Texts : Type(t)
  <2>1. UNCHANGED <<status, paid, stamped, package, registered, session, page, banner>>
    BY <1>5 DEF ListArrives, SetFilter, Send, RequestFails, Type, serverVars
  <2>2. text' \in Texts /\ request' \in {request, "sent", "none"} /\ shown' \in {shown, NoRun}
        /\ (page # "brief" => shown' = shown)
    BY <1>5 DEF ListArrives, SetFilter, Send, RequestFails, Type, FormInv
  <2>3. page \in {"decide", "stripe", "checkout"} => shown' = shown
    BY <2>2
  <2>4. QED
    BY <2>1, <2>2, <2>3, RowsStay DEF FormInv, HasPackage, Owns, Requests
<1>6. CASE \E r \in Mine : ClickCard(r)
  <2>1. PICK r \in Mine : Visit(CardLeadsTo(list.cards[r]), r)
    BY <1>6 DEF ClickCard
  <2>2. CardLeadsTo(list.cards[r]) \in Linked \cup RunPages /\ r \in Runs
    BY DEF CardLeadsTo, Linked, PROTECTED_PREFIXES, RunPages, Runs
  <2>3. QED
    BY <1>2, <2>1, <2>2
<1>7. CASE BriefAnswered \/ CheckoutAnswered
  <2>1. UNCHANGED <<status, paid, stamped, package, registered>> /\ shown \in Runs \cup {NoRun}
    BY <1>7 DEF BriefAnswered, CheckoutAnswered, serverVars, FormInv
  <2>2. CASE \E p \in {"signin", "run"}, r \in {NoRun, shown} : Load(p, r)
    <3>1. {"signin", "run"} \subseteq Pages \ {"decide", "stripe"}
      BY DEF Pages, PROTECTED_PREFIXES, RunPages
    <3>2. QED
      BY <2>1, <2>2, <3>1, LoadForms, RowsStay
  <2>3. CASE request = "stripe" /\ Load("stripe", shown)
    <3>1. Owns(shown) /\ ~paid[shown] /\ "stripe" \in Pages \ {"decide"}
      BY <2>3 DEF FormInv, Pages
    <3>2. shown \in Mine /\ status'[shown] # "none" /\ ~paid'[shown]
      BY <2>1, <3>1 DEF Owns
    <3>3. PICK q \in LandsOn("stripe", shown, session) : Mount(q, shown)
      BY <2>3 DEF Load
    <3>4. q = "stripe"
      BY <3>3 DEF LandsOn, PROTECTED_PREFIXES, RunPages
    <3>5. page' = "stripe" /\ shown' = shown /\ banner' = "none" /\ text' = "" /\ request' = "none"
      BY <3>3, <3>4 DEF Mount, Shell, RunPages
    <3>6. UNCHANGED session
      BY <2>3 DEF Load
    <3>7. QED
      BY <2>1, <3>1, <3>2, <3>5, <3>6, RowsStay DEF FormInv, Owns, Banners, Texts, Requests
  <2>4. QED
    BY <1>7, <2>2, <2>3 DEF BriefAnswered, CheckoutAnswered
<1>8. CASE StripeCanceled
  <2>1. "checkout" \in Linked /\ shown \in Runs \cup {NoRun}
    BY DEF Linked, PROTECTED_PREFIXES, RunPages, FormInv
  <2>2. QED
    BY <1>2, <1>8, <2>1 DEF StripeCanceled
<1>9. QED
  <2>1. "checkout" \in Linked
    BY DEF Linked, PROTECTED_PREFIXES, RunPages
  <2>2. QED
    BY <1>2, <1>3, <1>4, <1>5, <1>6, <1>7, <1>8, <2>1, PostRunsForms, PostCheckoutForms,
       StripeForms, WorkerForms DEF Next, vars

-----------------------------------------------------------------------------
\* The steps of the site open a page with the package it has, or leave the reader and
\* the package on its page alone.
LEMMA PageSteps ==
  ASSUME FormsInv, [Next]_vars
  PROVE  \/ \E p, r : Mount(p, r) /\ (p = "decide" => HasPackage(r) /\ package'[r] = package[r])
         \/ ReaderNext /\ UNCHANGED <<serverVars, tabVars>>
         \/ /\ UNCHANGED readerVars /\ page' = page
            /\ page = "decide" => shown' = shown /\ package'[shown] = package[shown]
<1> USE DEF FormsInv
<1>1. ASSUME NEW p, NEW r, Visit(p, r)
      PROVE  \E q : Mount(q, r) /\ (q = "decide" => HasPackage(r) /\ package'[r] = package[r])
  BY <1>1, DecideHasPackage DEF Visit, serverVars
<1>2. ASSUME NEW p \in Pages \ {"decide"}, NEW r, Load(p, r)
      PROVE  \E q : Mount(q, r) /\ q # "decide"
  BY <1>2, LandsInPages DEF Load
<1>3. {"signin", "run", "stripe"} \subseteq Pages \ {"decide"}
  BY DEF Pages, PROTECTED_PREFIXES, RunPages
<1>4. CASE SignIn \/ SignInRefused \/ SignOut
  BY <1>4 DEF SignIn, SignInRefused, SignOut
<1>5. CASE \/ SessionExpires \/ BannerLoads \/ Accept \/ AcceptEnds \/ ListArrives
           \/ (\E f : SetFilter(f)) \/ (\E t : Type(t)) \/ Send \/ Deploy \/ Retire
  BY <1>5 DEF SessionExpires, BannerLoads, Accept, AcceptEnds, ListArrives, SetFilter, Type, Send,
     Deploy, Retire, serverVars, tabVars
<1>6. CASE PostRuns \/ PostCheckout \/ RequestFails
  BY <1>6 DEF PostRuns, PostCheckout, RequestFails, serverVars
<1>7. CASE BriefAnswered \/ CheckoutAnswered \/ StripePaid
  <2>1. \E p \in {"signin", "run", "stripe"}, r \in {NoRun, shown} : Load(p, r)
    BY <1>7 DEF BriefAnswered, CheckoutAnswered, StripePaid
  <2>2. QED
    BY <1>2, <1>3, <2>1
<1>8. CASE \E r \in Mine : WorkerStarts(r) \/ WorkerEnds(r)
  <2>1. PICK r \in Mine : WorkerStarts(r) \/ WorkerEnds(r)
    BY <1>8
  <2>2. UNCHANGED readerVars /\ UNCHANGED <<page, shown>>
    BY <2>1 DEF WorkerStarts, WorkerEnds, tabVars
  <2>3. r \in Runs /\ package[r] = NoPackage
    BY <2>1 DEF WorkerStarts, WorkerEnds, Runs, RowsInv
  <2>4. page = "decide" => shown \in Runs /\ shown # r
    BY <2>3 DEF FormInv, HasPackage, Owns, Runs
  <2>5. \A q \in Runs \ {r} : package'[q] = package[q]
    BY <2>1 DEF WorkerStarts, WorkerEnds, RowsInv
  <2>6. QED
    BY <2>2, <2>4, <2>5
<1>9. CASE UNCHANGED vars
  BY <1>9 DEF vars, serverVars, tabVars
<1>10. QED
  BY <1>1, <1>4, <1>5, <1>6, <1>7, <1>8, <1>9 DEF Next, ClickCard, StripeCanceled

LEMMA SectionNames ==
  /\ "closed" \notin Sections /\ {"verdict", "audit"} \subseteq Sections
  /\ \A i \in DOMAIN SECTIONS : SECTIONS[i] \in Sections
<1>1. DOMAIN SECTIONS = 1..6
  BY DEF SECTIONS
<1>2. SECTIONS[1] = "verdict" /\ SECTIONS[6] = "audit"
  BY DEF SECTIONS
<1>3. \A i \in 1..6 : SECTIONS[i] # "closed"
  BY DEF SECTIONS
<1>4. QED
  BY <1>1, <1>2, <1>3 DEF Sections

\* The reader stays in the package, in one of its sections.
LEMMA ReaderStays ==
  ASSUME ReaderNext
  PROVE  section # "closed" /\ section' # "closed" /\ pkg' = pkg
<1>1. ASSUME NEW s \in Sections, GoTo(s) PROVE section # "closed" /\ section' # "closed" /\ pkg' = pkg
  BY <1>1, SectionNames DEF GoTo
<1>2. ASSUME NEW d, Rerun(d) \/ JobEnds(d) PROVE section # "closed" /\ UNCHANGED <<section, pkg>>
  BY <1>2 DEF Rerun, JobEnds, ImportEnds, RenderEnds, Diagrams
<1>3. CASE \/ \E n \in DOMAIN Package.nodes : section # "closed" /\ ClickBox(n)
           \/ \E m \in SortModes : SortBy(m)
           \/ ToggleTheme
  BY <1>3 DEF ClickBox, SortBy, ToggleTheme
<1>4. CASE (\E i \in DOMAIN SECTIONS : GoTo(SECTIONS[i])) \/ Pager \/ FollowCite
  BY <1>1, <1>4, SectionNames DEF Pager, FollowCite
<1>5. QED
  BY <1>2, <1>3, <1>4 DEF ReaderNext

LEMMA OpenStep == OpenInv /\ FormsInv /\ [Next]_vars => OpenInv'
<1> SUFFICES ASSUME OpenInv, FormsInv, [Next]_vars PROVE OpenInv'
  OBVIOUS
<1>1. ASSUME NEW p, NEW r, Mount(p, r), p = "decide" => package'[r] = package[r]
      PROVE  OpenInv'
  BY <1>1 DEF Mount, Open, Close, OpenInv, RunPages, readerVars
<1>2. CASE ReaderNext /\ UNCHANGED <<serverVars, tabVars>>
  BY <1>2, ReaderStays DEF OpenInv, serverVars, tabVars
<1>3. CASE /\ UNCHANGED readerVars /\ page' = page
           /\ page = "decide" => shown' = shown /\ package'[shown] = package[shown]
  BY <1>3 DEF OpenInv, readerVars
<1>4. QED
  BY <1>1, <1>2, <1>3, PageSteps

-----------------------------------------------------------------------------
\* A block has one job that may report: the effect leaves the others without one.

LEMMA EffectOneJob ==
  ASSUME NEW b \in Block
  PROVE  OneJob(Effect(b))
<1>1. \A j \in b.jobs : [j EXCEPT !.mounted = FALSE].mounted = FALSE
  BY DEF Block, Job
<1>2. \A j \in Effect(b).jobs : ~j.mounted \/ j = NewJob
  BY <1>1 DEF Effect
<1>3. QED
  BY <1>2 DEF OneJob

LEMMA BlockOneJob ==
  ASSUME DiagramInv, \A d \in Diagrams : OneJob(blocks[d]), UNCHANGED <<pkg, section>>,
         NEW d \in Diagrams, NEW b, OneJob(b), blocks' = [blocks EXCEPT ![d] = b]
  PROVE  \A e \in Diagrams' : OneJob(blocks'[e])
<1>1. Diagrams' = Diagrams
  BY DEF Diagrams, Package
<1>2. blocks'[d] = b /\ \A e \in Diagrams \ {d} : blocks'[e] = blocks[e]
  BY DEF DiagramInv
<1>3. QED
  BY <1>1, <1>2

LEMMA JobsOneJob ==
  ASSUME DiagramInv, \A e \in Diagrams : OneJob(blocks[e]), NEW d \in Diagrams,
         Rerun(d) \/ JobEnds(d)
  PROVE  \A e \in Diagrams' : OneJob(blocks'[e])
<1>1. blocks[d] \in Block /\ OneJob(blocks[d])
  BY DEF DiagramInv
<1>2. UNCHANGED <<pkg, section>>
  BY DEF Rerun, JobEnds, ImportEnds, RenderEnds
<1>3. CASE Rerun(d)
  BY <1>1, <1>2, <1>3, EffectOneJob, BlockOneJob DEF Rerun
<1>4. CASE JobEnds(d)
  <2>1. PICK j \in blocks[d].jobs : ImportEnds(d, j) \/ RenderEnds(d, j)
    BY <1>4 DEF JobEnds
  <2>2. j \in Job
    BY <1>1 DEF Block
  <2>3. OneJob(Dropped(blocks[d], j))
    BY <1>1 DEF OneJob, Dropped, Block
  <2>4. \A s, svg : OneJob(Ended(blocks[d], j, s, svg))
    <3>1. \A s, svg : Ended(blocks[d], j, s, svg).jobs = blocks[d].jobs \ {j}
      BY <1>1 DEF Ended, Block
    <3>2. QED
      BY <1>1, <3>1 DEF OneJob
  <2>5. \A k : k.mounted = j.mounted => OneJob(Rendered(blocks[d], j, k))
    <3>1. \A k : Rendered(blocks[d], j, k).jobs = (blocks[d].jobs \ {j}) \cup {k}
      BY <1>1 DEF Rendered, Block
    <3>2. QED
      BY <1>1, <3>1 DEF OneJob
  <2>6. \E b : OneJob(b) /\ blocks' = [blocks EXCEPT ![d] = b]
    <3>1. CASE blocks' = [blocks EXCEPT ![d] = Dropped(blocks[d], j)]
      BY <2>3, <3>1
    <3>2. CASE \E s, svg : blocks' = [blocks EXCEPT ![d] = Ended(blocks[d], j, s, svg)]
      BY <2>4, <3>2
    <3>3. CASE blocks' = [blocks EXCEPT ![d].jobs =
                            (@ \ {j}) \cup {[j EXCEPT !.stage = "render", !.theme = theme]}]
      <4> DEFINE k == [j EXCEPT !.stage = "render", !.theme = theme]
      <4>1. k.mounted = j.mounted
        BY <2>2 DEF Job
      <4>2. blocks' = [blocks EXCEPT ![d] = Rendered(blocks[d], j, k)]
        BY <3>3 DEF Rendered
      <4> HIDE DEF k
      <4>3. QED
        BY <2>5, <4>1, <4>2
    <3>4. QED
      BY <2>1, <3>1, <3>2, <3>3 DEF ImportEnds, RenderEnds
  <2>7. QED
    BY <1>2, <2>6, BlockOneJob
<1>5. QED
  BY <1>3, <1>4

LEMMA GoToSection ==
  ASSUME NEW s \in Sections, GoTo(s)
  PROVE  SectionInv'
<1>1. section' \in Sections /\ focus' = 0 /\ sortMode' \in SortModes
  BY DEF GoTo, SortModes
<1>2. \A d \in Diagrams' : OneJob(blocks'[d])
  <2>1. CASE s = "system-design"
    <3>1. Diagrams' = DOMAIN Package.sequenceDiagrams
      BY <2>1 DEF Diagrams, Package, GoTo
    <3>2. \A d \in Diagrams' : blocks'[d] = NewBlock
      BY <2>1, <3>1 DEF GoTo
    <3>3. QED
      BY <3>2 DEF OneJob, NewBlock
  <2>2. CASE s # "system-design"
    BY <2>2 DEF GoTo, Diagrams
  <2>3. QED
    BY <2>1, <2>2
<1>3. QED
  BY <1>1, <1>2 DEF SectionInv

LEMMA ReaderSection ==
  ASSUME SectionInv, DiagramInv, ReaderNext
  PROVE  SectionInv'
<1>1. CASE (\E i \in DOMAIN SECTIONS : GoTo(SECTIONS[i])) \/ Pager \/ FollowCite
  BY <1>1, GoToSection, SectionNames DEF Pager, FollowCite
<1>2. CASE \E n \in DOMAIN Package.nodes : ClickBox(n)
  <2>1. PICK n \in DOMAIN Package.nodes : ClickBox(n)
    BY <1>2
  <2>2. UNCHANGED <<pkg, section, sortMode, blocks>> /\ section = "verdict" /\ focus' \in {0, n}
    BY <2>1 DEF ClickBox
  <2>3. Package' = Package /\ Diagrams' = Diagrams
    BY <2>2 DEF Package, Diagrams
  <2>4. QED
    BY <2>1, <2>2, <2>3 DEF SectionInv
<1>3. CASE \E m \in SortModes : SortBy(m)
  <2>1. UNCHANGED <<pkg, section, focus, blocks>> /\ sortMode' \in SortModes
    BY <1>3 DEF SortBy
  <2>2. Package' = Package /\ Diagrams' = Diagrams
    BY <2>1 DEF Package, Diagrams
  <2>3. QED
    BY <2>1, <2>2 DEF SectionInv
<1>4. CASE ToggleTheme
  <2>1. UNCHANGED <<pkg, section, focus, sortMode>>
    BY <1>4 DEF ToggleTheme
  <2>2. Package' = Package /\ Diagrams' = Diagrams
    BY <2>1 DEF Package, Diagrams
  <2>3. \A d \in Diagrams : blocks'[d] = [blocks[d] EXCEPT !.pending = TRUE]
    BY <1>4 DEF ToggleTheme, DiagramInv
  <2>4. \A d \in Diagrams : blocks'[d].jobs = blocks[d].jobs
    BY <2>3 DEF DiagramInv, Block
  <2>5. \A d \in Diagrams : OneJob(blocks'[d])
    BY <2>4 DEF SectionInv, OneJob
  <2>6. QED
    BY <2>1, <2>2, <2>5 DEF SectionInv
<1>5. CASE \E d : Rerun(d) \/ JobEnds(d)
  <2>1. PICK d \in Diagrams : Rerun(d) \/ JobEnds(d)
    BY <1>5 DEF Rerun, JobEnds
  <2>2. UNCHANGED <<pkg, section, focus, sortMode>>
    BY <2>1 DEF Rerun, JobEnds, ImportEnds, RenderEnds
  <2>3. Package' = Package
    BY <2>2 DEF Package
  <2>4. QED
    BY <2>1, <2>2, <2>3, JobsOneJob DEF SectionInv
<1>6. QED
  BY <1>1, <1>2, <1>3, <1>4, <1>5 DEF ReaderNext

LEMMA SectionStep == SectionInv /\ DiagramInv /\ [Next]_vars => SectionInv'
<1> SUFFICES ASSUME SectionInv, DiagramInv, [Next]_vars PROVE SectionInv'
  OBVIOUS
<1>1. ASSUME NEW r, Open(package[r]) \/ Close PROVE SectionInv'
  <2>1. section' \in {"verdict", "closed"} /\ focus' = 0 /\ sortMode' = "tier"
    BY <1>1 DEF Open, Close
  <2>2. QED
    BY <2>1, SectionNames DEF SectionInv, Diagrams, SortModes
<1>2. CASE UNCHANGED readerVars
  <2>1. UNCHANGED <<pkg, section, focus, sortMode, blocks>>
    BY <1>2 DEF readerVars
  <2>2. Package' = Package /\ Diagrams' = Diagrams
    BY <2>1 DEF Package, Diagrams
  <2>3. QED
    BY <2>1, <2>2 DEF SectionInv
<1>3. QED
  BY <1>1, <1>2, SiteSteps, ReaderSection DEF Mount

SiteInv == VersionInv /\ FormsInv /\ OpenInv /\ SectionInv /\ DiagramInv

LEMMA SiteInit ==
  ASSUME MaxVersion \in Nat \ {0}, Init
  PROVE  SiteInv
<1>1. VersionInv
  <2>1. deployed = 1 /\ serving = {1} /\ bundle = 1 /\ pointer = 0
    BY DEF Init
  <2>2. QED
    BY <2>1 DEF VersionInv
<1>2. RowsInv
  BY DEF Init, RowsInv, RunStatus
<1>3. FormInv
  BY DEF Init, FormInv, Pages, Banners, Texts, Requests
<1>4. OpenInv
  BY DEF Init, OpenInv, ReaderInit
<1>5. SectionInv
  BY DEF Init, ReaderInit, SectionInv, SortModes, Diagrams
<1>6. QED
  BY <1>1, <1>2, <1>3, <1>4, <1>5, DiagramInit DEF SiteInv, FormsInv

LEMMA SiteStep ==
  ASSUME MaxVersion \in Nat \ {0}, SiteInv, [Next]_vars
  PROVE  SiteInv'
BY VersionStep, FormsStep, OpenStep, SectionStep, DiagramStep DEF SiteInv

\* Whatever the reader, the worker, the deployments and the payments do, and in whatever
\* order: the tab is on a page of the site with a run that is the reader's own, a package
\* is open on its page alone and is the one stored for the run of that page, the box that
\* is in focus is one of its boxes, and a diagram has one job at most that may report.
THEOREM TypeCorrect ==
  ASSUME MaxVersion \in Nat \ {0}
  PROVE  Spec => []TypeOK
<1>1. Init => SiteInv
  BY SiteInit
<1>2. SiteInv /\ [Next]_vars => SiteInv'
  BY SiteStep
<1>3. SiteInv => TypeOK
  <2>1. SUFFICES ASSUME SiteInv PROVE TypeOK
    OBVIOUS
  <2> USE DEF SiteInv, FormsInv
  <2>2. /\ session \in {"in", "out"} /\ registered \in BOOLEAN
        /\ page \in Pages /\ shown \in Runs \cup {NoRun} /\ banner \in Banners
        /\ text \in Texts /\ request \in Requests
        /\ page = "decide" => HasPackage(shown)
    BY <2>1 DEF FormInv
  <2>3. /\ pkg \in DOMAIN Packages \cup {NoPackage}
        /\ section = "closed" <=> pkg = NoPackage
        /\ IF page = "decide" THEN Owns(shown) /\ pkg = package[shown] ELSE section = "closed"
    BY <2>1, <2>2 DEF OpenInv, HasPackage, Owns, Runs, RowsInv
  <2>4. \A d \in DOMAIN blocks : Cardinality({j \in blocks[d].jobs : j.mounted}) <= 1
    <3>1. SUFFICES ASSUME NEW d \in Diagrams
                   PROVE  Cardinality({j \in blocks[d].jobs : j.mounted}) <= 1
      BY <2>1 DEF DiagramInv
    <3> DEFINE M == {j \in blocks[d].jobs : j.mounted}
    <3>2. \A j, k \in M : j = k
      BY <2>1 DEF SectionInv, OneJob
    <3>3. M = {} \/ \E j : M = {j}
      BY <3>2
    <3>4. Cardinality({}) = 0 /\ \A j : Cardinality({j}) = 1
      BY FS_EmptySet, FS_Singleton
    <3> HIDE DEF M
    <3>5. Cardinality(M) \in {0, 1}
      BY <3>3, <3>4
    <3>6. Cardinality(M) <= 1
      BY <3>5
    <3>7. QED
      BY <3>6 DEF M
  <2>5. /\ DOMAIN blocks = Diagrams
        /\ \A d \in DOMAIN blocks :
             blocks[d].status \in Statuses /\ blocks[d].svg \in Themes \cup {"none"}
    BY <2>1 DEF DiagramInv, Block
  <2>6. ReaderTypeOK
    BY <2>1, <2>3, <2>4, <2>5 DEF ReaderTypeOK, SectionInv, DiagramInv, Sections
  <2>7. QED
    BY <2>1, <2>2, <2>3, <2>6 DEF TypeOK, VersionInv, RowsInv
<1>4. QED
  BY <1>1, <1>2, <1>3, PTL DEF Spec

-----------------------------------------------------------------------------
(* Sorting.                                                                *)

\* The entries of a list up to the i-th, in the order of the keys.
UpToEntry(key, i) == {j \in DOMAIN key : key[j] < key[i] \/ (key[j] = key[i] /\ j <= i)}

\* key gives a list of n entries its order.
IsKey(key, n) == n \in Nat /\ DOMAIN key = 1..n /\ \A i \in 1..n : key[i] \in Int

LEMMA EntriesFinite ==
  ASSUME NEW key, NEW n, IsKey(key, n), NEW i \in 1..n
  PROVE  /\ IsFiniteSet(UpToEntry(key, i)) /\ UpToEntry(key, i) \subseteq 1..n
         /\ Position(key, i) = Cardinality(UpToEntry(key, i))
         /\ Position(key, i) \in 1..n
<1>1. n \in Nat /\ DOMAIN key = 1..n
  BY DEF IsKey
<1>2. UpToEntry(key, i) \subseteq 1..n /\ i \in UpToEntry(key, i)
  BY DEF UpToEntry, IsKey
<1>3. IsFiniteSet(1..n) /\ Cardinality(1..n) = n
  <2>1. 1 > n => n = 0
    BY <1>1
  <2>2. n - 1 + 1 = n
    BY <1>1
  <2>3. QED
    BY <1>1, <2>1, <2>2, FS_Interval
<1>4. IsFiniteSet(UpToEntry(key, i)) /\ Cardinality(UpToEntry(key, i)) <= n
  BY <1>2, <1>3, FS_Subset
<1>5. Cardinality(UpToEntry(key, i)) \in Nat /\ Cardinality(UpToEntry(key, i)) # 0
  BY <1>2, <1>4, FS_CardinalityType, FS_EmptySet
<1>6. Position(key, i) = Cardinality(UpToEntry(key, i))
  BY DEF Position, UpToEntry
<1>7. QED
  BY <1>1, <1>2, <1>4, <1>5, <1>6

\* An entry that comes earlier has the smaller position.
LEMMA PositionOrders ==
  ASSUME NEW key, NEW n, IsKey(key, n), NEW i \in 1..n, NEW j \in 1..n,
         key[j] < key[i] \/ (key[j] = key[i] /\ j < i)
  PROVE  Position(key, j) < Position(key, i)
<1>1. key[i] \in Int /\ key[j] \in Int /\ i \in Int /\ j \in Int
  BY DEF IsKey
<1>2. UpToEntry(key, j) \subseteq UpToEntry(key, i) \ {i} /\ i \in UpToEntry(key, i)
  <2>1. \A k \in UpToEntry(key, j) : k \in 1..n /\ key[k] \in Int
    BY DEF UpToEntry, IsKey
  <2>2. DOMAIN key = 1..n
    BY DEF IsKey
  <2>3. QED
    BY <1>1, <2>1, <2>2 DEF UpToEntry
<1>3. IsFiniteSet(UpToEntry(key, i)) /\ Position(key, i) \in 1..n
  BY EntriesFinite
<1>4. /\ IsFiniteSet(UpToEntry(key, i) \ {i})
      /\ Cardinality(UpToEntry(key, i) \ {i}) = Cardinality(UpToEntry(key, i)) - 1
  BY <1>2, <1>3, FS_RemoveElement
<1>5. Cardinality(UpToEntry(key, j)) <= Cardinality(UpToEntry(key, i) \ {i})
  BY <1>2, <1>4, FS_Subset
<1>6. Position(key, j) \in 1..n /\ Position(key, j) = Cardinality(UpToEntry(key, j))
      /\ Position(key, i) = Cardinality(UpToEntry(key, i))
  BY EntriesFinite
<1>7. QED
  BY <1>3, <1>4, <1>5, <1>6

\* Sorting lists every entry once, at its position.
LEMMA SortedLists ==
  ASSUME NEW key, NEW n, IsKey(key, n)
  PROVE  /\ DOMAIN Sorted(key) = 1..n
         /\ \A p \in 1..n : Sorted(key)[p] \in 1..n /\ Position(key, Sorted(key)[p]) = p
         /\ \A i \in 1..n : Position(key, i) \in 1..n /\ Sorted(key)[Position(key, i)] = i
         /\ \A i, j \in 1..n : Position(key, i) = Position(key, j) => i = j
<1> DEFINE f == [i \in 1..n |-> Position(key, i)]
<1>1. n \in Nat /\ DOMAIN key = 1..n
  BY DEF IsKey
<1>2. f \in [1..n -> 1..n]
  BY EntriesFinite
<1>3. ASSUME NEW i \in 1..n, NEW j \in 1..n, Position(key, i) = Position(key, j) PROVE i = j
  <2>1. Position(key, i) \in Int
    BY EntriesFinite
  <2>2. ~(Position(key, j) < Position(key, i)) /\ ~(Position(key, i) < Position(key, j))
    BY <1>3, <2>1
  <2>3. key[i] \in Int /\ key[j] \in Int /\ i \in Int /\ j \in Int
    BY DEF IsKey
  <2>4. i # j => \/ key[j] < key[i] \/ (key[j] = key[i] /\ j < i)
                 \/ key[i] < key[j] \/ (key[i] = key[j] /\ i < j)
    BY <2>3
  <2>5. QED
    BY <2>2, <2>4, PositionOrders
<1>4. f \in Injection(1..n, 1..n)
  BY <1>2, <1>3 DEF Injection, IsInjective
<1>5. IsFiniteSet(1..n)
  BY <1>1, FS_Interval
<1>6. f \in Surjection(1..n, 1..n)
  BY <1>4, <1>5, FS_Injection
<1>7. \A p \in 1..n : \E i \in 1..n : Position(key, i) = p
  BY <1>6 DEF Surjection
<1>8. \A p \in 1..n : Sorted(key)[p] \in 1..n /\ Position(key, Sorted(key)[p]) = p
  BY <1>1, <1>7 DEF Sorted
<1>9. \A i \in 1..n : Position(key, i) \in 1..n /\ Sorted(key)[Position(key, i)] = i
  BY <1>3, <1>8, EntriesFinite
<1>10. DOMAIN Sorted(key) = 1..n
  BY <1>1 DEF Sorted
<1>11. QED
  BY <1>3, <1>8, <1>9, <1>10

\* An entry is among the first n when no more than n have keys up to its own.
LEMMA PositionBound ==
  ASSUME NEW key, NEW n, IsKey(key, n), NEW i \in 1..n, NEW A \in SUBSET (1..n),
         \A j \in 1..n : key[j] <= key[i] => j \in A
  PROVE  Position(key, i) <= Cardinality(A)
<1>1. UpToEntry(key, i) \subseteq A
  BY DEF UpToEntry, IsKey
<1>2. IsFiniteSet(A)
  <2>1. IsFiniteSet(1..n)
    BY FS_Interval DEF IsKey
  <2>2. QED
    BY <2>1, FS_Subset
<1>3. QED
  BY <1>1, <1>2, EntriesFinite, FS_Subset

LEMMA FirstLists ==
  ASSUME NEW key, NEW n, IsKey(key, n), NEW k \in Nat
  PROVE  /\ First(key, k) = {i \in 1..n : Position(key, i) <= k}
         /\ IsFiniteSet(First(key, k))
         /\ Cardinality(First(key, k)) = IF k <= n THEN k ELSE n
         /\ First(key, k) = {Sorted(key)[p] : p \in 1..Cardinality(First(key, k))}
<1> DEFINE m == IF k <= n THEN k ELSE n
           g == [p \in 1..m |-> Sorted(key)[p]]
<1>1. n \in Nat /\ m \in Nat /\ 1..m \subseteq 1..n /\ DOMAIN key = 1..n
  BY DEF IsKey
<1>2. First(key, k) = {i \in 1..n : Position(key, i) <= k}
  BY <1>1 DEF First
<1>3. ASSUME NEW i \in First(key, k) PROVE \E p \in 1..m : Sorted(key)[p] = i
  <2>1. Position(key, i) \in 1..n /\ Position(key, i) <= k /\ Sorted(key)[Position(key, i)] = i
    BY <1>2, SortedLists
  <2>2. Position(key, i) \in 1..m
    BY <1>1, <2>1
  <2>3. QED
    BY <2>1, <2>2
<1>4. ASSUME NEW p \in 1..m PROVE Sorted(key)[p] \in First(key, k)
  <2>1. p \in 1..n /\ p <= k
    BY <1>1
  <2>2. QED
    BY <1>2, <2>1, SortedLists
<1>5. ASSUME NEW p \in 1..m, NEW q \in 1..m, Sorted(key)[p] = Sorted(key)[q] PROVE p = q
  <2>1. Position(key, Sorted(key)[p]) = p /\ Position(key, Sorted(key)[q]) = q
    BY <1>1, SortedLists
  <2>2. QED
    BY <1>5, <2>1
<1>6. g \in Bijection(1..m, First(key, k))
  <2>1. g \in [1..m -> First(key, k)]
    BY <1>4
  <2>2. g \in Injection(1..m, First(key, k))
    BY <1>5, <2>1 DEF Injection, IsInjective
  <2>3. g \in Surjection(1..m, First(key, k))
    BY <1>3, <2>1 DEF Surjection
  <2>4. QED
    BY <2>2, <2>3 DEF Bijection
<1>7. IsFiniteSet(1..m) /\ Cardinality(1..m) = m
  <2>1. 1 > m => m = 0
    BY <1>1
  <2>2. m - 1 + 1 = m
    BY <1>1
  <2>3. QED
    BY <1>1, <2>1, <2>2, FS_Interval
<1>8. IsFiniteSet(First(key, k)) /\ Cardinality(First(key, k)) = m
  BY <1>6, <1>7, FS_Bijection DEF ExistsBijection
<1>9. First(key, k) = {Sorted(key)[p] : p \in 1..m}
  BY <1>3, <1>4
<1>10. QED
  BY <1>2, <1>8, <1>9

-----------------------------------------------------------------------------
(* Risks.                                                                  *)

\* The levels, the keys of the risks, and the one cell of each.
LEMMA Levels == /\ DOMAIN LEVEL = {"high", "med", "low"}
                /\ LEVEL["high"] = 0 /\ LEVEL["med"] = 1 /\ LEVEL["low"] = 2
BY DEF LEVEL

LEMMA RiskKeys ==
  ASSUME NEW p, RisksOK(p), NEW n \in Nat, DOMAIN p.risks = 1..n
  PROVE  /\ IsKey(RiskKey(p.risks), n)
         /\ \A i \in 1..n : RiskKey(p.risks)[i] =
              3 * LEVEL[p.risks[i].severity] + LEVEL[p.risks[i].likelihood]
         /\ \A i \in 1..n : LEVEL[p.risks[i].severity] \in 0..2 /\ LEVEL[p.risks[i].likelihood] \in 0..2
<1>1. \A i \in 1..n : LEVEL[p.risks[i].severity] \in 0..2 /\ LEVEL[p.risks[i].likelihood] \in 0..2
  BY Levels DEF RisksOK
<1>2. \A i \in 1..n : RiskKey(p.risks)[i] =
        3 * LEVEL[p.risks[i].severity] + LEVEL[p.risks[i].likelihood]
  BY DEF RiskKey
<1>3. DOMAIN RiskKey(p.risks) = 1..n
  BY DEF RiskKey
<1>4. \A i \in 1..n : RiskKey(p.risks)[i] \in Int
  BY <1>1, <1>2
<1>5. QED
  BY <1>1, <1>2, <1>3, <1>4 DEF IsKey

LEMMA OneCell ==
  ASSUME NEW p, RisksOK(p), NEW i \in DOMAIN p.risks
  PROVE  /\ Cardinality({c \in DOMAIN RiskHeatmap(p.risks) : i \in RiskHeatmap(p.risks)[c]}) = 1
         /\ \A s, l \in {"high", "med", "low"} :
              RiskHeatmap(p.risks)[<<s, l>>] = HeatmapCell(p.risks, s, l)
<1> DEFINE map == RiskHeatmap(p.risks)
           cell == <<p.risks[i].severity, p.risks[i].likelihood>>
           L == {"high", "med", "low"}
<1>1. DOMAIN map = L \X L /\ \A s, l \in L : map[<<s, l>>] = HeatmapCell(p.risks, s, l)
  <2> DEFINE D == DOMAIN LEVEL
  <2>1. D = L
    BY Levels
  <2>2. map = [c \in D \X D |-> HeatmapCell(p.risks, c[1], c[2])]
    BY Zenon DEF RiskHeatmap
  <2> HIDE DEF map, D
  <2>3. DOMAIN map = D \X D /\ \A s, l \in D : map[<<s, l>>] = HeatmapCell(p.risks, s, l)
    BY <2>2
  <2>4. QED
    BY <2>1, <2>3
<1>2. {c \in DOMAIN map : i \in map[c]} = {cell}
  <2>1. p.risks[i].severity \in L /\ p.risks[i].likelihood \in L
    BY Levels DEF RisksOK
  <2> HIDE DEF map
  <2>2. \A s, l \in L : i \in map[<<s, l>>] <=> <<s, l>> = cell
    BY <1>1 DEF HeatmapCell
  <2>3. QED
    BY <1>1, <2>1, <2>2
<1>3. QED
  BY <1>1, <1>2, FS_Singleton

\* The cards of a list of n entries sorted by key.
LEMMA CardsInOrder ==
  ASSUME NEW key, NEW n, IsKey(key, n), NEW cards, DOMAIN cards = 1..n,
         \A q \in 1..n : cards[q].entry = Sorted(key)[q]
  PROVE  \A i \in 1..n : /\ Position(key, i) \in DOMAIN cards
                         /\ \A q \in DOMAIN cards : cards[q].entry = i <=> q = Position(key, i)
BY SortedLists

LEMMA RisksMatch ==
  ASSUME RisksOK(Package)
  PROVE  RisksAgree
<1> DEFINE p == Package
           key == RiskKey(p.risks)
           v == Verdict(Package)
           r == Risks(Package)
<1>1. PICK n \in Nat : DOMAIN p.risks = 1..n
  BY DEF RisksOK, IsList
<1>2. /\ IsKey(key, n)
      /\ \A i \in 1..n : key[i] = 3 * LEVEL[p.risks[i].severity] + LEVEL[p.risks[i].likelihood]
      /\ \A i \in 1..n : LEVEL[p.risks[i].severity] \in 0..2 /\ LEVEL[p.risks[i].likelihood] \in 0..2
  BY <1>1, RiskKeys
<1>3. /\ r.heatmap = RiskHeatmap(p.risks)
      /\ r.cards = [q \in DOMAIN Sorted(key) |-> RiskCard(p, Sorted(key)[q])]
      /\ v.watchOut = First(key, 3) /\ v.card.summary.risk = First(key, 1)
  BY DEF Risks, Verdict, sortRisks, topRisks, topRisk, ExecutiveSummaryCard, deriveExecutiveSummary
<1> HIDE DEF p, key, v, r
<1>4. /\ DOMAIN r.cards = 1..n
      /\ \A q \in 1..n : r.cards[q].entry = Sorted(key)[q]
                         /\ r.cards[q].source = SourceOf(p, p.risks[Sorted(key)[q]].cite)
  BY <1>2, <1>3, SortedLists DEF RiskCard
<1> DEFINE Place(i) == CHOOSE q \in DOMAIN r.cards : r.cards[q].entry = i
<1>5. \A i \in 1..n : Place(i) = Position(key, i) /\ \E q \in DOMAIN r.cards : r.cards[q].entry = i
  <2>1. ASSUME NEW i \in 1..n
        PROVE  /\ Position(key, i) \in DOMAIN r.cards
               /\ \A q \in DOMAIN r.cards : r.cards[q].entry = i <=> q = Position(key, i)
    BY <1>2, <1>4, CardsInOrder
  <2>2. QED
    BY <2>1
<1> HIDE DEF Place
<1>6. ShowAll(r.cards, p.risks)
  <2>1. Len(r.cards) = Len(p.risks)
    BY <1>1, <1>4
  <2>2. \A q \in 1..n : r.cards[q].source # {}
    <3>1. \A i \in 1..n : SourceOf(p, p.risks[i].cite) # {}
      BY <1>1 DEF SourceOf, RisksOK, CitesSources, p
    <3>2. \A q \in 1..n : Sorted(key)[q] \in 1..n
      BY <1>2, SortedLists
    <3>3. QED
      BY <1>4, <3>1, <3>2
  <2>3. QED
    BY <1>1, <1>4, <1>5, <2>1, <2>2 DEF ShowAll
<1>7. v.watchOut = {r.cards[q].entry : q \in 1..Cardinality(v.watchOut)}
  <2>1. /\ First(key, 3) = {Sorted(key)[q] : q \in 1..Cardinality(First(key, 3))}
        /\ Cardinality(First(key, 3)) = IF 3 <= n THEN 3 ELSE n
    BY <1>2, FirstLists
  <2>2. 1..Cardinality(First(key, 3)) \subseteq 1..n
    BY <2>1
  <2>3. QED
    BY <1>3, <1>4, <2>1, <2>2
<1>8. \A i \in v.card.summary.risk : Place(i) = 1
  <2>1. First(key, 1) = {i \in 1..n : Position(key, i) <= 1}
    BY <1>2, FirstLists
  <2>2. \A i \in 1..n : Position(key, i) \in 1..n
    BY <1>2, SortedLists
  <2>3. QED
    BY <1>3, <1>5, <2>1, <2>2
<1>9. \A i \in DOMAIN p.risks : Cardinality({c \in DOMAIN r.heatmap : i \in r.heatmap[c]}) = 1
  <2> DEFINE map == RiskHeatmap(p.risks)
  <2>1. \A i \in DOMAIN p.risks : Cardinality({c \in DOMAIN map : i \in map[c]}) = 1
    BY OneCell DEF p
  <2> HIDE DEF map
  <2>2. r.heatmap = map
    BY <1>3 DEF map
  <2>3. QED
    BY <2>1, <2>2
<1>10. ASSUME NEW i \in DOMAIN p.risks, NEW l \in {"high", "med"}, i \in r.heatmap[<<"high", l>>]
       PROVE  Place(i) <= Cardinality(r.heatmap[<<"high", "high">>] \cup r.heatmap[<<"high", l>>])
  <2> DEFINE A == r.heatmap[<<"high", "high">>] \cup r.heatmap[<<"high", l>>]
  <2>1. \A s, k \in {"high", "med", "low"} : r.heatmap[<<s, k>>] = HeatmapCell(p.risks, s, k)
    BY <1>3, OneCell DEF p
  <2>2. A = {j \in 1..n : p.risks[j].severity = "high" /\ p.risks[j].likelihood \in {"high", l}}
    BY <1>1, <2>1 DEF HeatmapCell
  <2>3. p.risks[i].severity = "high" /\ p.risks[i].likelihood = l
    BY <1>10, <2>1 DEF HeatmapCell
  <2>4. ASSUME NEW j \in 1..n, key[j] <= key[i] PROVE j \in A
    <3>1. /\ p.risks[j].severity \in {"high", "med", "low"}
          /\ p.risks[j].likelihood \in {"high", "med", "low"}
      BY <1>1, Levels DEF RisksOK, p
    <3>2. key[i] = LEVEL[l] /\ (l = "high" => key[i] = 0) /\ (l = "med" => key[i] = 1)
      <4>1. key[i] = 3 * LEVEL["high"] + LEVEL[l]
        BY <1>1, <1>2, <2>3
      <4>2. QED
        BY <4>1, Levels
    <3>3. key[j] = 3 * LEVEL[p.risks[j].severity] + LEVEL[p.risks[j].likelihood]
          /\ LEVEL[p.risks[j].severity] \in 0..2 /\ LEVEL[p.risks[j].likelihood] \in 0..2
      BY <1>2
    <3>4. LEVEL[p.risks[j].severity] = 0 /\ LEVEL[p.risks[j].likelihood] <= key[i]
      BY <2>4, <3>2, <3>3
    <3>5. p.risks[j].severity = "high" /\ p.risks[j].likelihood \in {"high", l}
      BY <3>1, <3>2, <3>4, Levels
    <3>6. QED
      BY <2>2, <3>5
  <2>5. A \in SUBSET (1..n)
    BY <2>2
  <2> HIDE DEF A
  <2>6. Position(key, i) <= Cardinality(A)
    BY <1>1, <1>2, <2>4, <2>5, PositionBound
  <2>7. QED
    BY <1>1, <1>5, <2>6 DEF A
<1>11. QED
  <2> DEFINE At(i) == CHOOSE q \in DOMAIN r.cards : r.cards[q].entry = i
  <2>1. RisksAgree <=>
          /\ ShowAll(r.cards, p.risks)
          /\ v.watchOut = {r.cards[q].entry : q \in 1..Cardinality(v.watchOut)}
          /\ \A i \in v.card.summary.risk : At(i) = 1
          /\ \A i \in DOMAIN p.risks :
               Cardinality({c \in DOMAIN r.heatmap : i \in r.heatmap[c]}) = 1
          /\ \A i \in DOMAIN p.risks : \A l \in {"high", "med"} :
               i \in r.heatmap[<<"high", l>>] =>
                 At(i) <= Cardinality(r.heatmap[<<"high", "high">>] \cup r.heatmap[<<"high", l>>])
    BY Zenon DEF RisksAgree, p, v, r
  <2>2. \A i : At(i) = Place(i)
    BY Zenon DEF Place
  <2> HIDE DEF At
  <2>3. QED
    BY <1>6, <1>7, <1>8, <1>9, <1>10, <2>1, <2>2

-----------------------------------------------------------------------------
(* Decisions.                                                              *)

LEMMA DecisionKeys ==
  ASSUME NEW p, DecisionsOK(p), NEW n \in Nat, DOMAIN p.decisions = 1..n
  PROVE  /\ IsKey(HeadlineKey(p.decisions), n) /\ IsKey(StackKey(p.decisions), n)
         /\ \A i \in 1..n : HeadlineKey(p.decisions)[i] \in
              3 * StackKey(p.decisions)[i]..3 * StackKey(p.decisions)[i] + 2
         /\ IsKey([i \in DOMAIN p.decisions |-> LEVEL[p.decisions[i].conf]], n)
         /\ IsKey([i \in DOMAIN p.decisions |-> BLAST_ORDER[p.decisions[i].blastRadius]], n)
         /\ IsKey([i \in DOMAIN p.decisions |-> IF Foundational(p.decisions[i]) THEN 0 ELSE 1], n)
<1> DEFINE ds == p.decisions
           conf(i) == LEVEL[ds[i].conf]
           rev(i) == REV_ORDER[ds[i].reversibility]
           blast(i) == BLAST_ORDER[ds[i].blastRadius]
<1>1. \A i \in 1..n : conf(i) \in 0..2
  BY Levels DEF DecisionsOK
<1>2. \A i \in 1..n : rev(i) \in 0..1
  BY DEF DecisionsOK, REV_ORDER
<1>3. \A i \in 1..n : blast(i) \in 0..2
  <2>1. BLAST_ORDER["platform"] = 0 /\ BLAST_ORDER["data"] = 1 /\ BLAST_ORDER["service"] = 2
    BY DEF BLAST_ORDER
  <2>2. DOMAIN BLAST_ORDER = {"platform", "data", "service"}
    BY DEF BLAST_ORDER
  <2>3. QED
    BY <2>1, <2>2 DEF DecisionsOK
<1>4. /\ HeadlineKey(ds) = [i \in 1..n |-> 6 * conf(i) + 3 * rev(i) + blast(i)]
      /\ StackKey(ds) = [i \in 1..n |-> 2 * conf(i) + rev(i)]
  BY DEF HeadlineKey, StackKey
<1> HIDE DEF conf, rev, blast
<1>5. /\ \A i \in 1..n : HeadlineKey(ds)[i] \in 3 * StackKey(ds)[i]..3 * StackKey(ds)[i] + 2
      /\ \A i \in 1..n : HeadlineKey(ds)[i] \in Int /\ StackKey(ds)[i] \in Int
  <2>1. \A a, c \in 0..2, b \in 0..1 :
          /\ 6 * a + 3 * b + c \in 3 * (2 * a + b)..3 * (2 * a + b) + 2
          /\ 6 * a + 3 * b + c \in Int /\ 2 * a + b \in Int
    OBVIOUS
  <2>2. ASSUME NEW i \in 1..n
        PROVE  /\ HeadlineKey(ds)[i] = 6 * conf(i) + 3 * rev(i) + blast(i)
               /\ StackKey(ds)[i] = 2 * conf(i) + rev(i)
    BY <1>4
  <2>3. QED
    BY <1>1, <1>2, <1>3, <2>1, <2>2
<1>6. DOMAIN HeadlineKey(ds) = 1..n /\ DOMAIN StackKey(ds) = 1..n
  BY <1>4
<1>7. IsKey(HeadlineKey(ds), n) /\ IsKey(StackKey(ds), n)
  BY <1>5, <1>6 DEF IsKey
<1>8. /\ IsKey([i \in DOMAIN ds |-> LEVEL[ds[i].conf]], n)
      /\ IsKey([i \in DOMAIN ds |-> BLAST_ORDER[ds[i].blastRadius]], n)
      /\ IsKey([i \in DOMAIN ds |-> IF Foundational(ds[i]) THEN 0 ELSE 1], n)
  BY <1>1, <1>3 DEF IsKey, conf, blast
<1>9. QED
  BY <1>5, <1>7, <1>8

\* What comes before j by one key comes strictly before i by the other.
LEMMA Outranks ==
  ASSUME NEW n, NEW key, IsKey(key, n), NEW other, IsKey(other, n), NEW i \in 1..n, NEW j \in 1..n,
         \A k \in 1..n : other[k] <= other[j] => key[k] < key[i]
  PROVE  Position(other, j) < Position(key, i)
<1> DEFINE A == UpToEntry(key, i) \ {i}
<1>1. IsFiniteSet(UpToEntry(key, i)) /\ UpToEntry(key, i) \subseteq 1..n
      /\ Position(key, i) = Cardinality(UpToEntry(key, i)) /\ Position(key, i) \in 1..n
  BY EntriesFinite
<1>2. i \in UpToEntry(key, i)
  BY DEF UpToEntry, IsKey
<1>3. Cardinality(A) = Position(key, i) - 1
  BY <1>1, <1>2, FS_RemoveElement
<1>4. ASSUME NEW k \in 1..n, other[k] <= other[j] PROVE k \in A
  <2>1. key[k] < key[i] /\ key[k] \in Int /\ key[i] \in Int /\ DOMAIN key = 1..n
    BY <1>4 DEF IsKey
  <2>2. QED
    BY <2>1 DEF UpToEntry
<1>5. A \in SUBSET (1..n)
  BY <1>1
<1> HIDE DEF A
<1>6. Position(other, j) <= Cardinality(A)
  BY <1>4, <1>5, PositionBound
<1>7. Position(other, j) \in 1..n
  BY EntriesFinite
<1>8. n \in Int
  BY DEF IsKey
<1>9. QED
  BY <1>1, <1>3, <1>6, <1>7, <1>8

\* Every order of the cards lists every decision.
LEMMA OrderLists ==
  ASSUME NEW p, DecisionsOK(p), NEW n \in Nat, DOMAIN p.decisions = 1..n, NEW mode \in SortModes
  PROVE  /\ DOMAIN DecisionOrder(p.decisions, mode) = 1..n
         /\ \A i \in 1..n : \E q \in 1..n : DecisionOrder(p.decisions, mode)[q] = i
         /\ \A q \in 1..n : DecisionOrder(p.decisions, mode)[q] \in 1..n
<1>1. CASE mode = "order"
  <2>1. DecisionOrder(p.decisions, mode) = [i \in 1..n |-> i]
    BY <1>1 DEF DecisionOrder, InOrder
  <2>2. QED
    BY <2>1
<1>2. CASE mode # "order"
  <2>1. PICK key : IsKey(key, n) /\ DecisionOrder(p.decisions, mode) = Sorted(key)
    BY <1>2, DecisionKeys DEF DecisionOrder, Tiers, SortModes
  <2>2. QED
    BY <2>1, SortedLists
<1>3. QED
  BY <1>1, <1>2

LEMMA DecisionsMatch ==
  ASSUME DecisionsOK(Package), sortMode \in SortModes
  PROVE  DecisionsAgree
<1> DEFINE p == Package
           head == HeadlineKey(p.decisions)
           weight == StackKey(p.decisions)
           headline == First(head, 5)
           stack == First(weight, 4)
           cards == Decisions(p)
<1>1. PICK n \in Nat : DOMAIN p.decisions = 1..n
  BY DEF DecisionsOK, IsList
<1>2. /\ IsKey(head, n) /\ IsKey(weight, n)
      /\ \A i \in 1..n : head[i] \in 3 * weight[i]..3 * weight[i] + 2
  BY <1>1, DecisionKeys
<1>3. /\ headline = {i \in 1..n : Position(head, i) <= 5}
      /\ stack = {i \in 1..n : Position(weight, i) <= 4}
  BY <1>2, FirstLists
<1> HIDE DEF head, weight, headline, stack, cards
<1>4. \A i \in 1..n : weight[i] \in Int /\ head[i] \in Int
      /\ Position(head, i) \in 1..n /\ Position(weight, i) \in 1..n
  BY <1>2, EntriesFinite DEF IsKey
<1>5. ASSUME NEW i \in headline \cup stack, NEW j \in 1..n, weight[j] < weight[i]
      PROVE  j \in stack /\ j \in headline
  <2>1. i \in 1..n
    BY <1>3
  <2>2. Position(head, j) < Position(head, i) /\ Position(weight, j) < Position(head, i)
    <3>1. \A k \in 1..n : head[k] <= head[j] => head[k] < head[i]
      BY <1>2, <1>4, <1>5, <2>1
    <3>2. \A k \in 1..n : weight[k] <= weight[j] => head[k] < head[i]
      BY <1>2, <1>4, <1>5, <2>1
    <3>3. QED
      BY <1>2, <2>1, <3>1, <3>2, Outranks
  <2>3. Position(head, j) < Position(weight, i) /\ Position(weight, j) < Position(weight, i)
    <3>1. \A k \in 1..n : head[k] <= head[j] => weight[k] < weight[i]
      BY <1>2, <1>4, <1>5, <2>1
    <3>2. \A k \in 1..n : weight[k] <= weight[j] => weight[k] < weight[i]
      BY <1>2, <1>4, <1>5, <2>1
    <3>3. QED
      BY <1>2, <2>1, <3>1, <3>2, Outranks
  <2>4. QED
    BY <1>3, <1>4, <1>5, <2>1, <2>2, <2>3
<1>6. ASSUME NEW i \in stack \ headline, NEW j \in headline \ stack
      PROVE  weight[i] <= weight[j]
  <2>1. i \in 1..n /\ j \in 1..n
    BY <1>3
  <2>2. ~(weight[j] < weight[i])
    BY <1>5, <1>6, <2>1
  <2>3. QED
    BY <1>4, <2>1, <2>2
<1>7. ShowAll(cards, p.decisions)
  <2> DEFINE order == DecisionOrder(p.decisions, sortMode)
  <2>1. /\ DOMAIN order = 1..n /\ \A i \in 1..n : \E q \in 1..n : order[q] = i
        /\ \A q \in 1..n : order[q] \in 1..n
    BY <1>1, OrderLists
  <2>2. cards = [q \in DOMAIN order |-> DecisionCard(p, order[q])]
    BY DEF cards, Decisions
  <2> HIDE DEF order
  <2>3. /\ DOMAIN cards = 1..n
        /\ \A q \in 1..n : /\ cards[q].entry = order[q]
                           /\ cards[q].source = SourceOf(p, p.decisions[order[q]].cite)
    BY <2>1, <2>2 DEF DecisionCard
  <2>4. \A i \in 1..n : SourceOf(p, p.decisions[i].cite) # {}
    BY <1>1 DEF SourceOf, DecisionsOK, CitesSources
  <2> HIDE DEF p
  <2>5. Len(cards) = Len(p.decisions)
    BY <1>1, <2>3
  <2>6. \A i \in 1..n : \E q \in 1..n : cards[q].entry = i
    BY <2>1, <2>3
  <2>7. ASSUME NEW q \in 1..n PROVE cards[q].source # {}
    <3>1. order[q] \in 1..n /\ cards[q].source = SourceOf(p, p.decisions[order[q]].cite)
      BY <2>1, <2>3
    <3>2. QED
      BY <2>4, <3>1
  <2>8. QED
    BY <1>1, <2>3, <2>5, <2>6, <2>7 DEF ShowAll
<1>8. /\ Verdict(Package).card.summary.picks = headline /\ Verdict(Package).stack = stack
  BY DEF Verdict, ExecutiveSummaryCard, deriveExecutiveSummary, headlinePicks, topStackPicks,
         headline, stack, head, weight
<1>9. QED
  BY <1>1, <1>5, <1>6, <1>7, <1>8 DEF DecisionsAgree, weight, cards

-----------------------------------------------------------------------------
(* The verdict.                                                            *)

\* The least and the greatest of finitely many numbers.
Least(f, n) == Min({f[j] : j \in 1..n})
Greatest(f, n) == Max({f[j] : j \in 1..n})

LEMMA Bounds ==
  ASSUME NEW n \in Nat, NEW f, \A i \in 1..n : f[i] \in Nat, NEW i \in 1..n
  PROVE  Least(f, n) \in Nat /\ Greatest(f, n) \in Nat
         /\ Least(f, n) <= f[i] /\ f[i] <= Greatest(f, n)
<1> DEFINE S == {f[j] : j \in 1..n}
<1>1. S \in SUBSET Nat /\ S # {}
  OBVIOUS
<1>2. IsFiniteSet(1..n) /\ 1..n # {}
  <2>1. IsFiniteSet(1..n)
    BY FS_Interval
  <2>2. QED
    BY <2>1
<1>3. PICK k \in 1..n : \A j \in 1..n : f[j] <= f[k]
  BY <1>2, MostExists
<1>4. PICK m \in S : \A y \in S : m <= y
  BY <1>1, LeastNat
<1>5. Min(S) \in S /\ \A y \in S : Min(S) <= y
  BY <1>4 DEF Min
<1>6. Max(S) \in S /\ \A y \in S : Max(S) >= y
  <2>1. f[k] \in S /\ \A y \in S : f[k] >= y
    BY <1>3
  <2>2. QED
    BY <2>1 DEF Max
<1>7. f[i] \in S
  OBVIOUS
<1> HIDE DEF S
<1>8. Min(S) \in Nat /\ Max(S) \in Nat /\ Min(S) <= f[i] /\ f[i] <= Max(S)
  BY <1>1, <1>5, <1>6, <1>7
<1>9. QED
  BY <1>8 DEF S, Least, Greatest

LEMMA SpreadOnCanvas ==
  ASSUME NEW lo \in Nat, NEW hi \in Nat, NEW v \in Nat, lo <= v, v <= hi,
         NEW from \in Nat, NEW to \in Nat, from <= to
  PROVE  Spread(lo, hi, v, from, to) \in from..to
<1> DEFINE w == Max({hi - lo, 1})
           a == v - lo
           c == to - from
           q == (a * c) \div w
<1>1. w \in {hi - lo, 1} /\ w >= hi - lo /\ w >= 1
  <2>1. \E x \in {hi - lo, 1} : \A y \in {hi - lo, 1} : x >= y
    <3>1. CASE hi - lo >= 1
      BY <3>1
    <3>2. CASE 1 >= hi - lo
      BY <3>2
    <3>3. QED
      BY <3>1, <3>2
  <2>2. QED
    BY <2>1 DEF Max
<1>2. w \in Nat /\ w > 0 /\ a \in Nat /\ a <= w /\ c \in Nat
  BY <1>1
<1> HIDE DEF w, a, c
<1>3. a * c \in Nat /\ a * c <= w * c
  BY <1>2
<1>4. q \in Nat /\ w * q <= a * c
  BY <1>2, <1>3, Quotient
<1> HIDE DEF q
<1>5. q <= c
  <2>1. w * q <= w * c
    BY <1>2, <1>3, <1>4
  <2>2. QED
    BY <1>2, <1>4, <2>1
<1>6. Spread(lo, hi, v, from, to) = from + q
  BY DEF Spread, q, a, c, w
<1>7. QED
  BY <1>4, <1>5, <1>6 DEF c

\* Every box is on the canvas.
LEMMA BoxesOnCanvas ==
  ASSUME NEW p, ArchitectureOK(p), NEW i \in DOMAIN p.nodes
  PROVE  Boxes(p.nodes)[i] \in (9..91) \X (9..86)
<1> DEFINE ns == p.nodes
           fx == [j \in DOMAIN ns |-> ns[j].x]
           fy == [j \in DOMAIN ns |-> ns[j].y]
<1>1. PICK n \in Nat : DOMAIN ns = 1..n
  BY DEF ArchitectureOK, IsList
<1>2. \A j \in 1..n : fx[j] \in Nat /\ fy[j] \in Nat /\ fx[j] = ns[j].x /\ fy[j] = ns[j].y
  BY <1>1 DEF ArchitectureOK
<1> HIDE DEF ns, fx, fy
<1>3. i \in 1..n
  BY <1>1 DEF ns
<1>4. /\ Least(fx, n) \in Nat /\ Greatest(fx, n) \in Nat
      /\ Least(fx, n) <= fx[i] /\ fx[i] <= Greatest(fx, n)
  BY <1>2, <1>3, Bounds
<1>5. /\ Least(fy, n) \in Nat /\ Greatest(fy, n) \in Nat
      /\ Least(fy, n) <= fy[i] /\ fy[i] <= Greatest(fy, n)
  BY <1>2, <1>3, Bounds
<1>6. /\ {ns[j].x : j \in DOMAIN ns} = {fx[j] : j \in 1..n}
      /\ {ns[j].y : j \in DOMAIN ns} = {fy[j] : j \in 1..n}
  BY <1>1, <1>2
<1>7. Min({ns[j].x : j \in DOMAIN ns}) = Least(fx, n)
      /\ Max({ns[j].x : j \in DOMAIN ns}) = Greatest(fx, n)
      /\ Min({ns[j].y : j \in DOMAIN ns}) = Least(fy, n)
      /\ Max({ns[j].y : j \in DOMAIN ns}) = Greatest(fy, n)
  BY <1>6, Zenon DEF Least, Greatest
<1>8. Boxes(ns)[i] = <<Spread(Least(fx, n), Greatest(fx, n), fx[i], 9, 91),
                       Spread(Least(fy, n), Greatest(fy, n), fy[i], 9, 86)>>
  BY <1>1, <1>2, <1>3, <1>7 DEF Boxes
<1>9. /\ fx[i] \in Nat /\ fy[i] \in Nat /\ 9 \in Nat /\ 91 \in Nat /\ 86 \in Nat
      /\ 9 <= 91 /\ 9 <= 86
  BY <1>2, <1>3
<1>10. Spread(Least(fx, n), Greatest(fx, n), fx[i], 9, 91) \in 9..91
  BY <1>9, <1>4, SpreadOnCanvas, Zenon
<1>11. Spread(Least(fy, n), Greatest(fy, n), fy[i], 9, 86) \in 9..86
  BY <1>9, <1>5, SpreadOnCanvas, Zenon
<1>12. QED
  BY <1>8, <1>10, <1>11 DEF ns

LEMMA NothingHides ==
  ASSUME ArchitectureOK(Package), focus # 0 => focus \in DOMAIN Package.nodes
  PROVE  NothingIsHidden
<1> DEFINE p == Package
           v == Verdict(p)
<1>1. /\ v.heard = groupRequirements(p.requirements) /\ v.mapped = MappedRequirements(p)
      /\ v.boxes = Boxes(p.nodes) /\ v.arrows = Arrows(p) /\ v.timeline = Timeline(p)
      /\ v.detail = IF focus = 0 THEN {} ELSE NodeDetail(p, focus).source
  BY DEF Verdict
<1> HIDE DEF v, p
<1>2. v.heard \cup v.mapped = DOMAIN p.requirements
  <2> DEFINE m == mapRequirementsToArchitecture(p)
  <2>1. PICK i \in DOMAIN p.requirements, r \in DOMAIN p.componentRationales :
          p.componentRationales[r].requirementId \in {p.requirements[i].id, p.requirements[i].key}
    BY DEF ArchitectureOK, p
  <2>2. DOMAIN m = DOMAIN p.requirements /\ r \in m[i]
    BY <2>1 DEF mapRequirementsToArchitecture
  <2>3. MappedRequirements(p) = IF \E j \in DOMAIN m : m[j] # {} THEN DOMAIN m ELSE {}
    BY DEF MappedRequirements
  <2> HIDE DEF m
  <2>4. v.mapped = DOMAIN p.requirements
    BY <1>1, <2>1, <2>2, <2>3
  <2>5. groupRequirements(p.requirements) \subseteq DOMAIN p.requirements
    BY DEF groupRequirements
  <2>6. QED
    BY <1>1, <2>4, <2>5
<1>3. \A i \in DOMAIN p.nodes : v.boxes[i] \in (9..91) \X (9..86)
  BY <1>1, BoxesOnCanvas DEF p
<1>4. v.arrows = DOMAIN p.edges
  BY <1>1 DEF Arrows, ArchitectureOK, p
<1>5. \A i \in DOMAIN v.timeline : \A c \in v.timeline[i] : c[1] = "box"
  <2>1. ASSUME NEW i \in DOMAIN p.buildSequence, NEW id \in p.buildSequence[i].nodes
        PROVE  Shipped(p, id)[1] = "box"
    <3>1. HasBox(p, id)
      BY DEF ArchitectureOK, p
    <3>2. QED
      BY <3>1 DEF Shipped
  <2>2. /\ DOMAIN v.timeline = DOMAIN p.buildSequence
        /\ \A i \in DOMAIN p.buildSequence :
             v.timeline[i] = {Shipped(p, id) : id \in p.buildSequence[i].nodes}
    BY <1>1 DEF Timeline
  <2>3. QED
    BY <2>1, <2>2
<1>6. focus # 0 => v.detail # {}
  <2>1. SUFFICES ASSUME focus # 0 PROVE v.detail # {}
    OBVIOUS
  <2>2. PICK s \in DOMAIN p.sources : p.sources[s] = p.nodes[focus].cite
    BY <2>1 DEF ArchitectureOK, CitesSources, SourceOf, p
  <2>3. v.detail = SourceOf(p, p.nodes[focus].cite)
    BY <1>1, <2>1 DEF NodeDetail
  <2>4. QED
    BY <2>2, <2>3 DEF SourceOf
<1>7. QED
  BY <1>2, <1>3, <1>4, <1>5, <1>6, Zenon DEF NothingIsHidden, v, p

-----------------------------------------------------------------------------
(* Costs.                                                                  *)

\* Division rounds down, and a product that is larger is no less after it.
LEMMA Rounding ==
  ASSUME NEW u \in Nat \ {0}, NEW a \in Nat
  PROVE  a \div u \in Nat /\ u * (a \div u) <= a /\ a < u * (a \div u) + u
OBVIOUS

LEMMA NextMultiple ==
  ASSUME NEW u \in Nat \ {0}, NEW x \in Nat, NEW y \in Nat, y + 1 <= x
  PROVE  u * y + u <= u * x
<1>1. u * (y + 1) <= u * x
  OBVIOUS
<1>2. QED
  BY <1>1

LEMMA QuotientGrows ==
  ASSUME NEW u \in Nat \ {0}, NEW a \in Nat, NEW b \in Nat, a <= b
  PROVE  a \div u <= b \div u
<1> DEFINE x == a \div u
           y == b \div u
<1>1. x \in Nat /\ y \in Nat /\ u * x <= a /\ b < u * y + u
  BY Rounding
<1> HIDE DEF x, y
<1>2. SUFFICES ASSUME y + 1 <= x PROVE FALSE
  BY <1>1 DEF x, y
<1>3. u * y + u <= u * x
  BY <1>1, <1>2, NextMultiple
<1>4. u * x \in Nat /\ u * y \in Nat
  BY <1>1
<1>5. QED
  BY <1>1, <1>3, <1>4

\* A product grows with its factors.
LEMMA ProductGrows ==
  ASSUME NEW a \in Nat, NEW b \in Nat, NEW c \in Nat, NEW d \in Nat, a <= b, c <= d
  PROVE  a * c \in Nat /\ b * d \in Nat /\ a * c <= b * d
<1>1. a * c <= b * c
  OBVIOUS
<1>2. b * c <= b * d
  OBVIOUS
<1>3. QED
  BY <1>1, <1>2

LEMMA TimesGrows ==
  ASSUME NEW a \in Nat, NEW b \in Nat, NEW c \in Nat, NEW d \in Nat, a <= b, c <= d
  PROVE  Times(a, c) \in Nat /\ Times(b, d) \in Nat /\ Times(a, c) <= Times(b, d)
<1>1. Unit \in Nat \ {0}
  BY PowersGrow
<1> DEFINE x == a * c
           y == b * d
<1>2. x \in Nat /\ y \in Nat /\ x <= y
  BY ProductGrows
<1>3. Times(a, c) = x \div Unit /\ Times(b, d) = y \div Unit
  BY DEF Times
<1> HIDE DEF x, y
<1>4. x \div Unit \in Nat /\ y \div Unit \in Nat
  BY <1>1, <1>2, Rounding
<1>5. x \div Unit <= y \div Unit
  BY <1>1, <1>2, QuotientGrows
<1>6. QED
  BY <1>3, <1>4, <1>5

\* A factor of 1 leaves a number as it is.
LEMMA TimesUnit ==
  ASSUME NEW a \in Nat
  PROVE  Times(a, Unit) = a
<1>1. Unit \in Nat \ {0}
  BY PowersGrow
<1>2. ASSUME NEW u \in Nat \ {0} PROVE (a * u) \div u = a
  OBVIOUS
<1>3. QED
  BY <1>1, <1>2 DEF Times

LEMMA ScaledGrows ==
  ASSUME NEW l, l.baseCost \in Nat, NEW k, NEW m,
         \A e \in ExponentsOf(l) :
           Power[k][e] \in Nat /\ Power[m][e] \in Nat /\ Power[k][e] <= Power[m][e]
  PROVE  Scaled(l, k) \in Nat /\ Scaled(l, m) \in Nat /\ Scaled(l, k) <= Scaled(l, m)
<1> DEFINE b == l.baseCost
           u1 == Power[k][l.scaleExp.users]
           u2 == Power[m][l.scaleExp.users]
           r1 == Power[k][l.scaleExp.rps]
           r2 == Power[m][l.scaleExp.rps]
           g1 == Power[k][l.scaleExp.gb]
           g2 == Power[m][l.scaleExp.gb]
<1>1. /\ u1 \in Nat /\ u2 \in Nat /\ u1 <= u2
      /\ r1 \in Nat /\ r2 \in Nat /\ r1 <= r2
      /\ g1 \in Nat /\ g2 \in Nat /\ g1 <= g2
  BY DEF ExponentsOf
<1>2. /\ Scaled(l, k) = Times(b, Times(Times(u1, r1), g1))
      /\ Scaled(l, m) = Times(b, Times(Times(u2, r2), g2))
  BY DEF Scaled, Factor
<1>3. b \in Nat /\ b <= b
  OBVIOUS
<1> HIDE DEF b, u1, u2, r1, r2, g1, g2
<1>4. Times(u1, r1) \in Nat /\ Times(u2, r2) \in Nat /\ Times(u1, r1) <= Times(u2, r2)
  BY <1>1, TimesGrows
<1>5. /\ Times(Times(u1, r1), g1) \in Nat /\ Times(Times(u2, r2), g2) \in Nat
      /\ Times(Times(u1, r1), g1) <= Times(Times(u2, r2), g2)
  BY <1>1, <1>4, TimesGrows
<1>6. QED
  BY <1>2, <1>3, <1>5, TimesGrows

\* A line costs its price at scale 1, and no less at a higher one.
LEMMA LineGrows ==
  ASSUME NEW l, l.baseCost \in Nat, ExponentsOf(l) \subseteq Exponents
  PROVE  /\ Scaled(l, 1) = l.baseCost /\ Scaled(l, 10) \in Nat /\ Scaled(l, 100) \in Nat
         /\ l.baseCost <= Scaled(l, 10) /\ Scaled(l, 10) <= Scaled(l, 100)
<1>1. \A e \in ExponentsOf(l) : /\ Power[1][e] = Unit /\ Power[1][e] \in Nat
                                /\ Power[10][e] \in Nat /\ Power[100][e] \in Nat
                                /\ Power[1][e] <= Power[10][e] /\ Power[10][e] <= Power[100][e]
  BY PowersGrow
<1>2. Scaled(l, 1) = l.baseCost
  <2>1. Scaled(l, 1) = Times(l.baseCost, Times(Times(Unit, Unit), Unit))
    BY <1>1 DEF Scaled, Factor, ExponentsOf
  <2>2. Unit \in Nat
    BY PowersGrow
  <2>3. Times(Times(Unit, Unit), Unit) = Unit
    BY <2>2, TimesUnit
  <2>4. QED
    BY <2>1, <2>3, TimesUnit
<1>3. Scaled(l, 10) \in Nat /\ Scaled(l, 1) <= Scaled(l, 10)
  BY <1>1, ScaledGrows
<1>4. Scaled(l, 100) \in Nat /\ Scaled(l, 10) <= Scaled(l, 100)
  BY <1>1, ScaledGrows
<1>5. QED
  BY <1>2, <1>3, <1>4

\* What the lines cost, and what they cost at a scale.
Prices(bom) == [i \in DOMAIN bom |-> bom[i].baseCost]
AtScale(bom, k) == [i \in DOMAIN bom |-> IF bom[i].fixed THEN bom[i].baseCost ELSE Scaled(bom[i], k)]

\* The sums of the source and of CostsAgree, each with a name.
PriceOf(bom, A) == MapThenSumSet(LAMBDA i : bom[i].baseCost, A)
AllOf(f) == MapThenSumSet(LAMBDA x : f[x], DOMAIN f)
AllRows(R) == MapThenSumSet(LAMBDA r : r[3], R)

\* Each of them is an amount.
LEMMA PriceSum ==
  ASSUME NEW bom, NEW A \in SUBSET DOMAIN bom, IsFiniteSet(A),
         \A i \in DOMAIN bom : Prices(bom)[i] \in Nat
  PROVE  PriceOf(bom, A) = Amount(Prices(bom), A)
<1> DEFINE Folds(h) ==
      h = [s \in SUBSET A |->
             IF s = {} THEN 0
             ELSE bom[CHOOSE x \in s : TRUE].baseCost + h[s \ {CHOOSE x \in s : TRUE}]]
<1>1. PriceOf(bom, A) = (CHOOSE h : Folds(h))[A]
  BY DEF PriceOf, MapThenSumSet, MapThenFoldSet
<1>2. ASSUME NEW h PROVE Folds(h) <=> Sums(h, Prices(bom), A)
  <2>1. \A s \in SUBSET A : s # {} => bom[Some(s)].baseCost = Prices(bom)[Some(s)]
    BY DEF Some, Prices
  <2>2. QED
    BY <2>1 DEF Sums, Some
<1>3. (CHOOSE h : Folds(h)) = (CHOOSE h : Sums(h, Prices(bom), A))
  BY <1>2
<1>4. Amount(Prices(bom), A) = (CHOOSE h : Sums(h, Prices(bom), A))[A]
  BY SumIsAmount
<1>5. QED
  BY <1>1, <1>3, <1>4

LEMMA ScaledSum ==
  ASSUME NEW bom, IsFiniteSet(DOMAIN bom), NEW k, \A i \in DOMAIN bom : AtScale(bom, k)[i] \in Nat
  PROVE  TrajectoryAt(bom, k) = Amount(AtScale(bom, k), DOMAIN bom)
<1> DEFINE A == DOMAIN bom
           Cost(i) == IF bom[i].fixed THEN bom[i].baseCost ELSE Scaled(bom[i], k)
           Folds(h) ==
             h = [s \in SUBSET A |->
                    IF s = {} THEN 0
                    ELSE (IF bom[CHOOSE x \in s : TRUE].fixed
                            THEN bom[CHOOSE x \in s : TRUE].baseCost
                            ELSE Scaled(bom[CHOOSE x \in s : TRUE], k))
                           + h[s \ {CHOOSE x \in s : TRUE}]]
<1>1. TrajectoryAt(bom, k) = (CHOOSE h : Folds(h))[A]
  BY DEF TrajectoryAt, SumOf, MapThenSumSet, MapThenFoldSet
<1>2. ASSUME NEW h PROVE Folds(h) <=> Sums(h, AtScale(bom, k), A)
  <2>1. \A s \in SUBSET A : s # {} => Cost(Some(s)) = AtScale(bom, k)[Some(s)]
    BY DEF Some, AtScale
  <2>2. QED
    BY <2>1 DEF Sums, Some
<1>3. (CHOOSE h : Folds(h)) = (CHOOSE h : Sums(h, AtScale(bom, k), A))
  BY <1>2
<1>4. Amount(AtScale(bom, k), A) = (CHOOSE h : Sums(h, AtScale(bom, k), A))[A]
  BY SumIsAmount
<1>5. QED
  BY <1>1, <1>3, <1>4

LEMMA FunctionSum ==
  ASSUME NEW f, IsFiniteSet(DOMAIN f), \A x \in DOMAIN f : f[x] \in Nat
  PROVE  AllOf(f) = Amount(f, DOMAIN f)
<1> DEFINE A == DOMAIN f
           Folds(h) ==
             h = [s \in SUBSET A |->
                    IF s = {} THEN 0 ELSE f[CHOOSE x \in s : TRUE] + h[s \ {CHOOSE x \in s : TRUE}]]
<1>1. AllOf(f) = (CHOOSE h : Folds(h))[A]
  BY DEF AllOf, MapThenSumSet, MapThenFoldSet
<1>2. ASSUME NEW h PROVE Folds(h) <=> Sums(h, f, A)
  BY DEF Sums, Some
<1>3. (CHOOSE h : Folds(h)) = (CHOOSE h : Sums(h, f, A))
  BY <1>2
<1>4. Amount(f, A) = (CHOOSE h : Sums(h, f, A))[A]
  BY SumIsAmount
<1>5. QED
  BY <1>1, <1>3, <1>4

\* What the rows of a chart say.
Says(R) == [r \in R |-> r[3]]

LEMMA RowSum ==
  ASSUME NEW R, IsFiniteSet(R), \A r \in R : Says(R)[r] \in Nat
  PROVE  AllRows(R) = Amount(Says(R), R)
<1> DEFINE Folds(h) ==
             h = [s \in SUBSET R |->
                    IF s = {} THEN 0
                    ELSE (CHOOSE x \in s : TRUE)[3] + h[s \ {CHOOSE x \in s : TRUE}]]
<1>1. AllRows(R) = (CHOOSE h : Folds(h))[R]
  BY DEF AllRows, MapThenSumSet, MapThenFoldSet
<1>2. ASSUME NEW h PROVE Folds(h) <=> Sums(h, Says(R), R)
  <2>1. \A s \in SUBSET R : s # {} => Some(s)[3] = Says(R)[Some(s)]
    BY DEF Some, Says
  <2>2. QED
    BY <2>1 DEF Sums, Some
<1>3. (CHOOSE h : Folds(h)) = (CHOOSE h : Sums(h, Says(R), R))
  BY <1>2
<1>4. Amount(Says(R), R) = (CHOOSE h : Sums(h, Says(R), R))[R]
  BY SumIsAmount
<1>5. QED
  BY <1>1, <1>3, <1>4

LEMMA BomSums ==
  ASSUME NEW p, CostsOK(p)
  PROVE  /\ sumBaseline(p.bom) = Amount(Prices(p.bom), DOMAIN p.bom)
         /\ baselineCost(p.bom) = Amount(Prices(p.bom), DOMAIN p.bom)
         /\ \A A \in SUBSET DOMAIN p.bom :
              PriceOf(p.bom, A) = Amount(Prices(p.bom), A) /\ Amount(Prices(p.bom), A) \in Nat
         /\ \A k \in {1, 10, 100} :
              /\ TrajectoryAt(p.bom, k) = Amount(AtScale(p.bom, k), DOMAIN p.bom)
              /\ costAtScale(p.bom, k) = Amount(AtScale(p.bom, k), DOMAIN p.bom)
              /\ sumAtScale(p.bom, k) = Amount(AtScale(p.bom, k), DOMAIN p.bom)
         /\ \A i \in DOMAIN p.bom :
              /\ Prices(p.bom)[i] = p.bom[i].baseCost /\ Prices(p.bom)[i] \in Nat
              /\ AtScale(p.bom, 1)[i] = Prices(p.bom)[i]
              /\ AtScale(p.bom, 10)[i] \in Nat /\ AtScale(p.bom, 100)[i] \in Nat
              /\ Prices(p.bom)[i] <= AtScale(p.bom, 10)[i]
              /\ AtScale(p.bom, 10)[i] <= AtScale(p.bom, 100)[i]
<1> DEFINE bom == p.bom
           S == DOMAIN bom
<1>1. IsFiniteSet(S)
  <2>1. PICK n \in Nat : S = 1..n
    BY DEF CostsOK, IsList
  <2>2. QED
    BY <2>1, FS_Interval
<1>2. ASSUME NEW i \in S
      PROVE  /\ Prices(bom)[i] = bom[i].baseCost /\ Prices(bom)[i] \in Nat
             /\ AtScale(bom, 1)[i] = Prices(bom)[i]
             /\ AtScale(bom, 10)[i] \in Nat /\ AtScale(bom, 100)[i] \in Nat
             /\ Prices(bom)[i] <= AtScale(bom, 10)[i]
             /\ AtScale(bom, 10)[i] <= AtScale(bom, 100)[i]
  <2>1. bom[i].baseCost \in Nat /\ ExponentsOf(bom[i]) \subseteq Exponents
    BY DEF CostsOK
  <2>2. /\ Scaled(bom[i], 1) = bom[i].baseCost
        /\ Scaled(bom[i], 10) \in Nat /\ Scaled(bom[i], 100) \in Nat
        /\ bom[i].baseCost <= Scaled(bom[i], 10) /\ Scaled(bom[i], 10) <= Scaled(bom[i], 100)
    BY <2>1, LineGrows
  <2>3. \A k : AtScale(bom, k)[i] = IF bom[i].fixed THEN bom[i].baseCost ELSE Scaled(bom[i], k)
    BY DEF AtScale
  <2>4. Prices(bom)[i] = bom[i].baseCost
    BY DEF Prices
  <2>5. QED
    BY <2>1, <2>2, <2>3, <2>4
<1>3. ASSUME NEW A \in SUBSET S
      PROVE  PriceOf(bom, A) = Amount(Prices(bom), A) /\ Amount(Prices(bom), A) \in Nat
  <2>1. IsFiniteSet(A)
    BY <1>1, FS_Subset
  <2>2. PriceOf(bom, A) = Amount(Prices(bom), A)
    BY <1>2, <2>1, PriceSum
  <2>3. QED
    BY <1>1, <1>2, <2>2, AmountLaws
<1>4. sumBaseline(bom) = PriceOf(bom, S) /\ baselineCost(bom) = PriceOf(bom, S)
  BY DEF sumBaseline, baselineCost, SumOf, BaseCost, PriceOf, MapThenSumSet, MapThenFoldSet
<1>5. ASSUME NEW k \in {1, 10, 100}
      PROVE  /\ TrajectoryAt(bom, k) = Amount(AtScale(bom, k), S)
             /\ costAtScale(bom, k) = Amount(AtScale(bom, k), S)
             /\ sumAtScale(bom, k) = Amount(AtScale(bom, k), S)
  <2>1. \A i \in S : AtScale(bom, k)[i] \in Nat
    BY <1>2
  <2>2. TrajectoryAt(bom, k) = Amount(AtScale(bom, k), S)
    BY <1>1, <2>1, ScaledSum
  <2>3. costAtScale(bom, k) = TrajectoryAt(bom, k) /\ sumAtScale(bom, k) = TrajectoryAt(bom, k)
    BY DEF costAtScale, sumAtScale, TrajectoryAt, SumOf, scaleLine, MapThenSumSet, MapThenFoldSet
  <2>4. QED
    BY <2>2, <2>3
<1>6. QED
  BY <1>2, <1>3, <1>4, <1>5

\* The lines, dearest first.
LEMMA DearestKey ==
  ASSUME NEW p, CostsOK(p), NEW n \in Nat, DOMAIN p.bom = 1..n
  PROVE  /\ IsKey(DearestFirst(p.bom), n)
         /\ Sorted(DearestFirst(p.bom)) \in Bijection(1..n, 1..n)
<1> DEFINE key == DearestFirst(p.bom)
<1>1. IsKey(key, n)
  <2>1. DOMAIN key = 1..n /\ \A i \in 1..n : key[i] = -p.bom[i].baseCost
    BY DEF DearestFirst
  <2>2. \A i \in 1..n : p.bom[i].baseCost \in Nat
    BY DEF CostsOK
  <2>3. \A i \in 1..n : key[i] \in Int
    BY <2>1, <2>2
  <2>4. QED
    BY <2>1, <2>3 DEF IsKey
<1> HIDE DEF key
<1>2. /\ DOMAIN Sorted(key) = 1..n
      /\ \A q \in 1..n : Sorted(key)[q] \in 1..n /\ Position(key, Sorted(key)[q]) = q
      /\ \A i \in 1..n : Position(key, i) \in 1..n /\ Sorted(key)[Position(key, i)] = i
  BY <1>1, SortedLists
<1>3. Sorted(key) = [q \in 1..n |-> Sorted(key)[q]]
  BY <1>1 DEF Sorted, IsKey
<1>4. Sorted(key) \in [1..n -> 1..n]
  BY <1>2, <1>3
<1>5. Sorted(key) \in Injection(1..n, 1..n)
  <2>1. ASSUME NEW q \in 1..n, NEW r \in 1..n, Sorted(key)[q] = Sorted(key)[r] PROVE q = r
    BY <1>2, <2>1
  <2>2. QED
    BY <1>4, <2>1 DEF Injection, IsInjective
<1>6. Sorted(key) \in Surjection(1..n, 1..n)
  BY <1>2, <1>4 DEF Surjection
<1>7. QED
  BY <1>1, <1>5, <1>6 DEF Bijection, key

\* The table of the lines adds up to what they cost at ten times the scale.
LEMMA TableSum ==
  ASSUME NEW p, CostsOK(p)
  PROVE  LET table == BomTable(p.bom) IN
         AllOf([q \in DOMAIN table |-> table[q].at10]) = Amount(AtScale(p.bom, 10), DOMAIN p.bom)
<1> DEFINE bom == p.bom
           table == BomTable(bom)
           order == Sorted(DearestFirst(bom))
           f == [q \in DOMAIN table |-> table[q].at10]
           a == AtScale(bom, 10)
<1>1. PICK n \in Nat : DOMAIN bom = 1..n
  BY DEF CostsOK, IsList
<1>2. order \in Bijection(1..n, 1..n)
  BY <1>1, DearestKey
<1>3. DOMAIN table = 1..n /\ \A q \in 1..n : table[q].at10 = scaleLine(bom[order[q]], 10)
  BY <1>1 DEF BomTable
<1>4. \A i \in 1..n : a[i] = scaleLine(bom[i], 10) /\ a[i] \in Nat
  <2>1. \A i \in 1..n : a[i] \in Nat
    BY <1>1, BomSums
  <2>2. \A i \in 1..n : a[i] = scaleLine(bom[i], 10)
    BY <1>1 DEF AtScale, scaleLine
  <2>3. QED
    BY <2>1, <2>2
<1>5. order \in [1..n -> 1..n]
  BY <1>2 DEF Bijection, Injection
<1> HIDE DEF table, order, a
<1>6. DOMAIN f = 1..n /\ \A q \in 1..n : f[q] = a[order[q]] /\ f[q] \in Nat
  BY <1>3, <1>4, <1>5
<1> HIDE DEF f
<1>7. IsFiniteSet(1..n)
  BY FS_Interval
<1>8. Amount(a, 1..n) = Amount(f, 1..n)
  BY <1>2, <1>6, <1>7, AmountMoves
<1>9. AllOf(f) = Amount(f, DOMAIN f)
  BY <1>6, <1>7, FunctionSum
<1>10. QED
  BY <1>1, <1>6, <1>8, <1>9 DEF f, a, table

\* The parts of the breakdown chart.
KindsOf(bom) == {bom[i].kind : i \in DOMAIN bom}
KindTotals(bom) == [k \in KindsOf(bom) |-> PriceOf(bom, {i \in DOMAIN bom : bom[i].kind = k})]
Dearest(bom) == First(DearestFirst(bom), TopN)
DearestRows(bom) == {<<"line", i, bom[i].baseCost>> : i \in Dearest(bom)}
OtherRow(bom) ==
  IF Dearest(bom) = DOMAIN bom THEN {} ELSE {<<"other", 0, PriceOf(bom, DOMAIN bom \ Dearest(bom))>>}

LEMMA BreakdownParts ==
  ASSUME NEW bom
  PROVE  Breakdown(bom) =
           [rows |-> IF PriceOf(bom, DOMAIN bom) = 0 THEN {} ELSE DearestRows(bom) \cup OtherRow(bom),
            total |-> PriceOf(bom, DOMAIN bom),
            kinds |-> [k \in {c \in KindsOf(bom) : KindTotals(bom)[c] > 0} |-> KindTotals(bom)[k]]]
BY Zenon DEF Breakdown, PriceOf, KindsOf, KindTotals, Dearest, DearestRows, OtherRow

\* The kinds of the bar add up to the whole, those that cost nothing left out.
LEMMA KindsAddUp ==
  ASSUME NEW p, CostsOK(p)
  PROVE  AllOf(Breakdown(p.bom).kinds) = Amount(Prices(p.bom), DOMAIN p.bom)
<1> DEFINE bom == p.bom
           S == DOMAIN bom
           K == KindsOf(bom)
           t == KindTotals(bom)
           P == {c \in K : t[c] > 0}
           f == [k \in P |-> t[k]]
           c == [i \in S |-> bom[i].kind]
           w == Prices(bom)
<1>1. PICK n \in Nat : S = 1..n
  BY DEF CostsOK, IsList
<1>2. IsFiniteSet(S)
  BY <1>1, FS_Interval
<1>3. IsFiniteSet(K)
  <2>1. c \in Surjection(S, K)
    BY DEF Surjection, KindsOf
  <2>2. QED
    BY <1>2, <2>1, FS_Surjection
<1>4. \A i \in S : w[i] \in Nat /\ c[i] \in K
  <2>1. \A i \in S : w[i] \in Nat
    BY BomSums
  <2>2. \A i \in S : c[i] \in K
    BY DEF KindsOf
  <2>3. QED
    BY <2>1, <2>2
<1>5. ASSUME NEW k \in K PROVE t[k] = Amount(w, OfClass(S, c, {k}))
  <2>1. {i \in S : bom[i].kind = k} = OfClass(S, c, {k})
    BY DEF OfClass
  <2>2. OfClass(S, c, {k}) \in SUBSET S
    BY DEF OfClass
  <2>3. PriceOf(bom, OfClass(S, c, {k})) = Amount(w, OfClass(S, c, {k}))
    BY <2>2, BomSums
  <2>4. t[k] = PriceOf(bom, {i \in S : bom[i].kind = k})
    BY DEF KindTotals
  <2>5. QED
    BY <2>1, <2>3, <2>4
<1>6. Breakdown(bom).kinds = f
  BY BreakdownParts
<1> HIDE DEF K, t, w, c, S, bom
<1>7. (\A k \in K : t[k] \in Nat) /\ Amount(t, K) = Amount(w, S)
  <2>1. ClassSums(t, K, c, w, S)
    BY <1>4, <1>5 DEF ClassSums
  <2>2. QED
    BY <1>2, <1>3, <1>4, <2>1, AmountOfClasses
<1>8. Amount(t, P) = Amount(t, K)
  BY <1>7, AmountOfSome
<1>9. IsFiniteSet(P) /\ DOMAIN f = P /\ \A k \in P : f[k] = t[k] /\ f[k] \in Nat
  BY <1>3, <1>7, FS_Subset
<1> HIDE DEF f, P
<1>10. Amount(f, P) = Amount(t, P)
  BY <1>9, AmountOfSame
<1>11. AllOf(f) = Amount(f, DOMAIN f)
  BY <1>9, FunctionSum
<1>12. QED
  BY <1>6, <1>7, <1>8, <1>9, <1>10, <1>11 DEF w, S, bom

\* The rows of the chart add up to the whole: the six dearest lines and the others.
LEMMA RowsAddUp ==
  ASSUME NEW p, CostsOK(p)
  PROVE  AllRows(Breakdown(p.bom).rows) = Amount(Prices(p.bom), DOMAIN p.bom)
<1> DEFINE bom == p.bom
           S == DOMAIN bom
           w == Prices(bom)
           H == Dearest(bom)
           O == S \ H
           R == DearestRows(bom) \cup OtherRow(bom)
           v == Says(R)
           row == [i \in H |-> <<"line", i, w[i]>>]
           T == Amount(w, S)
<1>1. PICK n \in Nat : S = 1..n
  BY DEF CostsOK, IsList
<1>2. IsFiniteSet(S)
  BY <1>1, FS_Interval
<1>3. \A i \in S : w[i] = bom[i].baseCost /\ w[i] \in Nat
  BY BomSums
<1>4. H \in SUBSET S /\ O \in SUBSET S /\ H \cup O = S /\ H \cap O = {}
  BY DEF Dearest, First, DearestFirst
<1>5. PriceOf(bom, S) = T /\ PriceOf(bom, O) = Amount(w, O) /\ T \in Nat /\ Amount(w, O) \in Nat
      /\ Amount(w, H) \in Nat
  BY <1>4, BomSums
<1>6. DearestRows(bom) = {<<"line", i, w[i]>> : i \in H}
  BY <1>3, <1>4 DEF DearestRows
<1>7. OtherRow(bom) = IF H = S THEN {} ELSE {<<"other", 0, Amount(w, O)>>}
  BY <1>5 DEF OtherRow
<1>8. Breakdown(bom).rows = IF T = 0 THEN {} ELSE R
  BY <1>5, BreakdownParts
<1>9. AllRows({}) = 0
  <2>1. IsFiniteSet({}) /\ Amount(Says({}), {}) = 0
    BY FS_EmptySet, UnitsOfNone DEF Amount
  <2>2. QED
    BY <2>1, RowSum
<1> HIDE DEF bom, S, w, H, O
<1>10. T = Amount(w, H) + Amount(w, O)
  BY <1>2, <1>3, <1>4, AmountOfUnion
<1>11. /\ IsFiniteSet(DearestRows(bom))
       /\ row \in Bijection(H, DearestRows(bom))
  <2>1. row \in Bijection(H, DearestRows(bom))
    BY <1>6 DEF Bijection, Injection, Surjection, IsInjective
  <2>2. IsFiniteSet(H)
    BY <1>2, <1>4, FS_Subset
  <2>3. QED
    BY <2>1, <2>2, FS_Bijection DEF ExistsBijection
<1>12. IsFiniteSet(OtherRow(bom))
  BY <1>7, FS_EmptySet, FS_Singleton
<1>13. IsFiniteSet(R)
  BY <1>11, <1>12, FS_Union
<1>14. \A r \in R : v[r] = r[3] /\ r[3] \in Nat
  <2>1. \A r \in DearestRows(bom) : r[3] \in Nat
    BY <1>3, <1>4, <1>6
  <2>2. \A r \in OtherRow(bom) : r[3] \in Nat
    BY <1>5, <1>7
  <2>3. QED
    BY <2>1, <2>2 DEF Says
<1>15. DearestRows(bom) \cap OtherRow(bom) = {}
  BY <1>6, <1>7
<1>16. \A i \in H : v[row[i]] = w[i]
  BY <1>6, <1>14
<1> HIDE DEF v, row, T
<1>17. Amount(v, R) = Amount(v, DearestRows(bom)) + Amount(v, OtherRow(bom))
  <2>1. \A r \in R : v[r] \in Nat
    BY <1>14
  <2>2. DearestRows(bom) \in SUBSET R /\ OtherRow(bom) \in SUBSET R
    OBVIOUS
  <2> DEFINE D == DearestRows(bom)
             E == OtherRow(bom)
  <2> HIDE DEF D, E
  <2>3. QED
    BY <1>13, <1>15, <2>1, <2>2, AmountOfUnion DEF D, E
<1>18. Amount(v, DearestRows(bom)) = Amount(w, H)
  <2>1. IsFiniteSet(H) /\ \A i \in H : w[i] \in Nat
    BY <1>2, <1>3, <1>4, FS_Subset
  <2>2. QED
    BY <1>11, <1>16, <2>1, AmountMoves
<1>19. Amount(v, OtherRow(bom)) = Amount(w, O)
  <2>1. CASE H = S
    <3>1. O = {} /\ OtherRow(bom) = {}
      BY <1>4, <1>7, <2>1 DEF O
    <3>2. QED
      BY <3>1, UnitsOfNone DEF Amount
  <2>2. CASE H # S
    <3> DEFINE x == <<"other", 0, Amount(w, O)>>
    <3>1. OtherRow(bom) = {x} /\ x \in R /\ v[x] = x[3] /\ x[3] = Amount(w, O)
      BY <1>7, <1>14, <2>2
    <3>2. v[x] \in Nat
      BY <1>14, <3>1
    <3> HIDE DEF x
    <3>3. Cardinality(Units(v, {x})) = v[x]
      BY <3>2, UnitsOfOne
    <3>4. QED
      BY <3>1, <3>3 DEF Amount
  <2>3. QED
    BY <2>1, <2>2
<1>20. Amount(v, R) = T
  BY <1>5, <1>10, <1>17, <1>18, <1>19
<1>21. AllRows(R) = Amount(v, R)
  BY <1>13, <1>14, RowSum DEF v
<1>22. QED
  BY <1>8, <1>9, <1>20, <1>21 DEF T, w, S, bom

LEMMA CostsMatch ==
  ASSUME CostsOK(Package)
  PROVE  CostsAgree
<1> DEFINE p == Package
           bom == p.bom
           S == DOMAIN bom
           v == Verdict(p)
           n == Numbers(p)
           T1 == Amount(Prices(bom), S)
           T10 == Amount(AtScale(bom, 10), S)
           T100 == Amount(AtScale(bom, 100), S)
<1>1. PICK m \in Nat : S = 1..m
  BY DEF CostsOK, IsList
<1>2. IsFiniteSet(S)
  BY <1>1, FS_Interval
<1>3. /\ v.baseline = T1 /\ v.card.summary.baseline = T1
      /\ v.at10 = T10 /\ v.card.summary.scaled10x = T10
  <2>1. /\ v.baseline = sumBaseline(bom) /\ v.card.summary.baseline = baselineCost(bom)
        /\ v.at10 = sumAtScale(bom, 10) /\ v.card.summary.scaled10x = costAtScale(bom, 10)
    BY DEF Verdict, ExecutiveSummaryCard, deriveExecutiveSummary
  <2> HIDE DEF v
  <2>2. QED
    BY <2>1, BomSums
<1>4. \A i \in S : /\ Prices(bom)[i] \in Nat /\ AtScale(bom, 1)[i] = Prices(bom)[i]
                   /\ AtScale(bom, 10)[i] \in Nat /\ AtScale(bom, 100)[i] \in Nat
                   /\ Prices(bom)[i] <= AtScale(bom, 10)[i]
                   /\ AtScale(bom, 10)[i] <= AtScale(bom, 100)[i]
  BY BomSums
<1>5. T1 \in Nat /\ T10 \in Nat /\ T100 \in Nat /\ T1 <= T10 /\ T10 <= T100
  <2>1. S \in SUBSET S
    OBVIOUS
  <2>2. T1 \in Nat /\ T10 \in Nat /\ T100 \in Nat
    <3>1. T1 \in Nat
      BY <1>2, <1>4, <2>1, AmountLaws
    <3>2. T10 \in Nat
      BY <1>2, <1>4, <2>1, AmountLaws
    <3>3. T100 \in Nat
      BY <1>2, <1>4, <2>1, AmountLaws
    <3>4. QED
      BY <3>1, <3>2, <3>3
  <2>3. T1 <= 1 * T10
    <3>1. \A i \in S : Prices(bom)[i] <= 1 * AtScale(bom, 10)[i]
      BY <1>4
    <3>2. QED
      BY <1>2, <1>4, <3>1, AmountScales
  <2>4. T10 <= 1 * T100
    <3>1. \A i \in S : AtScale(bom, 10)[i] <= 1 * AtScale(bom, 100)[i]
      BY <1>4
    <3>2. QED
      BY <1>2, <1>4, <3>1, AmountScales
  <2> HIDE DEF T1, T10, T100
  <2>5. QED
    BY <2>2, <2>3, <2>4
<1>6. TrajectoryAt(bom, 1) = T1 /\ TrajectoryAt(bom, 10) = T10 /\ TrajectoryAt(bom, 100) = T100
      /\ sumBaseline(bom) = T1 /\ sumAtScale(bom, 10) = T10 /\ sumAtScale(bom, 100) = T100
  <2>1. TrajectoryAt(bom, 1) = Amount(AtScale(bom, 1), S)
    BY BomSums
  <2>2. Amount(AtScale(bom, 1), S) = T1
    BY <1>4, AmountOfSame
  <2>3. TrajectoryAt(bom, 10) = T10 /\ TrajectoryAt(bom, 100) = T100
        /\ sumBaseline(bom) = T1 /\ sumAtScale(bom, 10) = T10 /\ sumAtScale(bom, 100) = T100
    BY BomSums
  <2>4. QED
    BY <2>1, <2>2, <2>3
<1>7. /\ n.tiles = n.trajectory /\ n.tiles[1] = T1 /\ n.tiles[10] = T10 /\ n.tiles[100] = T100
      /\ n.breakdown = Breakdown(bom) /\ n.table = BomTable(bom)
  <2>1. /\ n.tiles = [k \in {1, 10, 100} |-> IF k = 1 THEN sumBaseline(bom) ELSE sumAtScale(bom, k)]
        /\ n.trajectory = [k \in {1, 10, 100} |-> TrajectoryAt(bom, k)]
        /\ n.breakdown = Breakdown(bom) /\ n.table = BomTable(bom)
    BY DEF Numbers, Trajectory
  <2> HIDE DEF n, T1, T10, T100, bom
  <2>2. \A k \in {1, 10, 100} :
          (IF k = 1 THEN sumBaseline(bom) ELSE sumAtScale(bom, k)) = TrajectoryAt(bom, k)
    BY <1>6
  <2>3. QED
    BY <1>6, <2>1, <2>2
<1>8. Breakdown(bom).total = T1
  <2>1. PriceOf(bom, S) = T1
    BY BomSums
  <2>2. QED
    BY <2>1, BreakdownParts
<1>9. AllOf(Breakdown(bom).kinds) = T1 /\ AllRows(Breakdown(bom).rows) = T1
  BY KindsAddUp, RowsAddUp
<1>10. AllOf([q \in DOMAIN BomTable(bom) |-> BomTable(bom)[q].at10]) = T10
  BY TableSum
<1>11. ASSUME NEW i \in v.card.summary.costDriver PROVE BomTable(bom)[1].line = bom[i]
  <2> DEFINE key == DearestFirst(bom)
  <2>1. v.card.summary.costDriver = First(key, 1)
    BY DEF Verdict, ExecutiveSummaryCard, deriveExecutiveSummary, topCostLine
  <2>2. IsKey(key, m)
    BY <1>1, DearestKey
  <2>3. i \in 1..m /\ Position(key, i) \in 1..m /\ Position(key, i) <= 1
        /\ Sorted(key)[Position(key, i)] = i
    <3> HIDE DEF key, v
    <3>1. i \in 1..m /\ Position(key, i) <= 1
      BY <1>11, <2>1, <2>2, FirstLists
    <3>2. QED
      BY <2>2, <3>1, SortedLists
  <2>4. 1 \in 1..m /\ Sorted(key)[1] = i
    <3> HIDE DEF key, v
    <3>1. Position(key, i) = 1
      BY <2>3
    <3>2. QED
      BY <2>3, <3>1
  <2>5. QED
    BY <1>1, <2>4 DEF BomTable
<1>12. QED
  <2>1. CostsAgree <=>
          /\ v.card.summary.baseline = v.baseline /\ v.card.summary.scaled10x = v.at10
          /\ n.tiles = n.trajectory /\ n.tiles[1] = v.baseline /\ n.tiles[10] = v.at10
          /\ n.tiles[1] <= n.tiles[10] /\ n.tiles[10] <= n.tiles[100]
          /\ n.breakdown.total = v.baseline /\ AllOf(n.breakdown.kinds) = v.baseline
          /\ AllRows(n.breakdown.rows) = v.baseline
          /\ AllOf([q \in DOMAIN n.table |-> n.table[q].at10]) = v.at10
          /\ \A i \in v.card.summary.costDriver : n.table[1].line = bom[i]
    BY Zenon DEF CostsAgree, AllOf, AllRows
  <2> HIDE DEF v, n, T1, T10, T100, bom
  <2>2. /\ v.card.summary.baseline = v.baseline /\ v.card.summary.scaled10x = v.at10
        /\ n.tiles = n.trajectory /\ n.tiles[1] = v.baseline /\ n.tiles[10] = v.at10
        /\ n.tiles[1] <= n.tiles[10] /\ n.tiles[10] <= n.tiles[100]
    BY <1>3, <1>5, <1>7
  <2>3. /\ n.breakdown.total = v.baseline /\ AllOf(n.breakdown.kinds) = v.baseline
        /\ AllRows(n.breakdown.rows) = v.baseline
    BY <1>3, <1>7, <1>8, <1>9
  <2>4. /\ AllOf([q \in DOMAIN n.table |-> n.table[q].at10]) = v.at10
        /\ \A i \in v.card.summary.costDriver : n.table[1].line = bom[i]
    BY <1>3, <1>7, <1>10, <1>11
  <2>5. QED
    BY <2>1, <2>2, <2>3, <2>4

-----------------------------------------------------------------------------
(* All sections.                                                           *)

LEMMA SectionsMatch ==
  ASSUME section # "closed" => PackageOK(Package), sortMode \in SortModes,
         focus # 0 => focus \in DOMAIN Package.nodes
  PROVE  SectionsAgree
<1>1. CASE section = "closed"
  BY <1>1 DEF SectionsAgree
<1>2. CASE PackageOK(Package)
  <2>1. NothingIsHidden
    BY <1>2, NothingHides DEF PackageOK
  <2>2. DecisionsAgree
    BY <1>2, DecisionsMatch DEF PackageOK
  <2>3. CostsAgree
    BY <1>2, CostsMatch DEF PackageOK
  <2>4. RisksAgree
    BY <1>2, RisksMatch DEF PackageOK
  <2>5. ASSUME NEW s \in Citing, NEW i \in DOMAIN Package[s]
        PROVE  Package[s][i].cite \in Audit(Package)
    BY <1>2 DEF PackageOK, ArchitectureOK, CitesSources, SourceOf, Audit
  <2>6. QED
    BY <2>1, <2>2, <2>3, <2>4, <2>5 DEF SectionsAgree
<1>3. QED
  BY <1>1, <1>2

\* Whatever section the reader turns to, whichever box is in focus and in whichever order the
\* cards are: the summary, the verdict, the charts and the lists, each with sums and orders of
\* its own, say the same of the package that is open, and none of them drops an entry.
THEOREM SectionsTellTheSame ==
  ASSUME MaxVersion \in Nat \ {0}
  PROVE  Spec => []SectionsAgree
<1>1. Spec => []TypeOK
  BY TypeCorrect
<1>2. TypeOK => SectionsAgree
  <2>1. SUFFICES ASSUME TypeOK PROVE SectionsAgree
    OBVIOUS
  <2>2. ReaderTypeOK
    BY <2>1 DEF TypeOK
  <2>3. section # "closed" => PackageOK(Package)
    BY <2>2, PackagesHold DEF ReaderTypeOK, Package
  <2>4. sortMode \in SortModes /\ (focus # 0 => focus \in DOMAIN Package.nodes)
    BY <2>2 DEF ReaderTypeOK
  <2>5. QED
    BY <2>3, <2>4, SectionsMatch
<1>3. QED
  BY <1>1, <1>2, PTL
=============================================================================
