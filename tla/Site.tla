-------------------------------- MODULE Site --------------------------------
(***************************************************************************)
(* The site as one reader meets it in one tab: sign-in and the middleware  *)
(* that guards the pages, the brief and its run, the checkout, the         *)
(* dashboard, the consent to the terms, and the package page, which opens  *)
(* the reader of module PackageReader.  The rows of the runs and the log   *)
(* of acceptances are on the server, which two revisions serve while a     *)
(* rollout lasts; everything the tab shows was fetched from there once,    *)
(* when the page was loaded.                                               *)
(***************************************************************************)
EXTENDS PackageReader, SequencesExt

CONSTANTS
  Mine, Theirs,   \* the ids of the reader's runs, and of runs of others
  NoRun,          \* no run
  Billing,        \* BILLING_ENABLED of each revision that is deployed
  MaxVersion,     \* bound: the versions of the terms that are deployed
  MaxAccepts      \* bound: the acceptances on record

VARIABLES
  session,        \* the reader's cookie: "in" or "out"
  registered,     \* the reader has a user row
  deployed,       \* the newest revision; the number of one is its TERMS_VERSION
  serving,        \* the revisions that answer requests
  log, pointer,   \* TermsAcceptance rows, oldest first, and latestTermsVersion
  status, paid,   \* of each run; "queued" is pending with its message published
  stamped,        \* whether termsVersionAtRun of each run is set
  package,        \* the package stored for each run
  page, shown,    \* the page in the tab, and its run
  bundle,         \* TERMS_VERSION of the script in the tab
  banner,         \* the terms banner of the page
  list, filter,   \* Dashboard: the runs it has fetched, and the chosen tab
  text,           \* Brief: what has been typed
  request         \* Brief and Checkout: the request under way

revisions == <<deployed, serving>>
serverVars == <<registered, revisions, log, pointer, status, paid, stamped, package>>
tabVars == <<session, page, shown, bundle, banner, list, filter, text, request>>
vars == <<serverVars, tabVars, readerVars>>

Runs == Mine \cup Theirs
RunPages == {"run", "decide"}
PROTECTED_PREFIXES == RunPages \cup {"dashboard", "brief", "checkout", "billing"}
Shell == RunPages \cup {"dashboard", "brief", "billing", "account"}
Pages == PROTECTED_PREFIXES \cup
  {"home", "signin", "unauthorized", "account", "stripe", "notfound", "error"}
Linked == (PROTECTED_PREFIXES \ RunPages) \cup {"home", "signin", "account"}

RunStatus == {"none", "pending", "queued", "running", "succeeded", "failed"}
Banners == {"none", "loading", "failed", "hidden", "shown", "saving", "accepted"}
Requests == {"none", "sent", "denied", "failed", "created", "settled", "stripe"}
Texts == {"", "short", "long"}
NotLoaded == [loaded |-> FALSE, cards |-> <<>>]
-----------------------------------------------------------------------------
(***************************************************************************)
(* Pages.  The middleware asks for a session; the pages of a run answer    *)
(* that there is none to whoever is not its owner, and the package page    *)
(* sends its reader to the run until there is a package.                   *)
(***************************************************************************)
Owns(r) == r \in Mine /\ status[r] # "none"

LandsTooEarly(p, r, cookie) ==
  IF cookie = "out" /\ p \in PROTECTED_PREFIXES \cup {"account"} THEN {"signin"}
  ELSE IF p \in RunPages /\ ~Owns(r) THEN {"notfound"} ELSE {p}
LandsOn(p, r, cookie) ==
  IF cookie = "out" /\ p \in PROTECTED_PREFIXES \cup {"account"} THEN {"signin"}
  ELSE IF p \notin RunPages THEN {p}
  ELSE IF ~Owns(r) THEN {"notfound"}
  ELSE IF p = "run" \/ package[r] = NoPackage THEN {"run"}
  ELSE {"decide", "error"}

\* A page starts afresh: nothing fetched, nothing typed, nothing sent.
Mount(p, r) ==
  /\ page' = p
  /\ shown' = (IF p \in RunPages \cup {"checkout", "stripe"} THEN r ELSE NoRun)
  /\ banner' = (IF p \in Shell THEN "loading" ELSE "none")
  /\ list' = NotLoaded /\ filter' = "all" /\ text' = "" /\ request' = "none"
  /\ IF p = "decide" THEN Open(package[r])
     ELSE IF page = "decide" THEN Close ELSE UNCHANGED readerVars

Load(p, r) ==
  /\ \E q \in LandsOn(p, r, session) : Mount(q, r)
  /\ bundle' \in serving
  /\ UNCHANGED session

\* A link or an address: the client router may go on with the script it has.
Visit(p, r) ==
  /\ \E q \in LandsOn(p, r, session) : Mount(q, r)
  /\ bundle' \in {bundle} \cup serving
  /\ UNCHANGED <<serverVars, session>>

(***************************************************************************)
(* Consent.  A row and the pointer to it are written in one transaction,   *)
(* by a revision v, with the version of that revision.                     *)
(***************************************************************************)
RowWithoutPointer(v) == log' = Append(log, v) /\ UNCHANGED pointer
recordConsent(v) == log' = Append(log, v) /\ pointer' = v
ConsentFails == UNCHANGED <<log, pointer>>
TryConsent(v) == (Len(log) < MaxAccepts /\ recordConsent(v)) \/ ConsentFails

needsReconsent(version) == version # bundle

BannerLoads ==
  /\ banner = "loading"
  /\ \/ banner' = "failed"
     \/ /\ session = "in"
        /\ banner' = IF needsReconsent(pointer) THEN "shown" ELSE "hidden"
  /\ UNCHANGED <<serverVars, session, page, shown, bundle, list, filter, text, request, readerVars>>

Accept ==
  /\ banner = "shown" /\ banner' = "saving"
  /\ UNCHANGED <<serverVars, session, page, shown, bundle, list, filter, text, request, readerVars>>

\* Refused, failed, recorded with the answer lost on its way, or recorded.
AcceptEnds ==
  /\ banner = "saving"
  /\ \/ banner' = "shown" /\ ConsentFails
     \/ /\ session = "in" /\ Len(log) < MaxAccepts /\ \E v \in serving : recordConsent(v)
        /\ banner' \in {"shown", "accepted"}
  /\ UNCHANGED <<registered, revisions, status, paid, stamped, package>>
  /\ UNCHANGED <<session, page, shown, bundle, list, filter, text, request, readerVars>>

(***************************************************************************)
(* Signing in and out.                                                     *)
(***************************************************************************)
SignIn ==
  /\ page = "signin" /\ session' = "in" /\ registered' = TRUE
  /\ IF registered THEN UNCHANGED <<log, pointer>> ELSE \E v \in serving : TryConsent(v)
  /\ Mount("dashboard", NoRun) /\ bundle' \in serving
  /\ UNCHANGED <<revisions, status, paid, stamped, package>>

\* The address is not on the list of those let in.
SignInRefused ==
  /\ page = "signin" /\ session = "out"
  /\ Mount("unauthorized", NoRun) /\ bundle' \in serving
  /\ UNCHANGED <<serverVars, session>>

SignOut ==
  /\ page \in Shell /\ session = "in" /\ session' = "out"
  /\ Mount("home", NoRun) /\ bundle' \in serving
  /\ UNCHANGED serverVars

\* The page stays as it is.
SessionExpires ==
  /\ session = "in" /\ session' = "out"
  /\ UNCHANGED <<serverVars, page, shown, bundle, banner, list, filter, text, request, readerVars>>

(***************************************************************************)
(* The dashboard: its list is fetched once.                                *)
(***************************************************************************)
FailedIsCompleted(s) ==
  IF s \in {"succeeded", "failed"} THEN "completed" ELSE "in_progress"
mapStatus(s) ==
  CASE s = "succeeded" -> "completed"
    [] s = "failed" -> "failed"
    [] OTHER -> "in_progress"

ListArrives ==
  /\ page = "dashboard" /\ ~list.loaded
  /\ \/ list' = [NotLoaded EXCEPT !.loaded = TRUE]
     \/ /\ session = "in"
        /\ list' = [loaded |-> TRUE,
                    cards |-> [r \in {m \in Mine : status[m] # "none"} |-> mapStatus(status[r])]]
  /\ UNCHANGED <<serverVars, session, page, shown, bundle, banner, filter, text, request, readerVars>>

Filtered(f) == {r \in DOMAIN list.cards : f = "all" \/ list.cards[r] = f}
Tabs == {"all"} \cup {list.cards[r] : r \in DOMAIN list.cards}

SetFilter(f) ==
  /\ page = "dashboard" /\ DOMAIN list.cards # {} /\ f \in Tabs
  /\ filter' = f
  /\ UNCHANGED <<serverVars, session, page, shown, bundle, banner, list, text, request, readerVars>>

CardLeadsTo(s) ==
  CASE s = "completed" -> "decide" [] s = "in_progress" -> "run" [] OTHER -> "brief"
ClickCard(r) == r \in Filtered(filter) /\ Visit(CardLeadsTo(list.cards[r]), r)

(***************************************************************************)
(* The brief.  It can be sent from 80 characters on; the answer leads to   *)
(* the run, and to the sign-in page, with the brief lost, when the session *)
(* has ended.                                                              *)
(***************************************************************************)
Type(t) ==
  /\ page = "brief" /\ request = "none"
  /\ text' = t
  /\ UNCHANGED <<serverVars, session, page, shown, bundle, banner, list, filter, request, readerVars>>

Send ==
  /\ request = "none" /\ (page = "checkout" \/ (page = "brief" /\ text = "long"))
  /\ request' = "sent"
  /\ UNCHANGED <<serverVars, session, page, shown, bundle, banner, list, filter, text, readerVars>>

\* The payment is waived without billing, and the run published; either may fail.
Waive(r) ==
  \/ paid' = [paid EXCEPT ![r] = TRUE] /\ status' = [status EXCEPT ![r] = "queued"]
  \/ paid' \in {paid, [paid EXCEPT ![r] = TRUE]} /\ status' = [status EXCEPT ![r] = "pending"]

createRun(r, v) ==
  /\ status[r] = "none" /\ shown' = r
  /\ \/ /\ Billing[v] /\ request' = "created"
        /\ status' = [status EXCEPT ![r] = "pending"] /\ UNCHANGED paid
     \/ ~Billing[v] /\ Waive(r) /\ request' = (IF paid'[r] THEN "created" ELSE "failed")

PostRuns ==
  /\ page = "brief" /\ request = "sent"
  /\ \/ session = "out" /\ request' = "denied" /\ UNCHANGED <<status, paid, shown>>
     \/ session = "in" /\ request' = "failed" /\ UNCHANGED <<status, paid, shown>>
     \/ session = "in" /\ \E r \in Mine, v \in serving : createRun(r, v)
  /\ UNCHANGED <<registered, revisions, log, pointer, stamped, package>>
  /\ UNCHANGED <<session, page, bundle, banner, list, filter, text, readerVars>>

\* An answer that says no, and one that is lost, whatever has been done.
RequestFails ==
  /\ request \notin {"none", "sent"} /\ request' = "none"
  /\ shown' = IF page = "brief" THEN NoRun ELSE shown
  /\ UNCHANGED <<serverVars, session, page, bundle, banner, list, filter, text, readerVars>>

BriefAnswered ==
  /\ page = "brief"
  /\ \/ request = "denied" /\ Load("signin", NoRun)
     \/ request = "created" /\ Load("run", shown)
  /\ UNCHANGED serverVars

(***************************************************************************)
(* The checkout, for the run of its address.  A first try stamps the run   *)
(* and records the acceptance; when that fails it goes on all the same.    *)
(***************************************************************************)
Consent(r, v) ==
  IF stamped[r] THEN UNCHANGED <<stamped, log, pointer>>
  ELSE \/ UNCHANGED <<stamped, log, pointer>>
       \/ stamped' = [stamped EXCEPT ![r] = TRUE] /\ TryConsent(v)

Charge(r, v) ==
  \/ ~Billing[v] /\ Waive(r) /\ request' = (IF status'[r] = "queued" THEN "settled" ELSE "failed")
  \/ Billing[v] /\ request' \in {"stripe", "failed"} /\ UNCHANGED <<status, paid>>

PostCheckout ==
  /\ page = "checkout" /\ request = "sent"
  /\ \/ /\ session = "out" \/ ~Owns(shown)
        /\ request' = "failed" /\ UNCHANGED <<status, paid, stamped, log, pointer>>
     \/ /\ session = "in" /\ Owns(shown) /\ paid[shown]
        /\ request' = "settled" /\ UNCHANGED <<status, paid, stamped, log, pointer>>
     \/ /\ session = "in" /\ Owns(shown) /\ ~paid[shown]
        /\ \E v \in serving : Consent(shown, v) /\ Charge(shown, v)
  /\ UNCHANGED <<registered, revisions, package>>
  /\ UNCHANGED <<session, page, shown, bundle, banner, list, filter, text, readerVars>>

CheckoutAnswered ==
  /\ page = "checkout"
  /\ \/ request = "settled" /\ Load("run", shown)
     \/ request = "stripe" /\ Load("stripe", shown)
  /\ UNCHANGED serverVars

StripePaid ==
  /\ page = "stripe"
  /\ paid' = [paid EXCEPT ![shown] = TRUE] /\ status' = [status EXCEPT ![shown] = "queued"]
  /\ Load("run", shown)
  /\ UNCHANGED <<registered, revisions, log, pointer, stamped, package>>

StripeCanceled == page = "stripe" /\ Visit("checkout", shown)

(***************************************************************************)
(* The run, as its worker moves it (module RunLifecycle).                  *)
(***************************************************************************)
WorkerStarts(r) ==
  /\ status[r] = "queued" /\ status' = [status EXCEPT ![r] = "running"]
  /\ UNCHANGED <<registered, revisions, log, pointer, paid, stamped, package>>
  /\ UNCHANGED <<tabVars, readerVars>>

WorkerEnds(r) ==
  /\ status[r] = "running"
  /\ \/ status' = [status EXCEPT ![r] = "failed"] /\ UNCHANGED package
     \/ /\ status' = [status EXCEPT ![r] = "succeeded"]
        /\ \E p \in DOMAIN Packages : package' = [package EXCEPT ![r] = p]
  /\ UNCHANGED <<registered, revisions, log, pointer, paid, stamped>>
  /\ UNCHANGED <<tabVars, readerVars>>

(***************************************************************************)
(* A rollout brings new terms, and may turn billing on or off.  The old    *)
(* revision goes on answering requests until it is retired; rollouts do    *)
(* not overlap.                                                            *)
(***************************************************************************)
Deploy ==
  /\ serving = {deployed} /\ deployed < MaxVersion
  /\ deployed' = deployed + 1 /\ serving' = serving \cup {deployed + 1}
  /\ UNCHANGED <<registered, log, pointer, status, paid, stamped, package>>
  /\ UNCHANGED <<tabVars, readerVars>>

Retire ==
  /\ serving # {deployed} /\ serving' = {deployed}
  /\ UNCHANGED <<registered, deployed, log, pointer, status, paid, stamped, package>>
  /\ UNCHANGED <<tabVars, readerVars>>

(***************************************************************************)
(* Downloads: the buttons of a package page and what the route answers.    *)
(***************************************************************************)
Artifacts(r) ==
  IF package[r] = NoPackage THEN {}
  ELSE {"package_json", "package_md"}
         \cup (IF Packages[package[r]].pdf THEN {"package_pdf"} ELSE {})
Buttons(r) == {"package_md", "package_pdf"} \cap Artifacts(r)
Download(r, kind) ==
  IF session = "out" THEN {401}
  ELSE IF status[r] = "none" THEN {404}
  ELSE IF r \notin Mine THEN {403}
  ELSE IF kind \notin Artifacts(r) THEN {404}
  ELSE {200, 502}
-----------------------------------------------------------------------------
Init ==
  /\ ReaderInit
  /\ session = "out" /\ registered = FALSE
  /\ deployed = 1 /\ serving = {1} /\ log = <<>> /\ pointer = 0
  /\ status = [r \in Runs |-> IF r \in Mine THEN "none" ELSE "pending"]
  /\ paid = [r \in Runs |-> FALSE] /\ stamped = [r \in Runs |-> FALSE]
  /\ package = [r \in Runs |-> NoPackage]
  /\ page = "home" /\ shown = NoRun /\ bundle = deployed /\ banner = "none"
  /\ list = NotLoaded /\ filter = "all" /\ text = "" /\ request = "none"

Next ==
  \/ \E p \in Linked \ {"checkout"} : Visit(p, NoRun)
  \/ \E p \in RunPages \cup {"checkout"}, r \in Runs : Visit(p, r)
  \/ SignIn \/ SignInRefused \/ SignOut \/ SessionExpires
  \/ BannerLoads \/ Accept \/ AcceptEnds
  \/ ListArrives
  \/ \E f \in {"completed", "in_progress", "failed", "all"} : SetFilter(f)
  \/ \E r \in Mine : ClickCard(r)
  \/ \E t \in Texts : Type(t)
  \/ Send \/ PostRuns \/ BriefAnswered \/ RequestFails
  \/ PostCheckout \/ CheckoutAnswered \/ StripePaid \/ StripeCanceled
  \/ \E r \in Mine : WorkerStarts(r) \/ WorkerEnds(r)
  \/ Deploy \/ Retire
  \/ ReaderNext /\ UNCHANGED <<serverVars, tabVars>>

Spec == Init /\ [][Next]_vars /\ ReaderFairness
-----------------------------------------------------------------------------
TypeOK ==
  /\ ReaderTypeOK
  /\ session \in {"in", "out"} /\ registered \in BOOLEAN
  /\ serving \in {{deployed}, {deployed - 1, deployed}} /\ serving \subseteq 1..MaxVersion
  /\ deployed \in 1..MaxVersion /\ bundle \in 1..deployed /\ pointer \in 0..deployed
  /\ status \in [Runs -> RunStatus] /\ paid \in [Runs -> BOOLEAN]
  /\ stamped \in [Runs -> BOOLEAN] /\ package \in [Runs -> DOMAIN Packages \cup {NoPackage}]
  /\ page \in Pages /\ shown \in Runs \cup {NoRun} /\ banner \in Banners
  /\ text \in Texts /\ request \in Requests
  /\ IF page = "decide" THEN Owns(shown) /\ pkg = package[shown] ELSE section = "closed"

\* The trail of consent, through rollouts in which an old revision records its version
\* after the new one did: latestTermsVersion is the version of the newest row; whoever
\* sees no banner on a loaded page has accepted the terms of that very page.  The
\* version on record goes back only while the revisions of both versions serve; and
\* whoever was told that the acceptance is saved has it on record, for the terms of the
\* page or newer ones, or else for the terms before while their revision still serves.
NewestOnRecord == pointer = (IF log = <<>> THEN 0 ELSE Last(log))
NoBannerWhenAccepted == banner = "hidden" => pointer = bundle
GoesBackInRollout == pointer' < pointer => serving = {pointer', pointer}
SavedIsOnRecord ==
  banner = "saving" /\ banner' = "accepted" =>
    /\ Len(log') > Len(log) /\ Last(log') = pointer'
    /\ pointer' >= bundle \/ serving = {pointer', bundle}
ConsentTrail ==
  /\ [](NewestOnRecord /\ NoBannerWhenAccepted)
  /\ [][GoesBackInRollout /\ SavedIsOnRecord]_vars

\* What a page offers still works although it was fetched before the rows went on:
\* a card that says completed opens the package and one in progress the run, the
\* chosen tab of the dashboard is never empty, and every download button of a
\* package page has its file.
LinksLeadOn ==
  /\ \A r \in DOMAIN list.cards :
       session = "in" /\ list.cards[r] # "failed" =>
         CardLeadsTo(list.cards[r]) \in LandsOn(CardLeadsTo(list.cards[r]), r, session)
  /\ DOMAIN list.cards # {} => Filtered(filter) # {}
  /\ page = "decide" /\ session = "in" => \A k \in Buttons(shown) : 200 \in Download(shown, k)
=============================================================================
