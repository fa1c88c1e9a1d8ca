----------------------------- MODULE AdminPages -----------------------------
(***************************************************************************)
(* The pages of the admin dashboard over one cache of server answers, as   *)
(* one browser tab uses them (src/admin/src/routes/_shell). A page asks for *)
(* answers by key. A handler of a page writes to the server, and then says *)
(* which answers its write has made invalid and which page comes next.     *)
(* The keys do not depend on each other: a behaviour watches one of them.  *)
(*                                                                         *)
(* The cache is a library (@tanstack/react-query, version 5) outside the   *)
(* repository; what the pages rely on is modelled as external. A request   *)
(* for an answer is repeated until it is answered. The leading 'admin' of  *)
(* the keys is left out; "one" is the id of the record a behaviour is      *)
(* about. The deliveries themselves are in ScoringOutbox.                  *)
(***************************************************************************)
EXTENDS Naturals, Sequences, SequencesExt

CONSTANTS
    Keys,        \* the keys of a run: each behaviour watches one
    MaxWrites    \* writes that change the watched answer: a bound of the model

ASSUME MaxWritesAssumption == MaxWrites \in Nat

-----------------------------------------------------------------------------
(* The answers each page asks for *)

\* StandingsTablePicker, in the editor of articles and site pages
StoryTables == {<<"story", "leagues">>, <<"story", "teams">>, <<"story", "seasons">>,
                <<"story", "results">>}

Dashboard == {<<"totals", "teams">>, <<"totals", "players">>, <<"totals", "leagues">>,
              <<"totals", "matches">>, <<"teams">>, <<"matches">>}
TeamsPage == {<<"teams">>, <<"seasons", "all">>, <<"leagues">>}
TeamPage == {<<"teams", "one">>, <<"teams">>, <<"seasons", "all">>, <<"leagues">>,
             <<"matches", "team">>, <<"players", "team">>, <<"roster", "one">>,
             <<"player-search">>}
PlayersPage == {<<"teams">>, <<"players">>}
PlayerPage == {<<"teams">>, <<"players", "one">>, <<"players", "one", "appearances">>}
NewPlayerPage == {<<"teams">>}
MatchesPage == {<<"teams">>, <<"matches">>, <<"seasons", "all">>, <<"leagues">>}
MatchPage == {<<"teams">>, <<"seasons", "all">>, <<"leagues">>, <<"matches", "one">>,
              <<"matches", "one", "squads">>, <<"players">>, <<"users", "scorers">>,
              <<"matches", "one", "scorers">>}
NewMatchPage == {<<"teams">>, <<"seasons", "all">>}
LeaguesPage == {<<"leagues">>}
LeaguePage == {<<"leagues">>, <<"seasons", "league">>, <<"teams">>}
SeasonsPage == {<<"leagues">>, <<"seasons", "league">>}
SeasonPage == {<<"seasons", "league">>, <<"players">>}
NewSeasonPage == {<<"leagues">>}
SponsorsPage == {<<"sponsors">>}
SponsorPage == {<<"sponsor", "one">>, <<"teams">>}
NewSponsorPage == {<<"teams">>}
GalleryPage == {<<"gallery">>}
PhotoPage == {<<"gallery", "one">>, <<"teams">>, <<"matches">>}
NewPhotoPage == {<<"teams">>, <<"matches">>}
NewsPage == {<<"news">>}
ArticlePage == {<<"news", "one">>} \cup StoryTables
UsersPage == {<<"users">>}
UserPage == {<<"users">>}
ShopPage == {<<"merchandise">>}
ProductPage == {<<"teams", "options">>, <<"merchandise", "one">>}
NewProductPage == {<<"teams", "options">>}
OrdersPage == {<<"orders", "filter">>}
InboxPage == {<<"messages">>}
MessagePage == {<<"message", "one">>}
DisciplinePage == {<<"discipline-cases">>, <<"discipline-matches">>}
FansPage == {<<"fan-engagement", "dates">>, <<"supporters", "search">>}
SettingsPage == {<<"settings">>}
AboutPage == {<<"about">>}
SitePage == {<<"site-page", "one">>} \cup StoryTables
ProfilePage == {<<"me">>}
AuditPage == {<<"audit">>}
ScoringPage == {<<"scorer", "matches">>, <<"edit-requests", "pending">>,
                <<"public-teams">>}
ScoreMatchPage == {<<"scorer", "matches", "one">>, <<"matches", "one", "live">>,
                   <<"matches", "one", "squads">>, <<"photos", "one">>,
                   <<"public-teams">>, <<"players", "scoring">>}

Reads == [dashboard |-> Dashboard, teams |-> TeamsPage, team |-> TeamPage,
          newTeam |-> {}, players |-> PlayersPage, player |-> PlayerPage,
          newPlayer |-> NewPlayerPage, matches |-> MatchesPage, match |-> MatchPage,
          newMatch |-> NewMatchPage, leagues |-> LeaguesPage, league |-> LeaguePage,
          newLeague |-> {}, seasons |-> SeasonsPage, season |-> SeasonPage,
          newSeason |-> NewSeasonPage, sponsors |-> SponsorsPage,
          sponsor |-> SponsorPage, newSponsor |-> NewSponsorPage,
          gallery |-> GalleryPage, photo |-> PhotoPage, newPhoto |-> NewPhotoPage,
          news |-> NewsPage, article |-> ArticlePage, newArticle |-> StoryTables,
          users |-> UsersPage, user |-> UserPage, newUser |-> {}, shop |-> ShopPage,
          product |-> ProductPage, newProduct |-> NewProductPage,
          orders |-> OrdersPage, inbox |-> InboxPage, message |-> MessagePage,
          discipline |-> DisciplinePage, fans |-> FansPage, settings |-> SettingsPage,
          about |-> AboutPage, sitePage |-> SitePage, profile |-> ProfilePage,
          audit |-> AuditPage, scoring |-> ScoringPage, scoreMatch |-> ScoreMatchPage]

Answers == UNION {Reads[p] : p \in DOMAIN Reads}
ASSUME KeysAssumption == Keys \subseteq Answers

\* refetchInterval: asked for again every 10 to 30 seconds while shown
Polled == {<<"scorer", "matches">>, <<"scorer", "matches", "one">>,
           <<"matches", "one", "live">>, <<"edit-requests", "pending">>}

\* The answer a page's handlers return early without ('if (!team) return').
Needs == [team |-> <<"teams", "one">>, player |-> <<"players", "one">>,
          match |-> <<"matches", "one">>, league |-> <<"leagues">>,
          season |-> <<"seasons", "league">>, sponsor |-> <<"sponsor", "one">>,
          photo |-> <<"gallery", "one">>, article |-> <<"news", "one">>,
          product |-> <<"merchandise", "one">>, message |-> <<"message", "one">>,
          scoreMatch |-> <<"scorer", "matches", "one">>]

-----------------------------------------------------------------------------
(* What the server writes for a request that touches more than one kind of   *)
(* row. Other requests write rows of one kind, which their handler says.     *)

\* The season's players of a club; who is registered becomes active.
RosterSaved == {"rosters", "players"}

\* A fixture that is no longer completed loses its result and edit requests.
MatchUpdated == {"matches", "stats", "players", "requests"}

ResultSet == {"matches", "stats", "players"}

\* The database deletes what belongs to the fixture, or clears its match_id.
MatchesDeleted == {"matches", "stats", "squads", "scorers", "live", "requests",
                   "discipline", "gallery", "fans"}

\* A scorer who is deactivated leaves the fixtures that are not over.
UserUpdated == {"users", "scorers"}

\* The figures of the fixture, and with them its players' totals.
Reconciled == {"stats", "players"}

ScorecardChanged == {"matches", "live"} \cup Reconciled
SquadSaved == {"squads", "live"} \cup Reconciled
MatchReset == {"squads", "requests"} \cup ScorecardChanged

\* The decision of a case may set the result of its fixture.
CaseDecided == {"discipline", "matches"}

\* A cancelled order returns its stock.
OrderUpdated == {"orders", "merchandise"}

-----------------------------------------------------------------------------
(* The handlers: the page each is on, the rows the server writes for it, and *)
(* the calls it makes when the server has answered.                          *)

From(on, writes, calls) == [page |-> on, writes |-> writes, calls |-> calls]

Nowhere == {}
All(key)       == [do |-> "all", key |-> key, to |-> Nowhere]       \* invalidateQueries
Exact(key)     == [do |-> "exact", key |-> key, to |-> Nowhere]     \* ... with exact: true
Put(key)       == [do |-> "put", key |-> key, to |-> Nowhere]       \* setQueryData
Go(pages)      == [do |-> "go", key |-> <<>>, to |-> pages]         \* navigate
Leave(to, key) == [do |-> "leave", key |-> key, to |-> {to}]        \* ... and removeQueries

\* invalidateCompetitionDataQueries, without the keys that 'players' covers
CompetitionData == <<All(<<"matches">>), All(<<"players">>)>>

SaveRoster == From("team", RosterSaved,
    <<All(<<"roster", "one">>), All(<<"players">>), All(<<"player-search">>)>>)

BulkSquadStatus == From("team", {"players"}, <<All(<<"players">>)>>)

AddTeamToSeasonRoster == From("team", {"seasons"},
    <<All(<<"seasons">>), All(<<"matches">>)>>)

SaveTeam == From("team", {"teams"},
    <<All(<<"teams">>), All(<<"teams", "one">>), Go({"team"})>>)

ArchiveTeam == From("team", {"teams"}, <<All(<<"teams">>), Go({"teams"})>>)

BulkArchive == From("teams", {"teams"}, <<All(<<"teams">>)>>)

CreateTeam == From("newTeam", {"teams"}, <<All(<<"teams">>), Go({"team"})>>)

SavePlayer == From("player", {"players", "teams"},
    <<All(<<"players">>), All(<<"players", "one">>), All(<<"teams">>),
      All(<<"players", "one", "appearances">>), Go({"player", "team"})>>)

CreatePlayer == From("newPlayer", {"players"}, <<All(<<"players">>), Go({"player"})>>)

BulkSetStatus == From("players", {"players"}, <<All(<<"players">>)>>)

SaveMatch == From("match", MatchUpdated,
    CompetitionData \o <<All(<<"matches", "one">>), Go({"match"})>>)

SaveScorerAssignments == From("match", {"scorers"},
    <<All(<<"matches", "one", "scorers">>)>>)

SaveResult == From("match", ResultSet,
    CompetitionData \o <<All(<<"matches", "one">>)>>)

CreateMatch == From("newMatch", {"matches"}, <<All(<<"matches">>), Go({"match"})>>)

BulkPublish == From("matches", MatchUpdated,
    <<All(<<"matches">>)>> \o CompetitionData)

BulkCancel == From("matches", MatchesDeleted,
    <<All(<<"matches">>)>> \o CompetitionData)

MarkNonRosterInactive == From("season", {"players"}, <<All(<<"players">>)>>)

CreatePlayoffFixtures == From("season", {"matches"}, CompetitionData)

PublishDraftFixtures == From("season", {"matches"}, CompetitionData)

SaveSeason == From("season", {"seasons", "rosters"}, <<All(<<"seasons">>), Go({"season"})>>)

\* Mutant: the leagues are not named.
SaveLeagueSeasons == From("league", {"leagues"}, <<All(<<"seasons">>), Go({"league"})>>)

SaveLeague == From("league", {"leagues"},
    <<All(<<"leagues">>), All(<<"seasons">>), Go({"league"})>>)

CreateLeague == From("newLeague", {"leagues"}, <<All(<<"leagues">>), Go({"league"})>>)

CreateSeason == From("newSeason", {"seasons"}, <<All(<<"seasons">>), Go({"season"})>>)

SaveSponsor == From("sponsor", {"sponsors"},
    <<All(<<"sponsors">>), All(<<"sponsor", "one">>), Go({"sponsor"})>>)

RemoveSponsor == From("sponsor", {"sponsors"}, <<All(<<"sponsors">>), Go({"sponsors"})>>)

CreateSponsor == From("newSponsor", {"sponsors"}, <<All(<<"sponsors">>), Go({"sponsor"})>>)

SavePhoto == From("photo", {"gallery"},
    <<All(<<"gallery">>), All(<<"gallery", "one">>), Go({"photo"})>>)

RemovePhoto == From("photo", {"gallery"}, <<All(<<"gallery">>), Go({"gallery"})>>)

CreatePhoto == From("newPhoto", {"gallery"}, <<All(<<"gallery">>), Go({"photo"})>>)

SaveArticle == From("article", {"news"},
    <<All(<<"news">>), All(<<"news", "one">>), Go({"article"})>>)

RemoveArticle == From("article", {"news"},
    <<Exact(<<"news">>), Leave("news", <<"news", "one">>)>>)

CreateArticle == From("newArticle", {"news"}, <<All(<<"news">>), Go({"article"})>>)

SetUserStatus == From("users", UserUpdated, <<All(<<"users">>)>>)

CreateUser == From("newUser", {"users"}, <<All(<<"users">>), Go({"user"})>>)

SaveProduct == From("product", {"merchandise"},
    <<All(<<"merchandise">>), All(<<"merchandise", "one">>)>>)

RemoveProduct == From("product", {"merchandise"}, <<All(<<"merchandise">>), Go({"shop"})>>)

CreateProduct == From("newProduct", {"merchandise"},
    <<All(<<"merchandise">>), Go({"shop"})>>)

UpdateOrder == From("orders", OrderUpdated, <<All(<<"orders">>)>>)

MarkRead == From("message", {"messages"},
    <<All(<<"messages">>), All(<<"message", "one">>)>>)

MarkUnread == From("message", {"messages"},
    <<All(<<"messages">>), All(<<"message", "one">>)>>)

DecideCase == From("discipline", CaseDecided, <<All(<<"discipline-cases">>)>>)

CreateCase == From("discipline", {"discipline"}, <<All(<<"discipline-cases">>)>>)

ProcessNotifications == From("fans", {"fans"}, <<All(<<"fan-engagement">>)>>)

SaveSettings == From("settings", {"settings"}, <<Put(<<"settings">>)>>)

SaveAbout == From("about", {"about"}, <<Put(<<"about">>)>>)

SaveSitePage == From("sitePage", {"site-pages"}, <<Put(<<"site-page", "one">>)>>)

SaveProfile == From("profile", {"profile", "users"}, <<Put(<<"me">>)>>)

RequestEdit == From("scoring", {"requests"}, <<All(<<"scorer", "matches">>)>>)

ReportIncident == From("scoring", {"discipline"}, <<>>)

DecideRequest == From("scoring", {"requests"},
    <<All(<<"edit-requests">>), All(<<"scorer", "matches">>)>>)

UploadMatchPhoto == From("scoreMatch", {"gallery"}, <<All(<<"photos", "one">>)>>)

SaveSetup == From("scoreMatch", ScorecardChanged,
    <<All(<<"matches", "one", "live">>), All(<<"scorer", "matches">>)>>)

SaveConditions == From("scoreMatch", ScorecardChanged,
    <<Put(<<"matches", "one", "live">>), All(<<"scorer", "matches">>)>>)

SaveSquad == From("scoreMatch", SquadSaved,
    <<All(<<"players", "scoring">>), All(<<"matches", "one", "squads">>),
      All(<<"matches", "one", "live">>)>>)

StartScoring == From("scoreMatch", ScorecardChanged,
    <<All(<<"matches", "one", "live">>), All(<<"scorer", "matches">>)>>)

CompleteMatch == From("scoreMatch", ScorecardChanged,
    <<All(<<"matches", "one", "live">>), All(<<"scorer", "matches">>)>>)

ResetTest == From("scoreMatch", MatchReset,
    <<All(<<"matches", "one", "live">>), All(<<"matches", "one", "squads">>),
      All(<<"scorer", "matches">>)>>)

RequestEditAccess == From("scoreMatch", {"requests"},
    <<All(<<"matches", "one", "live">>), All(<<"scorer", "matches">>)>>)

Handlers == [saveRoster |-> SaveRoster, bulkSquadStatus |-> BulkSquadStatus,
             addTeamToSeason |-> AddTeamToSeasonRoster, saveTeam |-> SaveTeam,
             archiveTeam |-> ArchiveTeam, bulkArchive |-> BulkArchive,
             createTeam |-> CreateTeam, savePlayer |-> SavePlayer,
             createPlayer |-> CreatePlayer, bulkSetStatus |-> BulkSetStatus,
             saveMatch |-> SaveMatch, saveScorers |-> SaveScorerAssignments,
             saveResult |-> SaveResult, createMatch |-> CreateMatch,
             bulkPublish |-> BulkPublish, bulkCancel |-> BulkCancel,
             markInactive |-> MarkNonRosterInactive,
             createPlayoffs |-> CreatePlayoffFixtures,
             publishDrafts |-> PublishDraftFixtures, saveSeason |-> SaveSeason,
             saveLeague |-> SaveLeague, createLeague |-> CreateLeague,
             createSeason |-> CreateSeason, saveSponsor |-> SaveSponsor,
             removeSponsor |-> RemoveSponsor, createSponsor |-> CreateSponsor,
             savePhoto |-> SavePhoto, removePhoto |-> RemovePhoto,
             createPhoto |-> CreatePhoto, saveArticle |-> SaveArticle,
             removeArticle |-> RemoveArticle, createArticle |-> CreateArticle,
             userStatus |-> SetUserStatus, createUser |-> CreateUser,
             saveProduct |-> SaveProduct, removeProduct |-> RemoveProduct,
             createProduct |-> CreateProduct, updateOrder |-> UpdateOrder,
             readMessage |-> MarkRead, unreadMessage |-> MarkUnread,
             decideCase |-> DecideCase, createCase |-> CreateCase,
             processFans |-> ProcessNotifications, saveSettings |-> SaveSettings,
             saveAbout |-> SaveAbout, saveSitePage |-> SaveSitePage,
             saveProfile |-> SaveProfile, requestEdit |-> RequestEdit,
             reportIncident |-> ReportIncident, decideRequest |-> DecideRequest,
             uploadPhoto |-> UploadMatchPhoto, saveSetup |-> SaveSetup,
             saveConditions |-> SaveConditions, saveSquad |-> SaveSquad,
             startScoring |-> StartScoring, complete |-> CompleteMatch,
             resetTest |-> ResetTest, askEdit |-> RequestEditAccess]

-----------------------------------------------------------------------------
(* The rows an answer is made of: what the page is about, without the names  *)
(* of other records that are joined to it. The audit log, which most writes  *)
(* extend and no handler names, is left out.                                 *)

\* A fixture with its result and the figures of its players.
FixtureRows == {"matches", "stats"}

\* ... with who may score it, and until when
ScorerRows == {"matches", "stats", "scorers", "requests"}
LiveRows == {"live", "matches", "scorers", "requests"}

RequestRows == {"requests", "matches"}
AppearanceRows == {"stats", "matches"}
RosterRows == {"rosters", "players"}

\* Who may be selected: the season's roster and who has played already.
EligibleRows == {"rosters", "players", "squads", "stats"}

\* The report counts the orders too.
ReportRows == {"fans", "orders"}

Rows(key) ==
    CASE key \in {<<"totals", "teams">>, <<"public-teams">>, <<"story", "teams">>} -> {"teams"}
      [] key \in {<<"totals", "players">>, <<"player-search">>} -> {"players"}
      [] key \in {<<"totals", "leagues">>, <<"story", "leagues">>} -> {"leagues"}
      [] key \in {<<"totals", "matches">>, <<"story", "results">>, <<"discipline-matches">>,
                  <<"matches">>, <<"matches", "one">>, <<"matches", "team">>} -> FixtureRows
      [] key = <<"story", "seasons">> -> {"seasons"}
      [] key = <<"players", "one", "appearances">> -> AppearanceRows
      [] key = <<"roster", "one">> -> RosterRows
      [] key = <<"players", "scoring">> -> EligibleRows
      [] key = <<"matches", "one", "squads">> -> {"squads"}
      [] key = <<"matches", "one", "scorers">> -> {"scorers"}
      [] key = <<"matches", "one", "live">> -> LiveRows
      [] key[1] = "scorer" -> ScorerRows
      [] key = <<"edit-requests", "pending">> -> RequestRows
      [] key = <<"photos", "one">> -> {"gallery"}
      [] key = <<"sponsor", "one">> -> {"sponsors"}
      [] key = <<"message", "one">> -> {"messages"}
      [] key = <<"site-page", "one">> -> {"site-pages"}
      [] key = <<"me">> -> {"profile"}
      [] key = <<"discipline-cases">> -> {"discipline"}
      [] key = <<"fan-engagement", "dates">> -> ReportRows
      [] key = <<"supporters", "search">> -> {"fans"}
      [] OTHER -> {key[1]}

\* A new record has another id than the one a behaviour is about; a new photo
\* may be of its match.
Creates == {"createTeam", "createPlayer", "createMatch", "createLeague", "createSeason",
            "createSponsor", "createPhoto", "createArticle", "createUser", "createProduct",
            "createPlayoffs", "createCase"}

Affects(h, key) ==
    /\ Handlers[h].writes \cap Rows(key) # {}
    /\ ~(h \in Creates /\ Len(key) > 1 /\ key[2] = "one" /\ key[1] # "photos")

\* The call names the answer: 'all' also names every longer key.
Names(call, key) ==
    CASE call.do = "all" -> IsPrefix(call.key, key)
      [] call.do = "go"  -> FALSE
      [] OTHER           -> call.key = key

\* The handlers that touch an answer: they change it, or name it.
Touching == [key \in Keys |->
    {h \in DOMAIN Handlers : \/ Affects(h, key)
                             \/ \E i \in DOMAIN Handlers[h].calls :
                                     Names(Handlers[h].calls[i], key)}]

\* The pages with such a handler, one that shows the answer and has none, and
\* the dashboard for all that neither show it nor touch it.
Near == [key \in Keys |->
    LET busy == {Handlers[h].page : h \in Touching[key]}
        calm == {p \in DOMAIN Reads \ busy : key \in Reads[p]}
    IN  busy \cup {"dashboard"} \cup {p \in calm : p = CHOOSE q \in calm : TRUE}]

-----------------------------------------------------------------------------
(* What the handlers change without naming it: these answers stay as they    *)
(* are until their minute is over. The properties leave these pairs out.     *)

NamedByNobody == {<<"audit">>, <<"discipline-matches">>, <<"public-teams">>,
                  <<"supporters", "search">>, <<"totals", "teams">>, <<"totals", "players">>,
                  <<"totals", "leagues">>, <<"totals", "matches">>} \cup StoryTables
Fixtures == {<<"matches">>, <<"matches", "one">>, <<"matches", "team">>}
Careers == {<<"players">>, <<"players", "one">>, <<"players", "team">>,
            <<"players", "one", "appearances">>}

Overlooked(h, key) ==
    \/ key \in NamedByNobody
    \/ key \in {<<"player-search">>, <<"roster", "one">>} /\ h # "saveRoster"
    \/ key[1] = "scorer" /\ Handlers[h].page \notin {"scoring", "scoreMatch"}
    \/ key \in Fixtures \cup Careers /\ Handlers[h].page \in {"scoreMatch", "discipline"}
    \/ /\ key = <<"players", "scoring">>
       /\ h \in {"saveSeason", "saveSetup", "saveConditions", "startScoring", "complete",
                 "resetTest"}
    \/ /\ key = <<"matches", "one", "live">>
       /\ h \in {"saveScorers", "userStatus", "decideCase", "requestEdit", "decideRequest"}
    \/ key = <<"edit-requests", "pending">> /\ h # "decideRequest"
    \/ key[1] = "gallery" /\ h \in {"uploadPhoto", "bulkCancel"}
    \/ key = <<"photos", "one">> /\ h # "uploadPhoto"
    \/ key = <<"discipline-cases">> /\ h \in {"reportIncident", "bulkCancel"}
    \/ key = <<"fan-engagement", "dates">> /\ h # "processFans"
    \/ key[1] = "merchandise" /\ h = "updateOrder"
    \/ key[1] = "users" /\ h = "saveProfile"
    \/ <<h, key>> \in {<<"userStatus", <<"matches", "one", "scorers">>>>,
                       <<"saveSquad", <<"scorer", "matches">>>>,
                       <<"saveSquad", <<"scorer", "matches", "one">>>>,
                       <<"removeSponsor", <<"sponsor", "one">>>>}

-----------------------------------------------------------------------------
VARIABLES
    watched,   \* the key this behaviour is about
    page,      \* the page on show
    entry,     \* the cached answer of the watched key
    flight,    \* the request for it
    server,    \* how often the rows of the answer have been written
    own,       \* the last of those writes a handler of this tab has finished
    op         \* the handler that is running

vars == <<watched, page, entry, flight, server, own, op>>

NoEntry == [have |-> FALSE, at |-> 0, aged |-> FALSE, valid |-> TRUE, raced |-> FALSE]
\* An answer that is known to be old; how old makes no difference.
Invalid == [NoEntry EXCEPT !.have = TRUE, !.valid = FALSE]
NoFlight == [phase |-> "none", at |-> 0, raced |-> FALSE]
Ask == [phase |-> "asked", at |-> 0, raced |-> FALSE]
Idle == [phase |-> "none", at |-> 0, todo |-> <<>>, owes |-> FALSE, waits |-> FALSE]

Shown == watched \in Reads[page]
Stale == ~entry.have \/ entry.aged \/ ~entry.valid

\* An answer that was worked out before a write and has not come in yet.
Raced(f) == [f EXCEPT !.raced = @ \/ (f.phase = "served" /\ f.at < op.at)]

Init ==
    /\ watched \in Keys
    /\ page = "dashboard"
    /\ entry = NoEntry
    /\ flight = IF watched \in Dashboard THEN Ask ELSE NoFlight
    /\ server = 0
    /\ own = 0
    /\ op = Idle

\* Mutant: an answer that is cached is not asked for again.
MountCached(to) ==
    IF to # page /\ watched \in Reads[to] /\ flight.phase = "none" /\ ~entry.have
    THEN Ask ELSE flight

\* A page that opens asks for what it has not, or has stale.
Mount(to) ==
    IF to # page /\ watched \in Reads[to] /\ flight.phase = "none" /\ Stale THEN Ask ELSE flight

Visit(to) ==
    /\ to # page
    /\ page' = to
    /\ flight' = Mount(to)
    /\ UNCHANGED <<watched, entry, server, own, op>>

Serve ==
    /\ flight.phase = "asked"
    /\ flight' = [flight EXCEPT !.phase = "served", !.at = server]
    /\ UNCHANGED <<watched, page, entry, server, own, op>>

Arrive ==
    /\ flight.phase = "served"
    /\ entry' = [have |-> TRUE, at |-> flight.at, aged |-> FALSE, valid |-> TRUE, raced |-> flight.raced]
    /\ flight' = NoFlight
    /\ op' = [op EXCEPT !.waits = FALSE]
    /\ UNCHANGED <<watched, page, server, own>>

\* staleTime of the query client: a minute
Age ==
    /\ entry.have /\ entry.valid /\ ~entry.aged
    /\ entry' = [entry EXCEPT !.aged = TRUE]
    /\ UNCHANGED <<watched, page, flight, server, own, op>>

\* refetchOnWindowFocus
Focus ==
    /\ Shown /\ Stale
    /\ watched \notin {<<"me">>, <<"site-page", "one">>}
    /\ flight.phase = "none"
    /\ flight' = Ask
    /\ UNCHANGED <<watched, page, entry, server, own, op>>

\* Mutant: the timer stops at the first answer.
PollUntilAnswered ==
    /\ Shown /\ watched \in Polled
    /\ flight.phase = "none" /\ ~entry.have
    /\ flight' = Ask
    /\ UNCHANGED <<watched, page, entry, server, own, op>>

\* refetchInterval
Poll ==
    /\ Shown /\ watched \in Polled
    /\ flight.phase = "none"
    /\ flight' = Ask
    /\ UNCHANGED <<watched, page, entry, server, own, op>>

\* An answer no page shows is dropped after some minutes.
Collect ==
    /\ ~Shown /\ entry.have /\ flight.phase = "none"
    /\ entry' = NoEntry
    /\ UNCHANGED <<watched, page, flight, server, own, op>>

\* Another user's write.
Others ==
    /\ server < MaxWrites
    /\ server' = server + 1
    /\ UNCHANGED <<watched, page, entry, flight, own, op>>

-----------------------------------------------------------------------------
(* A handler runs *)

\* The calls that matter to the watched answer: those that name it, and the
\* changes of page.
Matters(call) == call.do \in {"go", "leave"} \/ Names(call, watched)

\* What a call does to the watched answer.
Effect(call) ==
    [do |-> CASE call.do \in {"all", "exact"}               -> "invalidate"
              [] call.do = "leave" /\ ~Names(call, watched) -> "go"
              [] OTHER                                      -> call.do,
     to |-> call.to]

CallsOf(h) ==
    LET calls == Handlers[h].calls
        upTo[i \in 0 .. Len(calls)] ==
            IF i = 0 THEN <<>>
            ELSE IF Matters(calls[i]) THEN Append(upTo[i - 1], Effect(calls[i]))
            ELSE upTo[i - 1]
    IN  upTo[Len(calls)]

Start(h) ==
    /\ op = Idle
    /\ page = Handlers[h].page
    /\ (page \in DOMAIN Needs /\ watched = Needs[page]) => entry.have
    /\ op' = [Idle EXCEPT !.phase = IF Affects(h, watched) THEN "sent" ELSE "committed",
                          !.todo = CallsOf(h),
                          !.owes = Affects(h, watched) /\ ~Overlooked(h, watched)]
    /\ UNCHANGED <<watched, page, entry, flight, server, own>>

\* The server writes; a write of other rows makes no difference here.
Commit ==
    /\ op.phase = "sent"
    /\ server < MaxWrites
    /\ server' = server + 1
    /\ op' = [op EXCEPT !.phase = "committed", !.at = server']
    /\ UNCHANGED <<watched, page, entry, flight, own>>

\* The server refuses, or the reply is lost: no call is made.
Fail ==
    /\ op.phase \in {"sent", "committed"}
    /\ op' = Idle
    /\ UNCHANGED <<watched, page, entry, flight, server, own>>

Finished(o) == o.phase = "calls" /\ o.todo = <<>>

\* Mutant: the page stays busy after the last call.
GoesOnBusy(o) ==
    /\ op' = o
    /\ own' = IF Finished(o) /\ op.owes THEN op.at ELSE own

\* The handler goes on to o; after its last call it is over.
GoesOn(o) ==
    /\ op' = IF Finished(o) THEN Idle ELSE o
    /\ own' = IF Finished(o) /\ op.owes THEN op.at ELSE own

Reply ==
    /\ op.phase = "committed"
    /\ GoesOn([op EXCEPT !.phase = "calls"])
    /\ UNCHANGED <<watched, page, entry, flight, server>>

\* Mutant: invalid answers that are on show are not asked for again.
InvalidatedLazily ==
    /\ entry' = IF entry.have THEN Invalid ELSE NoEntry
    /\ flight' = Raced(flight)

\* invalidateQueries: the answer is invalid, and asked for again if it is on
\* show. A request under way starts again, unless it is the first or nobody
\* looks at it.
Invalidated ==
    /\ entry' = IF entry.have THEN Invalid ELSE NoEntry
    /\ flight' = IF Shown /\ (entry.have \/ flight.phase = "none") THEN Ask ELSE Raced(flight)

\* The next call of the handler; what follows an invalidation waits for the
\* answer if that is on show.
Calling(kinds) ==
    /\ op.phase = "calls" /\ ~op.waits
    /\ Head(op.todo).do \in kinds
    /\ GoesOn([op EXCEPT !.todo = Tail(@), !.waits = Shown /\ kinds = {"invalidate"}])
    /\ UNCHANGED <<watched, server>>

InvalidateQueries ==
    /\ Calling({"invalidate"})
    /\ Invalidated
    /\ UNCHANGED page

SetQueryData ==
    /\ Calling({"put"})
    /\ entry' = [NoEntry EXCEPT !.have = TRUE, !.at = op.at]
    /\ flight' = Raced(flight)
    /\ UNCHANGED page

\* navigate; a record that is gone leaves the cache with it (removeQueries)
Navigate ==
    /\ Calling({"go", "leave"})
    /\ page' \in Head(op.todo).to
    /\ IF Head(op.todo).do = "leave" THEN entry' = NoEntry /\ flight' = NoFlight
       ELSE flight' = Mount(page') /\ UNCHANGED entry

Next ==
    \/ \E to \in Near[watched] : Visit(to)
    \/ Serve
    \/ Arrive
    \/ Age
    \/ Focus
    \/ Poll
    \/ Collect
    \/ Others
    \/ \E h \in Touching[watched] : Start(h)
    \/ Commit
    \/ Fail
    \/ Reply
    \/ InvalidateQueries
    \/ SetQueryData
    \/ Navigate

\* Requests are answered or fail, code that may go on does, and the timers of
\* the polled answers keep firing. What a user does is left to the user.
Fairness ==
    /\ WF_vars(Serve) /\ WF_vars(Arrive)
    /\ WF_vars(Commit \/ Fail) /\ WF_vars(Reply \/ Fail)
    /\ WF_vars(InvalidateQueries \/ SetQueryData \/ Navigate)
    /\ WF_vars(Poll)

Spec == Init /\ [][Next]_vars /\ Fairness

-----------------------------------------------------------------------------
(* Properties *)

\* The record of a request, an answer and a handler are of their types, and no
\* answer, finished or on its way, is of a time the server has not reached.
TypeOK ==
    /\ watched \in Keys
    /\ page \in DOMAIN Reads
    /\ entry \in [have: BOOLEAN, at: 0..server, aged: BOOLEAN, valid: BOOLEAN, raced: BOOLEAN]
    /\ flight \in [phase: {"none", "asked", "served"}, at: 0..server, raced: BOOLEAN]
    /\ server \in 0..MaxWrites
    /\ own \in 0..server
    /\ op.phase \in {"none", "sent", "committed", "calls"}
    /\ op.at \in 0..server
    /\ op.phase = "calls" => op.todo # <<>>

\* Once a handler has finished, no answer that counts as valid is older than
\* the handler's own write, on whatever page: every handler names every answer
\* it changes, the ones of Overlooked left out, and so are the answers that
\* crossed the write on their way (an answer worked out before it that comes
\* in after it).
OwnWritesShown == entry.have /\ entry.valid /\ ~entry.raced => entry.at >= own

\* A page never shows an answer that is known to be invalid, or nothing, without
\* a request for it under way: whichever order pages open, handlers finish and
\* answers come in.
StaleIsFetched == Shown /\ (~entry.have \/ ~entry.valid) => flight.phase # "none"

\* A handler that waits for the answers it asked for comes to its end, though
\* the user may open another page meanwhile or another handler's request be on
\* its way.
SavesEnd == op.phase # "none" ~> op.phase = "none"

\* A page that polls and is left to itself shows what the server has, sooner
\* or later, whoever wrote it and whatever this tab overlooks.
PolledPagesCatchUp == \A n \in 1..MaxWrites :
    server = n /\ Shown /\ watched \in Polled
        ~> ~Shown \/ op # Idle \/ (entry.have /\ entry.at >= n)
=============================================================================
