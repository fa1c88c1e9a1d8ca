-------------------------- MODULE AdminPagesProofs --------------------------
(***************************************************************************)
(* What the cache of the dashboard promises, for every choice of watched   *)
(* answers and any number of writes: the record of every handler against   *)
(* the answers it changes, and the invariant of the cache.                 *)
(***************************************************************************)
EXTENDS AdminPages, NatLemmas

-----------------------------------------------------------------------------
(* The table of the handlers: pages, calls and answers are what they should  *)
(* be, and every handler names the answers it changes.                       *)

\* The answers that are made of each kind of row.
AnswersOf(row) ==
    CASE row = "about" -> {<<"about">>}
      [] row = "audit" -> {<<"audit">>}
      [] row = "discipline" -> {<<"discipline-cases">>}
      [] row = "fans" -> {<<"fan-engagement", "dates">>, <<"supporters", "search">>}
      [] row = "gallery" -> {<<"gallery", "one">>, <<"gallery">>, <<"photos", "one">>}
      [] row = "leagues" ->
              {<<"leagues">>, <<"story", "leagues">>, <<"totals", "leagues">>}
      [] row = "live" -> {<<"matches", "one", "live">>}
      [] row = "matches" ->
              {<<"discipline-matches">>, <<"edit-requests", "pending">>,
              <<"matches", "one", "live">>, <<"matches", "one">>, <<"matches", "team">>,
              <<"matches">>, <<"players", "one", "appearances">>,
              <<"scorer", "matches", "one">>, <<"scorer", "matches">>,
              <<"story", "results">>, <<"totals", "matches">>}
      [] row = "merchandise" -> {<<"merchandise", "one">>, <<"merchandise">>}
      [] row = "messages" -> {<<"message", "one">>, <<"messages">>}
      [] row = "news" -> {<<"news", "one">>, <<"news">>}
      [] row = "orders" -> {<<"fan-engagement", "dates">>, <<"orders", "filter">>}
      [] row = "players" ->
              {<<"player-search">>, <<"players", "one">>, <<"players", "scoring">>,
              <<"players", "team">>, <<"players">>, <<"roster", "one">>,
              <<"totals", "players">>}
      [] row = "profile" -> {<<"me">>}
      [] row = "requests" ->
              {<<"edit-requests", "pending">>, <<"matches", "one", "live">>,
              <<"scorer", "matches", "one">>, <<"scorer", "matches">>}
      [] row = "rosters" -> {<<"players", "scoring">>, <<"roster", "one">>}
      [] row = "scorers" ->
              {<<"matches", "one", "live">>, <<"matches", "one", "scorers">>,
              <<"scorer", "matches", "one">>, <<"scorer", "matches">>}
      [] row = "seasons" ->
              {<<"seasons", "all">>, <<"seasons", "league">>, <<"story", "seasons">>}
      [] row = "settings" -> {<<"settings">>}
      [] row = "site-pages" -> {<<"site-page", "one">>}
      [] row = "sponsors" -> {<<"sponsor", "one">>, <<"sponsors">>}
      [] row = "squads" -> {<<"matches", "one", "squads">>, <<"players", "scoring">>}
      [] row = "stats" ->
              {<<"discipline-matches">>, <<"matches", "one">>, <<"matches", "team">>,
              <<"matches">>, <<"players", "one", "appearances">>,
              <<"players", "scoring">>, <<"scorer", "matches", "one">>,
              <<"scorer", "matches">>, <<"story", "results">>, <<"totals", "matches">>}
      [] row = "teams" ->
              {<<"public-teams">>, <<"story", "teams">>, <<"teams", "one">>,
              <<"teams", "options">>, <<"teams">>, <<"totals", "teams">>}
      [] row = "users" -> {<<"users", "scorers">>, <<"users">>}

Listed == {<<"about">>, <<"audit">>, <<"discipline-cases">>, <<"discipline-matches">>,
    <<"edit-requests", "pending">>, <<"fan-engagement", "dates">>, <<"gallery", "one">>,
    <<"gallery">>, <<"leagues">>, <<"matches", "one", "live">>, <<"matches", "one", "scorers">>,
    <<"matches", "one", "squads">>, <<"matches", "one">>, <<"matches", "team">>, <<"matches">>,
    <<"me">>, <<"merchandise", "one">>, <<"merchandise">>, <<"message", "one">>, <<"messages">>,
    <<"news", "one">>, <<"news">>, <<"orders", "filter">>, <<"photos", "one">>,
    <<"player-search">>, <<"players", "one", "appearances">>, <<"players", "one">>,
    <<"players", "scoring">>, <<"players", "team">>, <<"players">>, <<"public-teams">>,
    <<"roster", "one">>, <<"scorer", "matches", "one">>, <<"scorer", "matches">>,
    <<"seasons", "all">>, <<"seasons", "league">>, <<"settings">>, <<"site-page", "one">>,
    <<"sponsor", "one">>, <<"sponsors">>, <<"story", "leagues">>, <<"story", "results">>,
    <<"story", "seasons">>, <<"story", "teams">>, <<"supporters", "search">>,
    <<"teams", "one">>, <<"teams", "options">>, <<"teams">>, <<"totals", "leagues">>,
    <<"totals", "matches">>, <<"totals", "players">>, <<"totals", "teams">>,
    <<"users", "scorers">>, <<"users">>}

LEMMA AnswersListed == Answers \subseteq Listed
<1>1. \A p \in DOMAIN Reads : Reads[p] \subseteq Listed
  BY DEF Reads, Listed,
         AboutPage, ArticlePage, AuditPage, Dashboard, DisciplinePage, FansPage,
         GalleryPage, InboxPage, LeaguePage, LeaguesPage, MatchPage, MatchesPage,
         MessagePage, NewMatchPage, NewPhotoPage, NewPlayerPage, NewProductPage,
         NewSeasonPage, NewSponsorPage, NewsPage, OrdersPage, PhotoPage, PlayerPage,
         PlayersPage, ProductPage, ProfilePage, ScoreMatchPage, ScoringPage, SeasonPage,
         SeasonsPage, SettingsPage, ShopPage, SitePage, SponsorPage, SponsorsPage,
         StoryTables, TeamPage, TeamsPage, UserPage, UsersPage, StoryTables
<1>2. QED
  BY <1>1 DEF Answers

LEMMA RowsListed ==
    ASSUME NEW key \in Listed, NEW row \in Rows(key)
    PROVE  key \in AnswersOf(row)
BY DEF Rows, Listed, AnswersOf, FixtureRows, ScorerRows, LiveRows, RequestRows, AppearanceRows,
       RosterRows, EligibleRows, ReportRows

LEMMA HandlersListed ==
    /\ Handlers["saveRoster"] = SaveRoster
    /\ Handlers["bulkSquadStatus"] = BulkSquadStatus
    /\ Handlers["addTeamToSeason"] = AddTeamToSeasonRoster
    /\ Handlers["saveTeam"] = SaveTeam
    /\ Handlers["archiveTeam"] = ArchiveTeam
    /\ Handlers["bulkArchive"] = BulkArchive
    /\ Handlers["createTeam"] = CreateTeam
    /\ Handlers["savePlayer"] = SavePlayer
    /\ Handlers["createPlayer"] = CreatePlayer
    /\ Handlers["bulkSetStatus"] = BulkSetStatus
    /\ Handlers["saveMatch"] = SaveMatch
    /\ Handlers["saveScorers"] = SaveScorerAssignments
    /\ Handlers["saveResult"] = SaveResult
    /\ Handlers["createMatch"] = CreateMatch
    /\ Handlers["bulkPublish"] = BulkPublish
    /\ Handlers["bulkCancel"] = BulkCancel
    /\ Handlers["markInactive"] = MarkNonRosterInactive
    /\ Handlers["createPlayoffs"] = CreatePlayoffFixtures
    /\ Handlers["publishDrafts"] = PublishDraftFixtures
    /\ Handlers["saveSeason"] = SaveSeason
    /\ Handlers["saveLeague"] = SaveLeague
    /\ Handlers["createLeague"] = CreateLeague
    /\ Handlers["createSeason"] = CreateSeason
    /\ Handlers["saveSponsor"] = SaveSponsor
    /\ Handlers["removeSponsor"] = RemoveSponsor
    /\ Handlers["createSponsor"] = CreateSponsor
    /\ Handlers["savePhoto"] = SavePhoto
    /\ Handlers["removePhoto"] = RemovePhoto
    /\ Handlers["createPhoto"] = CreatePhoto
    /\ Handlers["saveArticle"] = SaveArticle
    /\ Handlers["removeArticle"] = RemoveArticle
    /\ Handlers["createArticle"] = CreateArticle
    /\ Handlers["userStatus"] = SetUserStatus
    /\ Handlers["createUser"] = CreateUser
    /\ Handlers["saveProduct"] = SaveProduct
    /\ Handlers["removeProduct"] = RemoveProduct
    /\ Handlers["createProduct"] = CreateProduct
    /\ Handlers["updateOrder"] = UpdateOrder
    /\ Handlers["readMessage"] = MarkRead
    /\ Handlers["unreadMessage"] = MarkUnread
    /\ Handlers["decideCase"] = DecideCase
    /\ Handlers["createCase"] = CreateCase
    /\ Handlers["processFans"] = ProcessNotifications
    /\ Handlers["saveSettings"] = SaveSettings
    /\ Handlers["saveAbout"] = SaveAbout
    /\ Handlers["saveSitePage"] = SaveSitePage
    /\ Handlers["saveProfile"] = SaveProfile
    /\ Handlers["requestEdit"] = RequestEdit
    /\ Handlers["reportIncident"] = ReportIncident
    /\ Handlers["decideRequest"] = DecideRequest
    /\ Handlers["uploadPhoto"] = UploadMatchPhoto
    /\ Handlers["saveSetup"] = SaveSetup
    /\ Handlers["saveConditions"] = SaveConditions
    /\ Handlers["saveSquad"] = SaveSquad
    /\ Handlers["startScoring"] = StartScoring
    /\ Handlers["complete"] = CompleteMatch
    /\ Handlers["resetTest"] = ResetTest
    /\ Handlers["askEdit"] = RequestEditAccess
BY DEF Handlers

\* A call of the handler names the answer.
Named(handler, key) == \E i \in DOMAIN handler.calls : Names(handler.calls[i], key)

\* The handler names every answer that it changes and does not overlook.
Complete(h) ==
    \A key \in Listed : Affects(h, key) /\ ~Overlooked(h, key) => Named(Handlers[h], key)

LEMMA NamesFacts ==
    /\ \A k : Names(Put(k), k) /\ Names(Exact(k), k) /\ \A to : Names(Leave(to, k), k)
    /\ \A a : Names(All(<<a>>), <<a>>)
    /\ \A a, b : Names(All(<<a>>), <<a, b>>) /\ Names(All(<<a, b>>), <<a, b>>)
    /\ \A a, b, c : /\ Names(All(<<a>>), <<a, b, c>>) /\ Names(All(<<a, b>>), <<a, b, c>>)
                    /\ Names(All(<<a, b, c>>), <<a, b, c>>)
BY DEF Names, Put, Exact, Leave, All, IsPrefix

\* The handlers of the pages of teams.
TeamHandlers ==
    {"saveRoster", "bulkSquadStatus", "addTeamToSeason", "saveTeam", "archiveTeam",
    "bulkArchive", "createTeam"}

LEMMA TeamHandlersComplete == \A h \in TeamHandlers : Complete(h)
<1>1. Complete("saveRoster")
  <2>1. ASSUME NEW key \in Listed, Affects("saveRoster", key), ~Overlooked("saveRoster", key)
        PROVE  key \in
                   {<<"players">>, <<"player-search">>, <<"players", "team">>,
                   <<"players", "scoring">>, <<"players", "one">>, <<"roster", "one">>}
    BY <2>1, RowsListed, HandlersListed
       DEF From, SaveRoster, RosterSaved, Affects, AnswersOf, Overlooked,
           NamedByNobody, StoryTables, Fixtures, Careers
  <2> DEFINE calls == SaveRoster.calls
  <2>2. /\ DOMAIN calls = 1 .. 3
        /\ calls[1] = All(<<"roster", "one">>)
        /\ calls[2] = All(<<"players">>)
        /\ calls[3] = All(<<"player-search">>)
    BY DEF From, SaveRoster
  <2>3. /\ Names(calls[2], <<"players">>)
        /\ Names(calls[3], <<"player-search">>)
        /\ Names(calls[2], <<"players", "team">>)
        /\ Names(calls[2], <<"players", "scoring">>)
        /\ Names(calls[2], <<"players", "one">>)
        /\ Names(calls[1], <<"roster", "one">>)
    BY <2>2, NamesFacts
  <2>4. QED
    BY <2>1, <2>2, <2>3, HandlersListed DEF Complete, Named
<1>2. Complete("bulkSquadStatus")
  BY NamesFacts, HandlersListed, RowsListed
     DEF Complete, Affects, AnswersOf, Overlooked, NamedByNobody, StoryTables, Fixtures, Careers,
         Named, Creates, From, BulkSquadStatus
<1>3. Complete("addTeamToSeason")
  BY NamesFacts, HandlersListed, RowsListed
     DEF Complete, Affects, AnswersOf, Overlooked, NamedByNobody, StoryTables, Fixtures, Careers,
         Named, Creates, From, AddTeamToSeasonRoster
<1>4. Complete("saveTeam")
  BY NamesFacts, HandlersListed, RowsListed
     DEF Complete, Affects, AnswersOf, Overlooked, NamedByNobody, StoryTables, Fixtures, Careers,
         Named, Creates, From, SaveTeam
<1>5. Complete("archiveTeam")
  BY NamesFacts, HandlersListed, RowsListed
     DEF Complete, Affects, AnswersOf, Overlooked, NamedByNobody, StoryTables, Fixtures, Careers,
         Named, Creates, From, ArchiveTeam
<1>6. Complete("bulkArchive")
  BY NamesFacts, HandlersListed, RowsListed
     DEF Complete, Affects, AnswersOf, Overlooked, NamedByNobody, StoryTables, Fixtures, Careers,
         Named, Creates, From, BulkArchive
<1>7. Complete("createTeam")
  BY NamesFacts, HandlersListed, RowsListed
     DEF Complete, Affects, AnswersOf, Overlooked, NamedByNobody, StoryTables, Fixtures, Careers,
         Named, Creates, From, CreateTeam
<1>8. QED
  BY <1>1, <1>2, <1>3, <1>4, <1>5, <1>6, <1>7 DEF TeamHandlers

\* The handlers of the pages of players.
PlayerHandlers ==
    {"savePlayer", "createPlayer", "bulkSetStatus"}

LEMMA PlayerHandlersComplete == \A h \in PlayerHandlers : Complete(h)
<1>1. Complete("savePlayer")
  BY NamesFacts, HandlersListed, RowsListed
     DEF Complete, Affects, AnswersOf, Overlooked, NamedByNobody, StoryTables, Fixtures, Careers,
         Named, Creates, From, SavePlayer
<1>2. Complete("createPlayer")
  BY NamesFacts, HandlersListed, RowsListed
     DEF Complete, Affects, AnswersOf, Overlooked, NamedByNobody, StoryTables, Fixtures, Careers,
         Named, Creates, From, CreatePlayer
<1>3. Complete("bulkSetStatus")
  BY NamesFacts, HandlersListed, RowsListed
     DEF Complete, Affects, AnswersOf, Overlooked, NamedByNobody, StoryTables, Fixtures, Careers,
         Named, Creates, From, BulkSetStatus
<1>4. QED
  BY <1>1, <1>2, <1>3 DEF PlayerHandlers

\* The handlers of the pages of matches.
MatchHandlers ==
    {"saveMatch", "saveScorers", "saveResult", "createMatch", "bulkPublish", "bulkCancel"}

LEMMA MatchHandlersComplete == \A h \in MatchHandlers : Complete(h)
<1>1. Complete("saveMatch")
  <2>1. ASSUME NEW key \in Listed, Affects("saveMatch", key), ~Overlooked("saveMatch", key)
        PROVE  key \in
                   {<<"players">>, <<"matches">>, <<"players", "team">>,
                   <<"players", "scoring">>, <<"players", "one">>, <<"matches", "team">>,
                   <<"matches", "one">>, <<"players", "one", "appearances">>,
                   <<"matches", "one", "live">>}
    BY <2>1, RowsListed, HandlersListed
       DEF From, SaveMatch, MatchUpdated, Affects, AnswersOf, Overlooked,
           NamedByNobody, StoryTables, Fixtures, Careers
  <2> DEFINE calls == SaveMatch.calls
  <2>2. /\ DOMAIN calls = 1 .. 4
        /\ calls[1] = All(<<"matches">>)
        /\ calls[2] = All(<<"players">>)
        /\ calls[3] = All(<<"matches", "one">>)
        /\ calls[4] = Go({"match"})
    BY DEF From, SaveMatch, CompetitionData
  <2>3. /\ Names(calls[2], <<"players">>)
        /\ Names(calls[1], <<"matches">>)
        /\ Names(calls[2], <<"players", "team">>)
        /\ Names(calls[2], <<"players", "scoring">>)
        /\ Names(calls[2], <<"players", "one">>)
        /\ Names(calls[1], <<"matches", "team">>)
        /\ Names(calls[1], <<"matches", "one">>)
        /\ Names(calls[2], <<"players", "one", "appearances">>)
        /\ Names(calls[1], <<"matches", "one", "live">>)
    BY <2>2, NamesFacts
  <2>4. QED
    BY <2>1, <2>2, <2>3, HandlersListed DEF Complete, Named
<1>2. Complete("saveScorers")
  <2>1. ASSUME NEW key \in Listed, Affects("saveScorers", key), ~Overlooked("saveScorers", key)
        PROVE  key \in
                   {<<"matches", "one", "scorers">>}
    BY <2>1, RowsListed, HandlersListed
       DEF From, SaveScorerAssignments, Affects, AnswersOf, Overlooked,
           NamedByNobody, StoryTables, Fixtures, Careers
  <2> DEFINE calls == SaveScorerAssignments.calls
  <2>2. /\ DOMAIN calls = 1 .. 1
        /\ calls[1] = All(<<"matches", "one", "scorers">>)
    BY DEF From, SaveScorerAssignments
  <2>3. /\ Names(calls[1], <<"matches", "one", "scorers">>)
    BY <2>2, NamesFacts
  <2>4. QED
    BY <2>1, <2>2, <2>3, HandlersListed DEF Complete, Named
<1>3. Complete("saveResult")
  <2>1. ASSUME NEW key \in Listed, Affects("saveResult", key), ~Overlooked("saveResult", key)
        PROVE  key \in
                   {<<"players">>, <<"matches">>, <<"players", "team">>,
                   <<"players", "scoring">>, <<"players", "one">>, <<"matches", "team">>,
                   <<"matches", "one">>, <<"players", "one", "appearances">>,
                   <<"matches", "one", "live">>}
    BY <2>1, RowsListed, HandlersListed
       DEF From, SaveResult, ResultSet, Affects, AnswersOf, Overlooked,
           NamedByNobody, StoryTables, Fixtures, Careers
  <2> DEFINE calls == SaveResult.calls
  <2>2. /\ DOMAIN calls = 1 .. 3
        /\ calls[1] = All(<<"matches">>)
        /\ calls[2] = All(<<"players">>)
        /\ calls[3] = All(<<"matches", "one">>)
    BY DEF From, SaveResult, CompetitionData
  <2>3. /\ Names(calls[2], <<"players">>)
        /\ Names(calls[1], <<"matches">>)
        /\ Names(calls[2], <<"players", "team">>)
        /\ Names(calls[2], <<"players", "scoring">>)
        /\ Names(calls[2], <<"players", "one">>)
        /\ Names(calls[1], <<"matches", "team">>)
        /\ Names(calls[1], <<"matches", "one">>)
        /\ Names(calls[2], <<"players", "one", "appearances">>)
        /\ Names(calls[1], <<"matches", "one", "live">>)
    BY <2>2, NamesFacts
  <2>4. QED
    BY <2>1, <2>2, <2>3, HandlersListed DEF Complete, Named
<1>4. Complete("createMatch")
  BY NamesFacts, HandlersListed, RowsListed
     DEF Complete, Affects, AnswersOf, Overlooked, NamedByNobody, StoryTables, Fixtures, Careers,
         Named, Creates, From, CreateMatch
<1>5. Complete("bulkPublish")
  <2>1. ASSUME NEW key \in Listed, Affects("bulkPublish", key), ~Overlooked("bulkPublish", key)
        PROVE  key \in
                   {<<"players">>, <<"matches">>, <<"players", "team">>,
                   <<"players", "scoring">>, <<"players", "one">>, <<"matches", "team">>,
                   <<"matches", "one">>, <<"players", "one", "appearances">>,
                   <<"matches", "one", "live">>}
    BY <2>1, RowsListed, HandlersListed
       DEF From, BulkPublish, MatchUpdated, Affects, AnswersOf, Overlooked,
           NamedByNobody, StoryTables, Fixtures, Careers
  <2> DEFINE calls == BulkPublish.calls
  <2>2. /\ DOMAIN calls = 1 .. 3
        /\ calls[1] = All(<<"matches">>)
        /\ calls[2] = All(<<"matches">>)
        /\ calls[3] = All(<<"players">>)
    BY DEF From, BulkPublish, CompetitionData
  <2>3. /\ Names(calls[3], <<"players">>)
        /\ Names(calls[1], <<"matches">>)
        /\ Names(calls[3], <<"players", "team">>)
        /\ Names(calls[3], <<"players", "scoring">>)
        /\ Names(calls[3], <<"players", "one">>)
        /\ Names(calls[1], <<"matches", "team">>)
        /\ Names(calls[1], <<"matches", "one">>)
        /\ Names(calls[3], <<"players", "one", "appearances">>)
        /\ Names(calls[1], <<"matches", "one", "live">>)
    BY <2>2, NamesFacts
  <2>4. QED
    BY <2>1, <2>2, <2>3, HandlersListed DEF Complete, Named
<1>6. Complete("bulkCancel")
  <2>1. ASSUME NEW key \in Listed, Affects("bulkCancel", key), ~Overlooked("bulkCancel", key)
        PROVE  key \in
                   {<<"matches">>, <<"players", "scoring">>, <<"matches", "team">>,
                   <<"matches", "one">>, <<"players", "one", "appearances">>,
                   <<"matches", "one", "squads">>, <<"matches", "one", "scorers">>,
                   <<"matches", "one", "live">>}
    BY <2>1, RowsListed, HandlersListed
       DEF From, BulkCancel, MatchesDeleted, Affects, AnswersOf, Overlooked,
           NamedByNobody, StoryTables, Fixtures, Careers
  <2> DEFINE calls == BulkCancel.calls
  <2>2. /\ DOMAIN calls = 1 .. 3
        /\ calls[1] = All(<<"matches">>)
        /\ calls[2] = All(<<"matches">>)
        /\ calls[3] = All(<<"players">>)
    BY DEF From, BulkCancel, CompetitionData
  <2>3. /\ Names(calls[1], <<"matches">>)
        /\ Names(calls[3], <<"players", "scoring">>)
        /\ Names(calls[1], <<"matches", "team">>)
        /\ Names(calls[1], <<"matches", "one">>)
        /\ Names(calls[3], <<"players", "one", "appearances">>)
        /\ Names(calls[1], <<"matches", "one", "squads">>)
        /\ Names(calls[1], <<"matches", "one", "scorers">>)
        /\ Names(calls[1], <<"matches", "one", "live">>)
    BY <2>2, NamesFacts
  <2>4. QED
    BY <2>1, <2>2, <2>3, HandlersListed DEF Complete, Named
<1>7. QED
  BY <1>1, <1>2, <1>3, <1>4, <1>5, <1>6 DEF MatchHandlers

\* The handlers of the pages of leagues and seasons.
LeagueHandlers ==
    {"markInactive", "createPlayoffs", "publishDrafts", "saveSeason", "saveLeague",
    "createLeague", "createSeason"}

LEMMA LeagueHandlersComplete == \A h \in LeagueHandlers : Complete(h)
<1>1. Complete("markInactive")
  BY NamesFacts, HandlersListed, RowsListed
     DEF Complete, Affects, AnswersOf, Overlooked, NamedByNobody, StoryTables, Fixtures, Careers,
         Named, Creates, From, MarkNonRosterInactive
<1>2. Complete("createPlayoffs")
  <2>1. ASSUME NEW key \in Listed, Affects("createPlayoffs", key), ~Overlooked("createPlayoffs", key)
        PROVE  key \in
                   {<<"matches">>, <<"matches", "team">>, <<"matches", "one">>,
                   <<"players", "one", "appearances">>, <<"matches", "one", "live">>}
    BY <2>1, RowsListed, HandlersListed
       DEF From, CreatePlayoffFixtures, Affects, AnswersOf, Overlooked,
           NamedByNobody, StoryTables, Fixtures, Careers
  <2> DEFINE calls == CreatePlayoffFixtures.calls
  <2>2. /\ DOMAIN calls = 1 .. 2
        /\ calls[1] = All(<<"matches">>)
        /\ calls[2] = All(<<"players">>)
    BY DEF From, CreatePlayoffFixtures, CompetitionData
  <2>3. /\ Names(calls[1], <<"matches">>)
        /\ Names(calls[1], <<"matches", "team">>)
        /\ Names(calls[1], <<"matches", "one">>)
        /\ Names(calls[2], <<"players", "one", "appearances">>)
        /\ Names(calls[1], <<"matches", "one", "live">>)
    BY <2>2, NamesFacts
  <2>4. QED
    BY <2>1, <2>2, <2>3, HandlersListed DEF Complete, Named
<1>3. Complete("publishDrafts")
  <2>1. ASSUME NEW key \in Listed, Affects("publishDrafts", key), ~Overlooked("publishDrafts", key)
        PROVE  key \in
                   {<<"matches">>, <<"matches", "team">>, <<"matches", "one">>,
                   <<"players", "one", "appearances">>, <<"matches", "one", "live">>}
    BY <2>1, RowsListed, HandlersListed
       DEF From, PublishDraftFixtures, Affects, AnswersOf, Overlooked,
           NamedByNobody, StoryTables, Fixtures, Careers
  <2> DEFINE calls == PublishDraftFixtures.calls
  <2>2. /\ DOMAIN calls = 1 .. 2
        /\ calls[1] = All(<<"matches">>)
        /\ calls[2] = All(<<"players">>)
    BY DEF From, PublishDraftFixtures, CompetitionData
  <2>3. /\ Names(calls[1], <<"matches">>)
        /\ Names(calls[1], <<"matches", "team">>)
        /\ Names(calls[1], <<"matches", "one">>)
        /\ Names(calls[2], <<"players", "one", "appearances">>)
        /\ Names(calls[1], <<"matches", "one", "live">>)
    BY <2>2, NamesFacts
  <2>4. QED
    BY <2>1, <2>2, <2>3, HandlersListed DEF Complete, Named
<1>4. Complete("saveSeason")
  BY NamesFacts, HandlersListed, RowsListed
     DEF Complete, Affects, AnswersOf, Overlooked, NamedByNobody, StoryTables, Fixtures, Careers,
         Named, Creates, From, SaveSeason
<1>5. Complete("saveLeague")
  BY NamesFacts, HandlersListed, RowsListed
     DEF Complete, Affects, AnswersOf, Overlooked, NamedByNobody, StoryTables, Fixtures, Careers,
         Named, Creates, From, SaveLeague
<1>6. Complete("createLeague")
  BY NamesFacts, HandlersListed, RowsListed
     DEF Complete, Affects, AnswersOf, Overlooked, NamedByNobody, StoryTables, Fixtures, Careers,
         Named, Creates, From, CreateLeague
<1>7. Complete("createSeason")
  BY NamesFacts, HandlersListed, RowsListed
     DEF Complete, Affects, AnswersOf, Overlooked, NamedByNobody, StoryTables, Fixtures, Careers,
         Named, Creates, From, CreateSeason
<1>8. QED
  BY <1>1, <1>2, <1>3, <1>4, <1>5, <1>6, <1>7 DEF LeagueHandlers

\* The handlers of the pages of sponsors, gallery and news.
StoryHandlers ==
    {"saveSponsor", "removeSponsor", "createSponsor", "savePhoto", "removePhoto",
    "createPhoto", "saveArticle", "removeArticle", "createArticle"}

LEMMA StoryHandlersComplete == \A h \in StoryHandlers : Complete(h)
<1>1. Complete("saveSponsor")
  <2>1. ASSUME NEW key \in Listed, Affects("saveSponsor", key), ~Overlooked("saveSponsor", key)
        PROVE  key \in
                   {<<"sponsors">>, <<"sponsor", "one">>}
    BY <2>1, RowsListed, HandlersListed
       DEF From, SaveSponsor, Affects, AnswersOf, Overlooked,
           NamedByNobody, StoryTables, Fixtures, Careers
  <2> DEFINE calls == SaveSponsor.calls
  <2>2. /\ DOMAIN calls = 1 .. 3
        /\ calls[1] = All(<<"sponsors">>)
        /\ calls[2] = All(<<"sponsor", "one">>)
        /\ calls[3] = Go({"sponsor"})
    BY DEF From, SaveSponsor
  <2>3. /\ Names(calls[1], <<"sponsors">>)
        /\ Names(calls[2], <<"sponsor", "one">>)
    BY <2>2, NamesFacts
  <2>4. QED
    BY <2>1, <2>2, <2>3, HandlersListed DEF Complete, Named
<1>2. Complete("removeSponsor")
  BY NamesFacts, HandlersListed, RowsListed
     DEF Complete, Affects, AnswersOf, Overlooked, NamedByNobody, StoryTables, Fixtures, Careers,
         Named, Creates, From, RemoveSponsor
<1>3. Complete("createSponsor")
  <2>1. ASSUME NEW key \in Listed, Affects("createSponsor", key), ~Overlooked("createSponsor", key)
        PROVE  key \in
                   {<<"sponsors">>}
    BY <2>1, RowsListed, HandlersListed
       DEF From, CreateSponsor, Affects, AnswersOf, Overlooked,
           NamedByNobody, StoryTables, Fixtures, Careers, Creates
  <2> DEFINE calls == CreateSponsor.calls
  <2>2. /\ DOMAIN calls = 1 .. 2
        /\ calls[1] = All(<<"sponsors">>)
        /\ calls[2] = Go({"sponsor"})
    BY DEF From, CreateSponsor
  <2>3. /\ Names(calls[1], <<"sponsors">>)
    BY <2>2, NamesFacts
  <2>4. QED
    BY <2>1, <2>2, <2>3, HandlersListed DEF Complete, Named
<1>4. Complete("savePhoto")
  BY NamesFacts, HandlersListed, RowsListed
     DEF Complete, Affects, AnswersOf, Overlooked, NamedByNobody, StoryTables, Fixtures, Careers,
         Named, Creates, From, SavePhoto
<1>5. Complete("removePhoto")
  BY NamesFacts, HandlersListed, RowsListed
     DEF Complete, Affects, AnswersOf, Overlooked, NamedByNobody, StoryTables, Fixtures, Careers,
         Named, Creates, From, RemovePhoto
<1>6. Complete("createPhoto")
  BY NamesFacts, HandlersListed, RowsListed
     DEF Complete, Affects, AnswersOf, Overlooked, NamedByNobody, StoryTables, Fixtures, Careers,
         Named, Creates, From, CreatePhoto
<1>7. Complete("saveArticle")
  BY NamesFacts, HandlersListed, RowsListed
     DEF Complete, Affects, AnswersOf, Overlooked, NamedByNobody, StoryTables, Fixtures, Careers,
         Named, Creates, From, SaveArticle
<1>8. Complete("removeArticle")
  BY NamesFacts, HandlersListed, RowsListed
     DEF Complete, Affects, AnswersOf, Overlooked, NamedByNobody, StoryTables, Fixtures, Careers,
         Named, Creates, From, RemoveArticle
<1>9. Complete("createArticle")
  BY NamesFacts, HandlersListed, RowsListed
     DEF Complete, Affects, AnswersOf, Overlooked, NamedByNobody, StoryTables, Fixtures, Careers,
         Named, Creates, From, CreateArticle
<1>10. QED
  BY <1>1, <1>2, <1>3, <1>4, <1>5, <1>6, <1>7, <1>8, <1>9 DEF StoryHandlers

\* The handlers of the pages of users, messages, discipline, fans, settings and site pages.
OfficeHandlers ==
    {"userStatus", "createUser", "readMessage", "unreadMessage", "decideCase",
    "createCase", "processFans", "saveSettings", "saveAbout", "saveSitePage",
    "saveProfile"}

LEMMA OfficeHandlersComplete == \A h \in OfficeHandlers : Complete(h)
<1>1. Complete("userStatus")
  BY NamesFacts, HandlersListed, RowsListed
     DEF Complete, Affects, AnswersOf, Overlooked, NamedByNobody, StoryTables, Fixtures, Careers,
         Named, Creates, From, SetUserStatus, UserUpdated
<1>2. Complete("createUser")
  BY NamesFacts, HandlersListed, RowsListed
     DEF Complete, Affects, AnswersOf, Overlooked, NamedByNobody, StoryTables, Fixtures, Careers,
         Named, Creates, From, CreateUser
<1>3. Complete("readMessage")
  <2>1. ASSUME NEW key \in Listed, Affects("readMessage", key), ~Overlooked("readMessage", key)
        PROVE  key \in
                   {<<"messages">>, <<"message", "one">>}
    BY <2>1, RowsListed, HandlersListed
       DEF From, MarkRead, Affects, AnswersOf, Overlooked,
           NamedByNobody, StoryTables, Fixtures, Careers
  <2> DEFINE calls == MarkRead.calls
  <2>2. /\ DOMAIN calls = 1 .. 2
        /\ calls[1] = All(<<"messages">>)
        /\ calls[2] = All(<<"message", "one">>)
    BY DEF From, MarkRead
  <2>3. /\ Names(calls[1], <<"messages">>)
        /\ Names(calls[2], <<"message", "one">>)
    BY <2>2, NamesFacts
  <2>4. QED
    BY <2>1, <2>2, <2>3, HandlersListed DEF Complete, Named
<1>4. Complete("unreadMessage")
  <2>1. ASSUME NEW key \in Listed, Affects("unreadMessage", key), ~Overlooked("unreadMessage", key)
        PROVE  key \in
                   {<<"messages">>, <<"message", "one">>}
    BY <2>1, RowsListed, HandlersListed
       DEF From, MarkUnread, Affects, AnswersOf, Overlooked,
           NamedByNobody, StoryTables, Fixtures, Careers
  <2> DEFINE calls == MarkUnread.calls
  <2>2. /\ DOMAIN calls = 1 .. 2
        /\ calls[1] = All(<<"messages">>)
        /\ calls[2] = All(<<"message", "one">>)
    BY DEF From, MarkUnread
  <2>3. /\ Names(calls[1], <<"messages">>)
        /\ Names(calls[2], <<"message", "one">>)
    BY <2>2, NamesFacts
  <2>4. QED
    BY <2>1, <2>2, <2>3, HandlersListed DEF Complete, Named
<1>5. Complete("decideCase")
  BY NamesFacts, HandlersListed, RowsListed
     DEF Complete, Affects, AnswersOf, Overlooked, NamedByNobody, StoryTables, Fixtures, Careers,
         Named, Creates, From, DecideCase, CaseDecided
<1>6. Complete("createCase")
  BY NamesFacts, HandlersListed, RowsListed
     DEF Complete, Affects, AnswersOf, Overlooked, NamedByNobody, StoryTables, Fixtures, Careers,
         Named, Creates, From, CreateCase
<1>7. Complete("processFans")
  BY NamesFacts, HandlersListed, RowsListed
     DEF Complete, Affects, AnswersOf, Overlooked, NamedByNobody, StoryTables, Fixtures, Careers,
         Named, Creates, From, ProcessNotifications
<1>8. Complete("saveSettings")
  BY NamesFacts, HandlersListed, RowsListed
     DEF Complete, Affects, AnswersOf, Overlooked, NamedByNobody, StoryTables, Fixtures, Careers,
         Named, Creates, From, SaveSettings
<1>9. Complete("saveAbout")
  BY NamesFacts, HandlersListed, RowsListed
     DEF Complete, Affects, AnswersOf, Overlooked, NamedByNobody, StoryTables, Fixtures, Careers,
         Named, Creates, From, SaveAbout
<1>10. Complete("saveSitePage")
  BY NamesFacts, HandlersListed, RowsListed
     DEF Complete, Affects, AnswersOf, Overlooked, NamedByNobody, StoryTables, Fixtures, Careers,
         Named, Creates, From, SaveSitePage
<1>11. Complete("saveProfile")
  BY NamesFacts, HandlersListed, RowsListed
     DEF Complete, Affects, AnswersOf, Overlooked, NamedByNobody, StoryTables, Fixtures, Careers,
         Named, Creates, From, SaveProfile
<1>12. QED
  BY <1>1, <1>2, <1>3, <1>4, <1>5, <1>6, <1>7, <1>8, <1>9, <1>10, <1>11 DEF OfficeHandlers

\* The handlers of the pages of the shop.
ShopHandlers ==
    {"saveProduct", "removeProduct", "createProduct", "updateOrder"}

LEMMA ShopHandlersComplete == \A h \in ShopHandlers : Complete(h)
<1>1. Complete("saveProduct")
  BY NamesFacts, HandlersListed, RowsListed
     DEF Complete, Affects, AnswersOf, Overlooked, NamedByNobody, StoryTables, Fixtures, Careers,
         Named, Creates, From, SaveProduct
<1>2. Complete("removeProduct")
  BY NamesFacts, HandlersListed, RowsListed
     DEF Complete, Affects, AnswersOf, Overlooked, NamedByNobody, StoryTables, Fixtures, Careers,
         Named, Creates, From, RemoveProduct
<1>3. Complete("createProduct")
  BY NamesFacts, HandlersListed, RowsListed
     DEF Complete, Affects, AnswersOf, Overlooked, NamedByNobody, StoryTables, Fixtures, Careers,
         Named, Creates, From, CreateProduct
<1>4. Complete("updateOrder")
  BY NamesFacts, HandlersListed, RowsListed
     DEF Complete, Affects, AnswersOf, Overlooked, NamedByNobody, StoryTables, Fixtures, Careers,
         Named, Creates, From, UpdateOrder, OrderUpdated
<1>5. QED
  BY <1>1, <1>2, <1>3, <1>4 DEF ShopHandlers

\* The handlers of the pages of scoring.
ScoringHandlers ==
    {"requestEdit", "reportIncident", "decideRequest", "uploadPhoto", "saveSetup",
    "saveConditions", "saveSquad", "startScoring", "complete", "resetTest", "askEdit"}

LEMMA ScoringHandlersComplete == \A h \in ScoringHandlers : Complete(h)
<1>1. Complete("requestEdit")
  <2>1. ASSUME NEW key \in Listed, Affects("requestEdit", key), ~Overlooked("requestEdit", key)
        PROVE  key \in
                   {<<"scorer", "matches">>, <<"scorer", "matches", "one">>}
    BY <2>1, RowsListed, HandlersListed
       DEF From, RequestEdit, Affects, AnswersOf, Overlooked,
           NamedByNobody, StoryTables, Fixtures, Careers
  <2> DEFINE calls == RequestEdit.calls
  <2>2. /\ DOMAIN calls = 1 .. 1
        /\ calls[1] = All(<<"scorer", "matches">>)
    BY DEF From, RequestEdit
  <2>3. /\ Names(calls[1], <<"scorer", "matches">>)
        /\ Names(calls[1], <<"scorer", "matches", "one">>)
    BY <2>2, NamesFacts
  <2>4. QED
    BY <2>1, <2>2, <2>3, HandlersListed DEF Complete, Named
<1>2. Complete("reportIncident")
  BY NamesFacts, HandlersListed, RowsListed
     DEF Complete, Affects, AnswersOf, Overlooked, NamedByNobody, StoryTables, Fixtures, Careers,
         Named, Creates, From, ReportIncident
<1>3. Complete("decideRequest")
  <2>1. ASSUME NEW key \in Listed, Affects("decideRequest", key), ~Overlooked("decideRequest", key)
        PROVE  key \in
                   {<<"scorer", "matches">>, <<"edit-requests", "pending">>,
                   <<"scorer", "matches", "one">>}
    BY <2>1, RowsListed, HandlersListed
       DEF From, DecideRequest, Affects, AnswersOf, Overlooked,
           NamedByNobody, StoryTables, Fixtures, Careers
  <2> DEFINE calls == DecideRequest.calls
  <2>2. /\ DOMAIN calls = 1 .. 2
        /\ calls[1] = All(<<"edit-requests">>)
        /\ calls[2] = All(<<"scorer", "matches">>)
    BY DEF From, DecideRequest
  <2>3. /\ Names(calls[2], <<"scorer", "matches">>)
        /\ Names(calls[1], <<"edit-requests", "pending">>)
        /\ Names(calls[2], <<"scorer", "matches", "one">>)
    BY <2>2, NamesFacts
  <2>4. QED
    BY <2>1, <2>2, <2>3, HandlersListed DEF Complete, Named
<1>4. Complete("uploadPhoto")
  <2>1. ASSUME NEW key \in Listed, Affects("uploadPhoto", key), ~Overlooked("uploadPhoto", key)
        PROVE  key \in
                   {<<"photos", "one">>}
    BY <2>1, RowsListed, HandlersListed
       DEF From, UploadMatchPhoto, Affects, AnswersOf, Overlooked,
           NamedByNobody, StoryTables, Fixtures, Careers
  <2> DEFINE calls == UploadMatchPhoto.calls
  <2>2. /\ DOMAIN calls = 1 .. 1
        /\ calls[1] = All(<<"photos", "one">>)
    BY DEF From, UploadMatchPhoto
  <2>3. /\ Names(calls[1], <<"photos", "one">>)
    BY <2>2, NamesFacts
  <2>4. QED
    BY <2>1, <2>2, <2>3, HandlersListed DEF Complete, Named
<1>5. Complete("saveSetup")
  <2>1. ASSUME NEW key \in Listed, Affects("saveSetup", key), ~Overlooked("saveSetup", key)
        PROVE  key \in
                   {<<"scorer", "matches">>, <<"matches", "one", "live">>,
                   <<"scorer", "matches", "one">>}
    BY <2>1, RowsListed, HandlersListed
       DEF From, SaveSetup, ScorecardChanged, Reconciled, Affects, AnswersOf, Overlooked,
           NamedByNobody, StoryTables, Fixtures, Careers
  <2> DEFINE calls == SaveSetup.calls
  <2>2. /\ DOMAIN calls = 1 .. 2
        /\ calls[1] = All(<<"matches", "one", "live">>)
        /\ calls[2] = All(<<"scorer", "matches">>)
    BY DEF From, SaveSetup
  <2>3. /\ Names(calls[2], <<"scorer", "matches">>)
        /\ Names(calls[1], <<"matches", "one", "live">>)
        /\ Names(calls[2], <<"scorer", "matches", "one">>)
    BY <2>2, NamesFacts
  <2>4. QED
    BY <2>1, <2>2, <2>3, HandlersListed DEF Complete, Named
<1>6. Complete("saveConditions")
  <2>1. ASSUME NEW key \in Listed, Affects("saveConditions", key), ~Overlooked("saveConditions", key)
        PROVE  key \in
                   {<<"scorer", "matches">>, <<"matches", "one", "live">>,
                   <<"scorer", "matches", "one">>}
    BY <2>1, RowsListed, HandlersListed
       DEF From, SaveConditions, ScorecardChanged, Reconciled, Affects, AnswersOf, Overlooked,
           NamedByNobody, StoryTables, Fixtures, Careers
  <2> DEFINE calls == SaveConditions.calls
  <2>2. /\ DOMAIN calls = 1 .. 2
        /\ calls[1] = Put(<<"matches", "one", "live">>)
        /\ calls[2] = All(<<"scorer", "matches">>)
    BY DEF From, SaveConditions
  <2>3. /\ Names(calls[2], <<"scorer", "matches">>)
        /\ Names(calls[1], <<"matches", "one", "live">>)
        /\ Names(calls[2], <<"scorer", "matches", "one">>)
    BY <2>2, NamesFacts
  <2>4. QED
    BY <2>1, <2>2, <2>3, HandlersListed DEF Complete, Named
<1>7. Complete("saveSquad")
  <2>1. ASSUME NEW key \in Listed, Affects("saveSquad", key), ~Overlooked("saveSquad", key)
        PROVE  key \in
                   {<<"players", "scoring">>, <<"matches", "one", "squads">>,
                   <<"matches", "one", "live">>}
    BY <2>1, RowsListed, HandlersListed
       DEF From, SaveSquad, SquadSaved, Reconciled, Affects, AnswersOf, Overlooked,
           NamedByNobody, StoryTables, Fixtures, Careers
  <2> DEFINE calls == SaveSquad.calls
  <2>2. /\ DOMAIN calls = 1 .. 3
        /\ calls[1] = All(<<"players", "scoring">>)
        /\ calls[2] = All(<<"matches", "one", "squads">>)
        /\ calls[3] = All(<<"matches", "one", "live">>)
    BY DEF From, SaveSquad
  <2>3. /\ Names(calls[1], <<"players", "scoring">>)
        /\ Names(calls[2], <<"matches", "one", "squads">>)
        /\ Names(calls[3], <<"matches", "one", "live">>)
    BY <2>2, NamesFacts
  <2>4. QED
    BY <2>1, <2>2, <2>3, HandlersListed DEF Complete, Named
<1>8. Complete("startScoring")
  <2>1. ASSUME NEW key \in Listed, Affects("startScoring", key), ~Overlooked("startScoring", key)
        PROVE  key \in
                   {<<"scorer", "matches">>, <<"matches", "one", "live">>,
                   <<"scorer", "matches", "one">>}
    BY <2>1, RowsListed, HandlersListed
       DEF From, StartScoring, ScorecardChanged, Reconciled, Affects, AnswersOf, Overlooked,
           NamedByNobody, StoryTables, Fixtures, Careers
  <2> DEFINE calls == StartScoring.calls
  <2>2. /\ DOMAIN calls = 1 .. 2
        /\ calls[1] = All(<<"matches", "one", "live">>)
        /\ calls[2] = All(<<"scorer", "matches">>)
    BY DEF From, StartScoring
  <2>3. /\ Names(calls[2], <<"scorer", "matches">>)
        /\ Names(calls[1], <<"matches", "one", "live">>)
        /\ Names(calls[2], <<"scorer", "matches", "one">>)
    BY <2>2, NamesFacts
  <2>4. QED
    BY <2>1, <2>2, <2>3, HandlersListed DEF Complete, Named
<1>9. Complete("complete")
  <2>1. ASSUME NEW key \in Listed, Affects("complete", key), ~Overlooked("complete", key)
        PROVE  key \in
                   {<<"scorer", "matches">>, <<"matches", "one", "live">>,
                   <<"scorer", "matches", "one">>}
    BY <2>1, RowsListed, HandlersListed
       DEF From, CompleteMatch, ScorecardChanged, Reconciled, Affects, AnswersOf, Overlooked,
           NamedByNobody, StoryTables, Fixtures, Careers
  <2> DEFINE calls == CompleteMatch.calls
  <2>2. /\ DOMAIN calls = 1 .. 2
        /\ calls[1] = All(<<"matches", "one", "live">>)
        /\ calls[2] = All(<<"scorer", "matches">>)
    BY DEF From, CompleteMatch
  <2>3. /\ Names(calls[2], <<"scorer", "matches">>)
        /\ Names(calls[1], <<"matches", "one", "live">>)
        /\ Names(calls[2], <<"scorer", "matches", "one">>)
    BY <2>2, NamesFacts
  <2>4. QED
    BY <2>1, <2>2, <2>3, HandlersListed DEF Complete, Named
<1>10. Complete("resetTest")
  <2>1. ASSUME NEW key \in Listed, Affects("resetTest", key), ~Overlooked("resetTest", key)
        PROVE  key \in
                   {<<"scorer", "matches">>, <<"matches", "one", "squads">>,
                   <<"matches", "one", "live">>, <<"scorer", "matches", "one">>}
    BY <2>1, RowsListed, HandlersListed
       DEF From, ResetTest, MatchReset, ScorecardChanged, Reconciled, Affects, AnswersOf, Overlooked,
           NamedByNobody, StoryTables, Fixtures, Careers
  <2> DEFINE calls == ResetTest.calls
  <2>2. /\ DOMAIN calls = 1 .. 3
        /\ calls[1] = All(<<"matches", "one", "live">>)
        /\ calls[2] = All(<<"matches", "one", "squads">>)
        /\ calls[3] = All(<<"scorer", "matches">>)
    BY DEF From, ResetTest
  <2>3. /\ Names(calls[3], <<"scorer", "matches">>)
        /\ Names(calls[2], <<"matches", "one", "squads">>)
        /\ Names(calls[1], <<"matches", "one", "live">>)
        /\ Names(calls[3], <<"scorer", "matches", "one">>)
    BY <2>2, NamesFacts
  <2>4. QED
    BY <2>1, <2>2, <2>3, HandlersListed DEF Complete, Named
<1>11. Complete("askEdit")
  <2>1. ASSUME NEW key \in Listed, Affects("askEdit", key), ~Overlooked("askEdit", key)
        PROVE  key \in
                   {<<"scorer", "matches">>, <<"matches", "one", "live">>,
                   <<"scorer", "matches", "one">>}
    BY <2>1, RowsListed, HandlersListed
       DEF From, RequestEditAccess, Affects, AnswersOf, Overlooked,
           NamedByNobody, StoryTables, Fixtures, Careers
  <2> DEFINE calls == RequestEditAccess.calls
  <2>2. /\ DOMAIN calls = 1 .. 2
        /\ calls[1] = All(<<"matches", "one", "live">>)
        /\ calls[2] = All(<<"scorer", "matches">>)
    BY DEF From, RequestEditAccess
  <2>3. /\ Names(calls[2], <<"scorer", "matches">>)
        /\ Names(calls[1], <<"matches", "one", "live">>)
        /\ Names(calls[2], <<"scorer", "matches", "one">>)
    BY <2>2, NamesFacts
  <2>4. QED
    BY <2>1, <2>2, <2>3, HandlersListed DEF Complete, Named
<1>12. QED
  BY <1>1, <1>2, <1>3, <1>4, <1>5, <1>6, <1>7, <1>8, <1>9, <1>10, <1>11 DEF ScoringHandlers

LEMMA HandlersComplete == \A h \in DOMAIN Handlers : Complete(h)
<1>1. DOMAIN Handlers = TeamHandlers
                         \cup PlayerHandlers
                         \cup MatchHandlers
                         \cup LeagueHandlers
                         \cup StoryHandlers
                         \cup OfficeHandlers
                         \cup ShopHandlers
                         \cup ScoringHandlers
  BY DEF Handlers, TeamHandlers, PlayerHandlers, MatchHandlers, LeagueHandlers, StoryHandlers, OfficeHandlers, ShopHandlers, ScoringHandlers
<1>2. QED
  BY <1>1, TeamHandlersComplete, PlayerHandlersComplete, MatchHandlersComplete, LeagueHandlersComplete, StoryHandlersComplete, OfficeHandlersComplete, ShopHandlersComplete, ScoringHandlersComplete

-----------------------------------------------------------------------------
(* The form of the table *)

\* A page that is opened exists; the one that is opened when an answer leaves
\* the cache does not show that answer.
IsCall(c) ==
    /\ c.do \in {"all", "exact", "put", "go", "leave"}
    /\ c.to \subseteq DOMAIN Reads
    /\ c.do = "leave" => \A p \in c.to : c.key \notin Reads[p]

\* A handler gives an answer only to a key that it changes.
Formed(h, handler) ==
    /\ handler.page \in DOMAIN Reads
    /\ Len(handler.calls) \in Nat
    /\ DOMAIN handler.calls = 1 .. Len(handler.calls)
    /\ \A i \in DOMAIN handler.calls :
          /\ IsCall(handler.calls[i])
          /\ handler.calls[i].do = "put" =>
                h \notin Creates /\ handler.writes \cap Rows(handler.calls[i].key) # {}

LEMMA CallsAreCalls ==
    /\ \A k : IsCall(All(k)) /\ All(k).do # "put"
    /\ \A k : IsCall(Exact(k)) /\ Exact(k).do # "put"
    /\ \A k : IsCall(Put(k)) /\ Put(k).key = k
    /\ \A to \in SUBSET DOMAIN Reads : IsCall(Go(to)) /\ Go(to).do # "put"
    /\ IsCall(Leave("news", <<"news", "one">>)) /\ Leave("news", <<"news", "one">>).do # "put"
<1>1. \A k : IsCall(All(k)) /\ IsCall(Exact(k)) /\ IsCall(Put(k))
  BY DEF All, Exact, Put, IsCall, Nowhere
<1>2. \A to \in SUBSET DOMAIN Reads : IsCall(Go(to))
  BY DEF Go, IsCall
<1>3. "news" \in DOMAIN Reads /\ <<"news", "one">> \notin Reads["news"]
  BY DEF Reads, NewsPage
<1>4. IsCall(Leave("news", <<"news", "one">>))
  BY <1>3 DEF Leave, IsCall
<1>5. QED
  BY <1>1, <1>2, <1>4 DEF All, Exact, Put, Go, Leave

LEMMA RowsOfPut ==
    /\ Rows(<<"settings">>) = {"settings"} /\ Rows(<<"about">>) = {"about"}
    /\ Rows(<<"me">>) = {"profile"} /\ Rows(<<"site-page", "one">>) = {"site-pages"}
    /\ Rows(<<"matches", "one", "live">>) = LiveRows
BY DEF Rows

LEMMA PagesListed ==
    {"team", "teams", "newTeam", "player", "players", "newPlayer", "match", "matches", "newMatch",
     "season", "newSeason", "league", "newLeague", "sponsor", "sponsors", "newSponsor", "photo",
     "gallery", "newPhoto", "article", "news", "newArticle", "users", "user", "newUser", "shop",
     "product", "newProduct", "orders", "message", "discipline", "fans", "settings", "about",
     "sitePage", "profile", "scoring", "scoreMatch"} \subseteq DOMAIN Reads
BY DEF Reads

LEMMA TeamHandlersFormed == \A h \in TeamHandlers : Formed(h, Handlers[h])
<1>1. Formed("saveRoster", SaveRoster)
  BY CallsAreCalls, PagesListed DEF Formed, From, SaveRoster
<1>2. Formed("bulkSquadStatus", BulkSquadStatus)
  BY CallsAreCalls, PagesListed DEF Formed, From, BulkSquadStatus
<1>3. Formed("addTeamToSeason", AddTeamToSeasonRoster)
  BY CallsAreCalls, PagesListed DEF Formed, From, AddTeamToSeasonRoster
<1>4. Formed("saveTeam", SaveTeam)
  BY CallsAreCalls, PagesListed DEF Formed, From, SaveTeam
<1>5. Formed("archiveTeam", ArchiveTeam)
  BY CallsAreCalls, PagesListed DEF Formed, From, ArchiveTeam
<1>6. Formed("bulkArchive", BulkArchive)
  BY CallsAreCalls, PagesListed DEF Formed, From, BulkArchive
<1>7. Formed("createTeam", CreateTeam)
  BY CallsAreCalls, PagesListed DEF Formed, From, CreateTeam
<1>8. QED
  BY <1>1, <1>2, <1>3, <1>4, <1>5, <1>6, <1>7, HandlersListed DEF TeamHandlers

LEMMA PlayerHandlersFormed == \A h \in PlayerHandlers : Formed(h, Handlers[h])
<1>1. Formed("savePlayer", SavePlayer)
  BY CallsAreCalls, PagesListed DEF Formed, From, SavePlayer
<1>2. Formed("createPlayer", CreatePlayer)
  BY CallsAreCalls, PagesListed DEF Formed, From, CreatePlayer
<1>3. Formed("bulkSetStatus", BulkSetStatus)
  BY CallsAreCalls, PagesListed DEF Formed, From, BulkSetStatus
<1>4. QED
  BY <1>1, <1>2, <1>3, HandlersListed DEF PlayerHandlers

LEMMA MatchHandlersFormed == \A h \in MatchHandlers : Formed(h, Handlers[h])
<1>1. Formed("saveMatch", SaveMatch)
  BY CallsAreCalls, PagesListed DEF Formed, From, SaveMatch, CompetitionData
<1>2. Formed("saveScorers", SaveScorerAssignments)
  BY CallsAreCalls, PagesListed DEF Formed, From, SaveScorerAssignments
<1>3. Formed("saveResult", SaveResult)
  BY CallsAreCalls, PagesListed DEF Formed, From, SaveResult, CompetitionData
<1>4. Formed("createMatch", CreateMatch)
  BY CallsAreCalls, PagesListed DEF Formed, From, CreateMatch
<1>5. Formed("bulkPublish", BulkPublish)
  BY CallsAreCalls, PagesListed DEF Formed, From, BulkPublish, CompetitionData
<1>6. Formed("bulkCancel", BulkCancel)
  BY CallsAreCalls, PagesListed DEF Formed, From, BulkCancel, CompetitionData
<1>7. QED
  BY <1>1, <1>2, <1>3, <1>4, <1>5, <1>6, HandlersListed DEF MatchHandlers

LEMMA LeagueHandlersFormed == \A h \in LeagueHandlers : Formed(h, Handlers[h])
<1>1. Formed("markInactive", MarkNonRosterInactive)
  BY CallsAreCalls, PagesListed DEF Formed, From, MarkNonRosterInactive
<1>2. Formed("createPlayoffs", CreatePlayoffFixtures)
  BY CallsAreCalls, PagesListed DEF Formed, From, CreatePlayoffFixtures, CompetitionData
<1>3. Formed("publishDrafts", PublishDraftFixtures)
  BY CallsAreCalls, PagesListed DEF Formed, From, PublishDraftFixtures, CompetitionData
<1>4. Formed("saveSeason", SaveSeason)
  BY CallsAreCalls, PagesListed DEF Formed, From, SaveSeason
<1>5. Formed("saveLeague", SaveLeague)
  BY CallsAreCalls, PagesListed DEF Formed, From, SaveLeague
<1>6. Formed("createLeague", CreateLeague)
  BY CallsAreCalls, PagesListed DEF Formed, From, CreateLeague
<1>7. Formed("createSeason", CreateSeason)
  BY CallsAreCalls, PagesListed DEF Formed, From, CreateSeason
<1>8. QED
  BY <1>1, <1>2, <1>3, <1>4, <1>5, <1>6, <1>7, HandlersListed DEF LeagueHandlers

LEMMA StoryHandlersFormed == \A h \in StoryHandlers : Formed(h, Handlers[h])
<1>1. Formed("saveSponsor", SaveSponsor)
  BY CallsAreCalls, PagesListed DEF Formed, From, SaveSponsor
<1>2. Formed("removeSponsor", RemoveSponsor)
  BY CallsAreCalls, PagesListed DEF Formed, From, RemoveSponsor
<1>3. Formed("createSponsor", CreateSponsor)
  BY CallsAreCalls, PagesListed DEF Formed, From, CreateSponsor
<1>4. Formed("savePhoto", SavePhoto)
  BY CallsAreCalls, PagesListed DEF Formed, From, SavePhoto
<1>5. Formed("removePhoto", RemovePhoto)
  BY CallsAreCalls, PagesListed DEF Formed, From, RemovePhoto
<1>6. Formed("createPhoto", CreatePhoto)
  BY CallsAreCalls, PagesListed DEF Formed, From, CreatePhoto
<1>7. Formed("saveArticle", SaveArticle)
  BY CallsAreCalls, PagesListed DEF Formed, From, SaveArticle
<1>8. Formed("removeArticle", RemoveArticle)
  BY CallsAreCalls, PagesListed DEF Formed, From, RemoveArticle
<1>9. Formed("createArticle", CreateArticle)
  BY CallsAreCalls, PagesListed DEF Formed, From, CreateArticle
<1>10. QED
  BY <1>1, <1>2, <1>3, <1>4, <1>5, <1>6, <1>7, <1>8, <1>9, HandlersListed DEF StoryHandlers

LEMMA OfficeHandlersFormed == \A h \in OfficeHandlers : Formed(h, Handlers[h])
<1>1. Formed("userStatus", SetUserStatus)
  BY CallsAreCalls, PagesListed DEF Formed, From, SetUserStatus
<1>2. Formed("createUser", CreateUser)
  BY CallsAreCalls, PagesListed DEF Formed, From, CreateUser
<1>3. Formed("readMessage", MarkRead)
  BY CallsAreCalls, PagesListed DEF Formed, From, MarkRead
<1>4. Formed("unreadMessage", MarkUnread)
  BY CallsAreCalls, PagesListed DEF Formed, From, MarkUnread
<1>5. Formed("decideCase", DecideCase)
  BY CallsAreCalls, PagesListed DEF Formed, From, DecideCase
<1>6. Formed("createCase", CreateCase)
  BY CallsAreCalls, PagesListed DEF Formed, From, CreateCase
<1>7. Formed("processFans", ProcessNotifications)
  BY CallsAreCalls, PagesListed DEF Formed, From, ProcessNotifications
<1>8. Formed("saveSettings", SaveSettings)
  BY CallsAreCalls, PagesListed, RowsOfPut DEF Formed, From, SaveSettings, Creates
<1>9. Formed("saveAbout", SaveAbout)
  BY CallsAreCalls, PagesListed, RowsOfPut DEF Formed, From, SaveAbout, Creates
<1>10. Formed("saveSitePage", SaveSitePage)
  BY CallsAreCalls, PagesListed, RowsOfPut DEF Formed, From, SaveSitePage, Creates
<1>11. Formed("saveProfile", SaveProfile)
  BY CallsAreCalls, PagesListed, RowsOfPut DEF Formed, From, SaveProfile, Creates
<1>12. QED
  BY <1>1, <1>2, <1>3, <1>4, <1>5, <1>6, <1>7, <1>8, <1>9, <1>10, <1>11, HandlersListed DEF OfficeHandlers

LEMMA ShopHandlersFormed == \A h \in ShopHandlers : Formed(h, Handlers[h])
<1>1. Formed("saveProduct", SaveProduct)
  BY CallsAreCalls, PagesListed DEF Formed, From, SaveProduct
<1>2. Formed("removeProduct", RemoveProduct)
  BY CallsAreCalls, PagesListed DEF Formed, From, RemoveProduct
<1>3. Formed("createProduct", CreateProduct)
  BY CallsAreCalls, PagesListed DEF Formed, From, CreateProduct
<1>4. Formed("updateOrder", UpdateOrder)
  BY CallsAreCalls, PagesListed DEF Formed, From, UpdateOrder
<1>5. QED
  BY <1>1, <1>2, <1>3, <1>4, HandlersListed DEF ShopHandlers

LEMMA ScoringHandlersFormed == \A h \in ScoringHandlers : Formed(h, Handlers[h])
<1>1. Formed("requestEdit", RequestEdit)
  BY CallsAreCalls, PagesListed DEF Formed, From, RequestEdit
<1>2. Formed("reportIncident", ReportIncident)
  BY CallsAreCalls, PagesListed DEF Formed, From, ReportIncident
<1>3. Formed("decideRequest", DecideRequest)
  BY CallsAreCalls, PagesListed DEF Formed, From, DecideRequest
<1>4. Formed("uploadPhoto", UploadMatchPhoto)
  BY CallsAreCalls, PagesListed DEF Formed, From, UploadMatchPhoto
<1>5. Formed("saveSetup", SaveSetup)
  BY CallsAreCalls, PagesListed DEF Formed, From, SaveSetup
<1>6. Formed("saveConditions", SaveConditions)
  BY CallsAreCalls, PagesListed, RowsOfPut
     DEF Formed, From, SaveConditions, Creates, LiveRows, ScorecardChanged
<1>7. Formed("saveSquad", SaveSquad)
  BY CallsAreCalls, PagesListed DEF Formed, From, SaveSquad
<1>8. Formed("startScoring", StartScoring)
  BY CallsAreCalls, PagesListed DEF Formed, From, StartScoring
<1>9. Formed("complete", CompleteMatch)
  BY CallsAreCalls, PagesListed DEF Formed, From, CompleteMatch
<1>10. Formed("resetTest", ResetTest)
  BY CallsAreCalls, PagesListed DEF Formed, From, ResetTest
<1>11. Formed("askEdit", RequestEditAccess)
  BY CallsAreCalls, PagesListed DEF Formed, From, RequestEditAccess
<1>12. QED
  BY <1>1, <1>2, <1>3, <1>4, <1>5, <1>6, <1>7, <1>8, <1>9, <1>10, <1>11, HandlersListed DEF ScoringHandlers

LEMMA HandlersFormed == \A h \in DOMAIN Handlers : Formed(h, Handlers[h])
<1>1. DOMAIN Handlers = TeamHandlers
                         \cup PlayerHandlers
                         \cup MatchHandlers
                         \cup LeagueHandlers
                         \cup StoryHandlers
                         \cup OfficeHandlers
                         \cup ShopHandlers
                         \cup ScoringHandlers
  BY DEF Handlers, TeamHandlers, PlayerHandlers, MatchHandlers, LeagueHandlers, StoryHandlers, OfficeHandlers, ShopHandlers, ScoringHandlers
<1>2. QED
  BY <1>1, TeamHandlersFormed, PlayerHandlersFormed, MatchHandlersFormed, LeagueHandlersFormed, StoryHandlersFormed, OfficeHandlersFormed, ShopHandlersFormed, ScoringHandlersFormed

-----------------------------------------------------------------------------
(* The calls of a handler that matter *)

\* A handler's step: an answer that leaves the cache is not on the next page.
StepOf(k) ==
    {s \in [do : {"invalidate", "put", "go", "leave"}, to : SUBSET DOMAIN Reads] :
        s.do = "leave" => \A p \in s.to : k \notin Reads[p]}

\* A step that replaces or drops the watched answer is still to come.
Covers(todo) == \E i \in 1 .. Len(todo) : todo[i].do # "go"

\* A step that replaces it with the answer to the write is still to come.
Puts(todo) == \E i \in 1 .. Len(todo) : todo[i].do = "put"

LEMMA AppendFacts ==
    ASSUME NEW S, NEW s \in Seq(S), NEW e \in S
    PROVE  /\ Append(s, e) \in Seq(S)
           /\ Len(s) \in Nat
           /\ Len(Append(s, e)) = Len(s) + 1
           /\ Append(s, e)[Len(s) + 1] = e
           /\ \A i \in 1 .. Len(s) : Append(s, e)[i] = s[i]
OBVIOUS

LEMMA EffectFacts ==
    ASSUME NEW c, IsCall(c)
    PROVE  /\ Effect(c) \in StepOf(watched)
           /\ Names(c, watched) => Matters(c) /\ Effect(c).do # "go"
           /\ Matters(c) /\ Effect(c).do = "put" => c.do = "put" /\ c.key = watched
<1>1. c.do = "leave" /\ Names(c, watched) => c.key = watched
  BY DEF Names
<1>2. /\ c.do = "go" => ~Names(c, watched)
      /\ c.do = "put" /\ Matters(c) => c.key = watched
  BY DEF Names, Matters
<1>3. CASE c.do \in {"all", "exact"}
  <2>1. Effect(c) = [do |-> "invalidate", to |-> c.to]
    BY <1>3 DEF Effect
  <2>2. QED
    BY <2>1 DEF StepOf, IsCall, Matters
<1>4. CASE c.do = "leave" /\ ~Names(c, watched)
  <2>1. Effect(c) = [do |-> "go", to |-> c.to]
    BY <1>4 DEF Effect
  <2>2. QED
    BY <1>4, <2>1 DEF StepOf, IsCall
<1>5. CASE c.do = "leave" /\ Names(c, watched)
  <2>1. Effect(c) = [do |-> "leave", to |-> c.to]
    BY <1>5 DEF Effect
  <2>2. QED
    BY <1>1, <1>5, <2>1 DEF StepOf, IsCall, Matters
<1>6. CASE c.do \in {"put", "go"}
  <2>1. Effect(c) = [do |-> c.do, to |-> c.to]
    BY <1>6 DEF Effect
  <2>2. QED
    BY <1>2, <1>6, <2>1 DEF StepOf, IsCall, Matters
<1>7. QED
  BY <1>3, <1>4, <1>5, <1>6 DEF IsCall

\* The steps of a handler are steps, and a handler that names the watched
\* answer covers it.
LEMMA CallsOfFacts ==
    ASSUME NEW h \in DOMAIN Handlers
    PROVE  /\ CallsOf(h) \in Seq(StepOf(watched))
           /\ Named(Handlers[h], watched) => Covers(CallsOf(h))
           /\ Puts(CallsOf(h)) => Affects(h, watched)
<1> DEFINE calls == Handlers[h].calls
           N == Len(calls)
           D == Seq(StepOf(watched))
           Next1(i, s) == IF Matters(calls[i]) THEN Append(s, Effect(calls[i])) ELSE s
           Is(g) == g = [i \in 0 .. N |-> IF i = 0 THEN <<>> ELSE Next1(i, g[i - 1])]
           upTo == CHOOSE g : Is(g)
<1>1. N \in Nat /\ DOMAIN calls = 1 .. N /\ \A i \in 1 .. N : IsCall(calls[i])
  BY HandlersFormed DEF Formed
<1> DEFINE PutBy(i) == \E j \in 1 .. i : calls[j].do = "put" /\ calls[j].key = watched
<1>2. PutBy(N) => Affects(h, watched)
  BY <1>1, HandlersFormed DEF Formed, Affects
<1>3. CallsOf(h) = upTo[N]
  BY DEF CallsOf
<1> HIDE DEF calls, N
<1>4. \A i \in 1 .. N : \A s \in D : Next1(i, s) \in D
  <2>1. SUFFICES ASSUME NEW i \in 1 .. N, NEW s \in D
                 PROVE  Next1(i, s) \in D
    OBVIOUS
  <2>2. Effect(calls[i]) \in StepOf(watched)
    BY <1>1, EffectFacts
  <2>3. Append(s, Effect(calls[i])) \in D
    BY <2>2, AppendFacts
  <2>4. QED
    BY <2>3
<1> HIDE DEF D
<1>5. <<>> \in D
  BY DEF D
<1>6. \E g : Is(g)
  <2> DEFINE step == [p \in (1 .. N) \X D |-> Next1(p[1], p[2])]
  <2>1. step \in [(1 .. N) \X D -> D]
    BY <1>4
  <2>2. \A i \in 1 .. N : \A s \in D : step[<<i, s>>] = Next1(i, s)
    OBVIOUS
  <2> DEFINE none == <<>>
  <2> HIDE DEF step, Next1, none
  <2>3. none \in D
    BY <1>5 DEF none
  <2>4. PICK f \in Recursive(N, D, none, step) : TRUE
    BY <1>1, <2>1, <2>3, Recursion
  <2>5. /\ f \in [0 .. N -> D]
        /\ f[0] = <<>> /\ \A i \in 1 .. N : f[i] = step[<<i, f[i - 1]>>]
    BY DEF Recursive, none
  <2>6. \A i \in 1 .. N : f[i] = Next1(i, f[i - 1])
    <3>1. \A i \in 1 .. N : i - 1 \in 0 .. N
      BY <1>1
    <3>2. QED
      BY <2>2, <2>5, <3>1
  <2>7. \A i \in 0 .. N : f[i] = IF i = 0 THEN <<>> ELSE Next1(i, f[i - 1])
    BY <1>1, <2>5, <2>6
  <2>8. f = [i \in 0 .. N |-> f[i]]
    BY <2>5
  <2>9. Is(f)
    BY <2>7, <2>8
  <2>10. QED
    BY <2>9
<1>7. Is(upTo)
  <2> HIDE DEF Is
  <2>1. QED
    BY <1>6
<1> HIDE DEF upTo
<1>8. /\ upTo[0] = <<>>
      /\ \A i \in 1 .. N : upTo[i] = Next1(i, upTo[i - 1])
  <2>1. 0 \in 0 .. N /\ \A i \in 1 .. N : i \in 0 .. N /\ i # 0
    BY <1>1
  <2> HIDE DEF Next1
  <2>2. QED
    BY <1>7, <2>1
<1> DEFINE Good(i) == /\ upTo[i] \in D
                      /\ (\E j \in 1 .. i : Names(calls[j], watched)) => Covers(upTo[i])
                      /\ Puts(upTo[i]) => PutBy(i)
           T == {i \in 0 .. N : Good(i)}
<1>9. 0 \in T
  <2>1. 1 .. 0 = {} /\ 0 \in 0 .. N
    BY <1>1
  <2>2. QED
    BY <1>5, <1>8, <2>1 DEF Puts
<1>10. ASSUME NEW i \in 1 .. N, i - 1 \in T
      PROVE  i \in T
  <2> DEFINE s == upTo[i - 1]
             e == Effect(calls[i])
  <2>1. /\ s \in D
        /\ (\E j \in 1 .. (i - 1) : Names(calls[j], watched)) => Covers(s)
        /\ Puts(s) => PutBy(i - 1)
    BY <1>10
  <2>2. /\ e \in StepOf(watched)
        /\ Names(calls[i], watched) => Matters(calls[i]) /\ e.do # "go"
        /\ Matters(calls[i]) /\ e.do = "put" => calls[i].do = "put" /\ calls[i].key = watched
    BY <1>1, EffectFacts
  <2>3. upTo[i] = Next1(i, s)
    BY <1>8
  <2> HIDE DEF s, e
  <2>4. upTo[i] \in D
    BY <1>4, <2>1, <2>3
  <2>5. (\E j \in 1 .. i : Names(calls[j], watched)) =>
            (\E j \in 1 .. (i - 1) : Names(calls[j], watched)) \/ Names(calls[i], watched)
    OBVIOUS
  <2>6. PutBy(i - 1) => PutBy(i)
    OBVIOUS
  <2>7. Matters(calls[i]) /\ e.do = "put" => PutBy(i)
    BY <2>2
  <2> HIDE DEF PutBy
  <2>8. CASE ~Matters(calls[i])
    <3>1. upTo[i] = s
      BY <2>3, <2>8
    <3>2. QED
      BY <1>1, <2>1, <2>2, <2>4, <2>5, <2>8, <2>6, <3>1
  <2>9. CASE Matters(calls[i])
    <3>1. upTo[i] = Append(s, e)
      BY <2>3, <2>9 DEF e
    <3>2. /\ Len(s) \in Nat
          /\ Len(Append(s, e)) = Len(s) + 1
          /\ Append(s, e)[Len(s) + 1] = e
          /\ \A k \in 1 .. Len(s) : Append(s, e)[k] = s[k]
      BY <2>1, <2>2, AppendFacts DEF D
    <3>3. Covers(s) => Covers(Append(s, e))
      BY <3>2 DEF Covers
    <3>4. e.do # "go" => Covers(Append(s, e))
      BY <3>2 DEF Covers
    <3>5. (\E j \in 1 .. i : Names(calls[j], watched)) => Covers(upTo[i])
      BY <2>1, <2>2, <2>5, <3>1, <3>3, <3>4
    <3>6. Puts(upTo[i]) => PutBy(i)
      BY <2>1, <2>2, <2>9, <2>6, <2>7, <3>1, <3>2 DEF Puts
    <3>7. QED
      BY <1>1, <2>4, <3>5, <3>6
  <2>10. QED
    BY <2>8, <2>9
<1>11. N \in T
  <2> HIDE DEF T
  <2>1. \A i \in 0 .. N : i \in T
    BY <1>1, <1>9, <1>10, UpTo
  <2>2. QED
    BY <1>1, <2>1
<1>12. Named(Handlers[h], watched) => \E j \in 1 .. N : Names(calls[j], watched)
  BY <1>1 DEF Named, calls
<1>13. QED
  BY <1>2, <1>3, <1>11, <1>12 DEF D

-----------------------------------------------------------------------------
(* The cache *)

OpType ==
    [phase : {"none", "sent", "committed", "calls"}, at : Nat, todo : Seq(StepOf(watched)),
     owes : BOOLEAN, waits : BOOLEAN]

\* No answer that counts, in the cache or on its way, is older than write t.
NotBefore(e, f, t) ==
    /\ e.have /\ e.valid /\ ~e.raced => e.at >= t
    /\ f.phase = "served" /\ ~f.raced => f.at >= t
Fresh(t) == NotBefore(entry, flight, t)

\* A handler that has changed the watched answer will still come to a call that
\* covers it, or has been there, and what is in the cache since is not older
\* than its write.
CacheInv ==
    /\ TypeOK
    /\ op \in OpType
    /\ StaleIsFetched
    /\ Fresh(own)
    /\ op.owes => Covers(op.todo) \/ (op.phase = "calls" /\ Fresh(op.at))
    /\ Puts(op.todo) => op.phase = "sent" \/ op.at >= own

LEMMA TailSteps ==
    ASSUME NEW S, NEW s \in Seq(S), s # <<>>
    PROVE  /\ Head(s) \in S
           /\ Tail(s) \in Seq(S)
           /\ Head(s) = s[1]
           /\ Len(s) \in Nat
           /\ Len(Tail(s)) = Len(s) - 1
           /\ \A i \in 1 .. (Len(s) - 1) : Tail(s)[i] = s[i + 1]
OBVIOUS

\* What is left to cover after the first step.
LEMMA CoversTail ==
    ASSUME NEW S, NEW s \in Seq(S), s # <<>>, Covers(s), Head(s).do = "go"
    PROVE  Covers(Tail(s))
<1>1. PICK i \in 1 .. Len(s) : s[i].do # "go"
  BY DEF Covers
<1>2. i # 1 /\ Len(s) \in Nat
  BY <1>1, TailSteps
<1>3. i - 1 \in 1 .. Len(Tail(s)) /\ Tail(s)[i - 1] = s[i]
  BY <1>2, TailSteps
<1>4. QED
  BY <1>1, <1>3 DEF Covers

LEMMA PutsTail ==
    ASSUME NEW S, NEW s \in Seq(S), s # <<>>, Puts(Tail(s))
    PROVE  Puts(s)
<1>1. PICK i \in 1 .. Len(Tail(s)) : Tail(s)[i].do = "put"
  BY DEF Puts
<1>2. Len(s) \in Nat /\ i + 1 \in 1 .. Len(s) /\ Tail(s)[i] = s[i + 1]
  BY TailSteps
<1>3. QED
  BY <1>1, <1>2 DEF Puts

LEMMA NothingToCover == ~Covers(<<>>) /\ ~Puts(<<>>)
BY DEF Covers, Puts

LEMMA NearPages == ASSUME watched \in Keys PROVE Near[watched] \subseteq DOMAIN Reads
<1> DEFINE busy == {Handlers[h].page : h \in Touching[watched]}
           calm == {p \in DOMAIN Reads \ busy : watched \in Reads[p]}
<1>1. Near[watched] = busy \cup {"dashboard"} \cup {p \in calm : p = CHOOSE q \in calm : TRUE}
  BY DEF Near
<1>2. Touching[watched] \subseteq DOMAIN Handlers
  BY DEF Touching
<1>3. busy \subseteq DOMAIN Reads
  <2>1. \A h \in DOMAIN Handlers : Handlers[h].page \in DOMAIN Reads
    BY HandlersFormed DEF Formed
  <2>2. QED
    BY <1>2, <2>1
<1>4. "dashboard" \in DOMAIN Reads
  BY DEF Reads
<1>5. calm \subseteq DOMAIN Reads
  OBVIOUS
<1>6. QED
  BY <1>1, <1>3, <1>4, <1>5

LEMMA InitCache == Init => CacheInv
<1> SUFFICES ASSUME Init
             PROVE  CacheInv
  OBVIOUS
<1> USE MaxWritesAssumption DEF Init
<1>1. page \in DOMAIN Reads /\ (watched \in Reads[page] <=> watched \in Dashboard)
  BY DEF Reads
<1>2. TypeOK
  BY <1>1 DEF TypeOK, NoEntry, Ask, NoFlight, Idle
<1>3. op \in OpType
  BY DEF OpType, Idle
<1>4. StaleIsFetched
  BY <1>1 DEF StaleIsFetched, Shown, Ask
<1>5. Fresh(own)
  BY DEF Fresh, NotBefore, NoEntry, Ask, NoFlight
<1>6. QED
  BY <1>2, <1>3, <1>4, <1>5, NothingToCover DEF CacheInv, Idle

LEMMA ServeStep ==
    ASSUME CacheInv, Serve
    PROVE  CacheInv'
<1>1. /\ flight' = [flight EXCEPT !.phase = "served", !.at = server]
      /\ UNCHANGED <<watched, page, entry, server, own, op>>
  BY DEF Serve
<1>2. server \in Nat /\ server \in 0 .. server /\ own \in 0 .. server /\ op.at \in 0 .. server
  BY MaxWritesAssumption DEF CacheInv, TypeOK
<1>3. flight \in [phase : {"none", "asked", "served"}, at : 0 .. server, raced : BOOLEAN]
  BY DEF CacheInv, TypeOK
<1>4. /\ flight'.phase = "served" /\ flight'.at = server
      /\ flight' \in [phase : {"none", "asked", "served"}, at : 0 .. server, raced : BOOLEAN]
  BY <1>1, <1>2, <1>3
<1>5. OpType' = OpType
  BY <1>1 DEF OpType
<1>6. TypeOK'
  BY <1>1, <1>4 DEF CacheInv, TypeOK
<1>7. StaleIsFetched'
  BY <1>4 DEF StaleIsFetched
<1>8. Fresh(own)' /\ (Fresh(op.at) => Fresh(op.at)')
  BY <1>1, <1>2, <1>4 DEF CacheInv, Fresh, NotBefore
<1>9. QED
  BY <1>1, <1>5, <1>6, <1>7, <1>8 DEF CacheInv

\* The steps that leave the handler alone.
LEMMA PageSteps ==
    ASSUME CacheInv,
           \/ \E to \in Near[watched] : Visit(to)
           \/ Serve
           \/ Age
           \/ Focus
           \/ Poll
           \/ Collect
           \/ Others
    PROVE  CacheInv'
<1> USE DEF CacheInv, TypeOK, OpType, StaleIsFetched, Fresh, NotBefore, Shown
<1>1. ASSUME NEW to \in Near[watched], Visit(to)
      PROVE  CacheInv'
  <2>1. to \in DOMAIN Reads
    BY NearPages
  <2>2. QED
    BY <1>1, <2>1 DEF Visit, Mount, Ask, Stale
<1>2. CASE Serve
  BY <1>2, ServeStep
<1>3. CASE Age
  BY <1>3 DEF Age
<1>4. CASE Focus
  BY <1>4 DEF Focus, Ask
<1>5. CASE Poll
  BY <1>5 DEF Poll, Ask
<1>6. CASE Collect
  BY <1>6 DEF Collect, NoEntry
<1>7. CASE Others
  BY <1>7, MaxWritesAssumption DEF Others
<1>8. QED
  BY <1>1, <1>2, <1>3, <1>4, <1>5, <1>6, <1>7

LEMMA ArriveStep ==
    ASSUME CacheInv, Arrive
    PROVE  CacheInv'
<1>1. /\ flight.phase = "served"
      /\ entry' = [have |-> TRUE, at |-> flight.at, aged |-> FALSE, valid |-> TRUE,
                   raced |-> flight.raced]
      /\ flight' = NoFlight
      /\ op' = [op EXCEPT !.waits = FALSE]
      /\ UNCHANGED <<watched, page, server, own>>
  BY DEF Arrive
<1>2. op' \in OpType /\ op'.phase = op.phase /\ op'.at = op.at /\ op'.todo = op.todo
                     /\ op'.owes = op.owes
  BY <1>1 DEF CacheInv, OpType
<1>2a. OpType' = OpType
  BY <1>1 DEF OpType
<1>3. TypeOK'
  BY <1>1, <1>2, MaxWritesAssumption DEF CacheInv, TypeOK, NoFlight
<1>4. StaleIsFetched'
  BY <1>1 DEF StaleIsFetched
<1>5. Fresh(own)' /\ (Fresh(op.at) => Fresh(op.at)')
  BY <1>1, <1>2 DEF CacheInv, Fresh, NotBefore, NoFlight
<1>6. QED
  BY <1>1, <1>2, <1>2a, <1>3, <1>4, <1>5 DEF CacheInv

LEMMA StartStep ==
    ASSUME CacheInv, NEW h \in Touching[watched], Start(h)
    PROVE  CacheInv'
<1> DEFINE owes == Affects(h, watched) /\ ~Overlooked(h, watched)
           phase == IF Affects(h, watched) THEN "sent" ELSE "committed"
<1>1. h \in DOMAIN Handlers /\ watched \in Listed
  BY AnswersListed, KeysAssumption DEF CacheInv, TypeOK, Touching
<1>2. /\ CallsOf(h) \in Seq(StepOf(watched)) /\ (owes => Covers(CallsOf(h)))
      /\ Puts(CallsOf(h)) => phase = "sent"
  BY <1>1, CallsOfFacts, HandlersComplete DEF Complete
<1>3. /\ op' = [Idle EXCEPT !.phase = phase, !.todo = CallsOf(h), !.owes = owes]
      /\ UNCHANGED <<watched, page, entry, flight, server, own>>
  BY DEF Start
<1>4. /\ op'.phase = phase /\ op'.at = 0 /\ op'.todo = CallsOf(h) /\ op'.owes = owes
      /\ op' = [phase |-> phase, at |-> 0, todo |-> CallsOf(h), owes |-> owes, waits |-> FALSE]
  BY <1>3 DEF Idle
<1>5. phase \in {"sent", "committed"} /\ owes \in BOOLEAN
  OBVIOUS
<1> HIDE DEF phase, owes
<1>6. op' \in OpType'
  <2>1. OpType' = OpType
    BY <1>3 DEF OpType
  <2>2. op' \in OpType
    BY <1>2, <1>4, <1>5 DEF OpType
  <2>3. QED
    BY <2>1, <2>2
<1>7. TypeOK'
  BY <1>3, <1>4, <1>5, MaxWritesAssumption DEF CacheInv, TypeOK
<1>8. StaleIsFetched' /\ Fresh(own)'
  BY <1>3 DEF CacheInv, StaleIsFetched, Shown, Fresh
<1>9. QED
  BY <1>2, <1>4, <1>6, <1>7, <1>8 DEF CacheInv

LEMMA CommitStep ==
    ASSUME CacheInv, Commit
    PROVE  CacheInv'
<1>1. /\ op.phase = "sent" /\ server' = server + 1 /\ server < MaxWrites
      /\ op' = [op EXCEPT !.phase = "committed", !.at = server']
      /\ UNCHANGED <<watched, page, entry, flight, own>>
  BY DEF Commit
<1>2. /\ op' \in OpType' /\ op'.phase = "committed" /\ op'.at = server' /\ op'.todo = op.todo
      /\ op'.owes = op.owes
  <2>1. OpType' = OpType /\ op \in OpType
    BY <1>1 DEF CacheInv, OpType
  <2>2. server' \in Nat
    BY <1>1, MaxWritesAssumption DEF CacheInv, TypeOK
  <2>3. QED
    BY <1>1, <2>1, <2>2 DEF OpType
<1>3. TypeOK'
  BY <1>1, <1>2, MaxWritesAssumption DEF CacheInv, TypeOK
<1>4. StaleIsFetched' /\ Fresh(own)'
  BY <1>1 DEF CacheInv, StaleIsFetched, Shown, Fresh
<1>5. op'.at >= own'
  BY <1>1, <1>2, MaxWritesAssumption DEF CacheInv, TypeOK
<1>6. QED
  BY <1>1, <1>2, <1>3, <1>4, <1>5 DEF CacheInv

LEMMA FailStep ==
    ASSUME CacheInv, Fail
    PROVE  CacheInv'
<1>1. op' = Idle /\ UNCHANGED <<watched, page, entry, flight, server, own>>
  BY DEF Fail
<1>2. /\ op' \in OpType' /\ op'.phase = "none" /\ op'.at = 0 /\ op'.owes = FALSE
      /\ op'.todo = <<>>
  BY <1>1 DEF Idle, OpType
<1>3. TypeOK'
  BY <1>1, <1>2, MaxWritesAssumption DEF CacheInv, TypeOK
<1>4. StaleIsFetched' /\ Fresh(own)'
  BY <1>1 DEF CacheInv, StaleIsFetched, Shown, Fresh
<1>5. QED
  BY <1>2, <1>3, <1>4, NothingToCover DEF CacheInv

\* What a step of a handler makes of the handler and of its last finished write,
\* when it is left with o.
LEMMA GoesOnFacts ==
    ASSUME CacheInv, NEW o, o \in OpType, GoesOn(o), UNCHANGED <<watched, server>>,
           o.at = op.at, o.owes = op.owes, o.phase = "calls"
    PROVE  /\ op' \in OpType'
           /\ own' \in 0 .. server'
           /\ op'.phase \in {"none", "calls"} /\ op'.at \in 0 .. server'
           /\ op'.phase = "calls" => op'.todo # <<>>
           /\ op' = o \/ (op'.owes = FALSE /\ op'.todo = <<>>)
           /\ op' = o => own' = own
           /\ own' = own \/ (own' = op.at /\ op.owes /\ o.todo = <<>>)
<1>1. op' = (IF Finished(o) THEN Idle ELSE o) /\ own' = (IF Finished(o) /\ op.owes THEN op.at ELSE own)
  BY DEF GoesOn
<1>2. OpType' = OpType
  BY DEF OpType
<1>3. CASE Finished(o)
  <2>1. /\ Idle \in OpType /\ Idle.phase = "none" /\ Idle.at = 0 /\ Idle.owes = FALSE
        /\ Idle.todo = <<>> /\ Idle # o
    BY DEF Idle, OpType
  <2>2. QED
    BY <1>1, <1>2, <1>3, <2>1, MaxWritesAssumption DEF CacheInv, TypeOK, Finished
<1>4. CASE ~Finished(o)
  BY <1>1, <1>2, <1>4 DEF CacheInv, TypeOK, Finished
<1>5. QED
  BY <1>3, <1>4

LEMMA ReplyStep ==
    ASSUME CacheInv, Reply
    PROVE  CacheInv'
<1> DEFINE o == [op EXCEPT !.phase = "calls"]
<1>1. op.phase = "committed" /\ GoesOn(o) /\ UNCHANGED <<watched, page, entry, flight, server>>
  BY DEF Reply
<1>2. /\ o \in OpType /\ o.at = op.at /\ o.owes = op.owes /\ o.phase = "calls"
      /\ o.todo = op.todo
  BY DEF CacheInv, OpType
<1>3. op.owes => Covers(op.todo) /\ op.todo # <<>>
  BY <1>1, NothingToCover DEF CacheInv
<1> HIDE DEF o
<1>4. /\ op' \in OpType'
      /\ op'.phase \in {"none", "calls"} /\ op'.at \in 0 .. server'
      /\ op'.phase = "calls" => op'.todo # <<>>
      /\ op' = o \/ (op'.owes = FALSE /\ op'.todo = <<>>)
      /\ own' = own
  BY <1>1, <1>2, <1>3, GoesOnFacts
<1>5. TypeOK'
  BY <1>1, <1>4 DEF CacheInv, TypeOK
<1>6. StaleIsFetched' /\ Fresh(own)'
  BY <1>1, <1>4 DEF CacheInv, StaleIsFetched, Shown, Fresh
<1>7. op'.owes => Covers(op'.todo)
  BY <1>2, <1>3, <1>4
<1>8. Puts(op'.todo) => op'.at >= own'
  BY <1>1, <1>2, <1>4, NothingToCover DEF CacheInv
<1>9. QED
  BY <1>4, <1>5, <1>6, <1>7, <1>8 DEF CacheInv

\* A call of a handler: the step is one of the kinds, and the rest is left.
LEMMA CallingFacts ==
    ASSUME CacheInv, NEW kinds, Calling(kinds)
    PROVE  /\ Puts(op.todo) => op.at >= own
           /\ op.todo \in Seq(StepOf(watched)) /\ op.todo # <<>>
           /\ Head(op.todo) \in StepOf(watched) /\ Head(op.todo).do \in kinds
           /\ op' \in OpType'
           /\ own' \in 0 .. server'
           /\ op'.phase \in {"none", "calls"} /\ op'.at \in 0 .. server'
           /\ op'.phase = "calls" => op'.todo # <<>>
           /\ op'.owes => /\ op.owes /\ op'.phase = "calls" /\ op'.at = op.at
                          /\ op'.todo = Tail(op.todo)
           /\ own' = own \/ (own' = op.at /\ op.owes /\ Tail(op.todo) = <<>>)
           /\ op.owes /\ Head(op.todo).do = "go" => Covers(Tail(op.todo)) \/ Fresh(op.at)
           /\ Puts(op'.todo) => op'.at >= own'
           /\ UNCHANGED <<watched, server>>
<1> DEFINE waits == Shown /\ kinds = {"invalidate"}
           o == [op EXCEPT !.todo = Tail(@), !.waits = waits]
<1>1. /\ op.phase = "calls" /\ Head(op.todo).do \in kinds
      /\ GoesOn(o) /\ UNCHANGED <<watched, server>>
  BY DEF Calling
<1>2. op.todo \in Seq(StepOf(watched)) /\ op.todo # <<>> /\ op \in OpType
  BY <1>1 DEF CacheInv, TypeOK, OpType
<1>3. /\ Head(op.todo) \in StepOf(watched)
      /\ Tail(op.todo) \in Seq(StepOf(watched))
  BY <1>2, TailSteps
<1>4. waits \in BOOLEAN
  OBVIOUS
<1> HIDE DEF waits
<1>5. /\ o \in OpType /\ o.at = op.at /\ o.owes = op.owes /\ o.phase = "calls"
      /\ o.todo = Tail(op.todo)
  BY <1>1, <1>2, <1>3, <1>4 DEF OpType
<1> HIDE DEF o
<1>6. /\ op' \in OpType'
      /\ own' \in 0 .. server'
      /\ op'.phase \in {"none", "calls"} /\ op'.at \in 0 .. server'
      /\ op'.phase = "calls" => op'.todo # <<>>
      /\ op' = o \/ (op'.owes = FALSE /\ op'.todo = <<>>)
      /\ op' = o => own' = own
      /\ own' = own \/ (own' = op.at /\ op.owes /\ o.todo = <<>>)
  BY <1>1, <1>5, GoesOnFacts
<1>7. op.owes /\ Head(op.todo).do = "go" => Covers(Tail(op.todo)) \/ Fresh(op.at)
  BY <1>2, CoversTail DEF CacheInv
<1>8. op'.owes => /\ op.owes /\ op'.phase = "calls" /\ op'.at = op.at
                  /\ op'.todo = Tail(op.todo)
  BY <1>5, <1>6
<1>9. own' = own \/ (own' = op.at /\ op.owes /\ Tail(op.todo) = <<>>)
  BY <1>5, <1>6
<1>10. Puts(op.todo) => op.at >= own
  BY <1>1 DEF CacheInv
<1>11. Puts(op'.todo) => op'.at >= own'
  <2>1. CASE op' = o
    BY <1>2, <1>5, <1>6, <1>10, <2>1, PutsTail
  <2>2. CASE op'.todo = <<>>
    BY <2>2, NothingToCover
  <2>3. QED
    BY <1>6, <2>1, <2>2
<1>12. QED
  BY <1>1, <1>2, <1>3, <1>6, <1>7, <1>8, <1>9, <1>10, <1>11

\* A call that leaves nothing behind that counts and is older than the writes.
LEMMA CoveringCall ==
    ASSUME CacheInv, NEW kinds, Calling(kinds), StaleIsFetched', page' \in DOMAIN Reads,
           entry' \in [have : BOOLEAN, at : 0 .. server, aged : BOOLEAN, valid : BOOLEAN,
                       raced : BOOLEAN],
           flight' \in [phase : {"none", "asked", "served"}, at : 0 .. server, raced : BOOLEAN],
           NotBefore(entry', flight', op.at), NotBefore(entry', flight', own)
    PROVE  CacheInv'
<1>1. /\ op' \in OpType'
      /\ own' \in 0 .. server'
      /\ op'.phase \in {"none", "calls"} /\ op'.at \in 0 .. server'
      /\ op'.phase = "calls" => op'.todo # <<>>
      /\ op'.owes => op'.phase = "calls" /\ op'.at = op.at
      /\ own' = own \/ own' = op.at
      /\ Puts(op'.todo) => op'.at >= own'
      /\ UNCHANGED <<watched, server>>
  BY CallingFacts
<1>2. TypeOK'
  BY <1>1 DEF CacheInv, TypeOK
<1>3. Fresh(own)' /\ (op'.owes => Fresh(op.at)')
  BY <1>1 DEF Fresh
<1>4. QED
  BY <1>1, <1>2, <1>3 DEF CacheInv

LEMMA RacedFacts ==
    ASSUME CacheInv
    PROVE  /\ Raced(flight) \in [phase : {"none", "asked", "served"}, at : 0 .. server,
                                 raced : BOOLEAN]
           /\ Raced(flight).phase = flight.phase /\ Raced(flight).at = flight.at
           /\ Raced(flight).raced = (flight.raced \/ (flight.phase = "served" /\ flight.at < op.at))
BY DEF CacheInv, TypeOK, Raced

LEMMA InvalidateStep ==
    ASSUME CacheInv, InvalidateQueries
    PROVE  CacheInv'
<1>1. Calling({"invalidate"}) /\ Invalidated /\ UNCHANGED page
  BY DEF InvalidateQueries
<1>2. /\ server \in Nat /\ op.at \in 0 .. server /\ own \in 0 .. server
      /\ flight \in [phase : {"none", "asked", "served"}, at : 0 .. server, raced : BOOLEAN]
      /\ entry \in [have : BOOLEAN, at : 0 .. server, aged : BOOLEAN, valid : BOOLEAN, raced : BOOLEAN]
      /\ page \in DOMAIN Reads
  BY MaxWritesAssumption DEF CacheInv, TypeOK
<1>3. /\ entry' = (IF entry.have THEN Invalid ELSE NoEntry)
      /\ flight' = (IF Shown /\ (entry.have \/ flight.phase = "none") THEN Ask ELSE Raced(flight))
  BY <1>1 DEF Invalidated
<1>4. /\ entry' \in [have : BOOLEAN, at : 0 .. server, aged : BOOLEAN, valid : BOOLEAN,
                     raced : BOOLEAN]
      /\ ~entry'.have \/ ~entry'.valid
  <2>1. 0 \in 0 .. server
    BY <1>2
  <2>2. CASE entry.have
    BY <1>3, <2>1, <2>2 DEF Invalid, NoEntry
  <2>3. CASE ~entry.have
    BY <1>3, <2>1, <2>3 DEF NoEntry
  <2>4. QED
    BY <2>2, <2>3
<1>5. /\ flight' \in [phase : {"none", "asked", "served"}, at : 0 .. server, raced : BOOLEAN]
      /\ flight' = Ask \/ flight' = Raced(flight)
  BY <1>2, <1>3, RacedFacts DEF Ask
<1>6. Shown' => flight'.phase # "none"
  <2>1. watched' = watched /\ page' = page
    BY <1>1, CallingFacts
  <2>2. QED
    BY <1>3, <2>1, RacedFacts DEF Shown, Ask
<1>7. NotBefore(entry', flight', op.at) /\ NotBefore(entry', flight', own)
  <2>1. CASE flight' = Ask
    BY <1>4, <2>1 DEF NotBefore, Ask
  <2>2. CASE flight' = Raced(flight)
    BY <1>2, <1>4, <2>2, RacedFacts DEF CacheInv, Fresh, NotBefore
  <2>3. QED
    BY <1>5, <2>1, <2>2
<1>8. QED
  BY <1>1, <1>2, <1>4, <1>5, <1>6, <1>7, CoveringCall DEF StaleIsFetched

LEMMA SetQueryDataStep ==
    ASSUME CacheInv, SetQueryData
    PROVE  CacheInv'
<1>1. /\ Calling({"put"}) /\ UNCHANGED page
      /\ entry' = [NoEntry EXCEPT !.have = TRUE, !.at = op.at]
      /\ flight' = Raced(flight)
  BY DEF SetQueryData
<1>2. /\ server \in Nat /\ op.at \in 0 .. server /\ own \in 0 .. server
      /\ flight \in [phase : {"none", "asked", "served"}, at : 0 .. server, raced : BOOLEAN]
      /\ page \in DOMAIN Reads
  BY MaxWritesAssumption DEF CacheInv, TypeOK
<1>3. /\ entry' \in [have : BOOLEAN, at : 0 .. server, aged : BOOLEAN, valid : BOOLEAN,
                     raced : BOOLEAN]
      /\ entry'.have /\ entry'.valid /\ entry'.at = op.at
  BY <1>1, <1>2 DEF NoEntry
<1>4. op.at >= own
  <2>1. /\ Head(op.todo).do = "put" /\ op.todo \in Seq(StepOf(watched)) /\ op.todo # <<>>
        /\ Puts(op.todo) => op.at >= own
    BY <1>1, CallingFacts
  <2>2. Head(op.todo) = op.todo[1] /\ 1 \in 1 .. Len(op.todo)
    BY <2>1, TailSteps
  <2>3. QED
    BY <2>1, <2>2 DEF Puts
<1>5. NotBefore(entry', flight', op.at) /\ NotBefore(entry', flight', own)
  BY <1>1, <1>2, <1>3, <1>4, RacedFacts DEF CacheInv, Fresh, NotBefore
<1>6. QED
  BY <1>1, <1>2, <1>3, <1>5, RacedFacts, CoveringCall DEF StaleIsFetched

LEMMA NavigateStep ==
    ASSUME CacheInv, Navigate
    PROVE  CacheInv'
<1>1. /\ Calling({"go", "leave"}) /\ page' \in Head(op.todo).to
      /\ IF Head(op.todo).do = "leave" THEN entry' = NoEntry /\ flight' = NoFlight
         ELSE flight' = Mount(page') /\ UNCHANGED entry
  BY DEF Navigate
<1>2. /\ server \in Nat /\ op.at \in 0 .. server /\ own \in 0 .. server
      /\ flight \in [phase : {"none", "asked", "served"}, at : 0 .. server, raced : BOOLEAN]
      /\ entry \in [have : BOOLEAN, at : 0 .. server, aged : BOOLEAN, valid : BOOLEAN, raced : BOOLEAN]
      /\ page \in DOMAIN Reads
  BY MaxWritesAssumption DEF CacheInv, TypeOK
<1>3. Head(op.todo) \in StepOf(watched) /\ Head(op.todo).do \in {"go", "leave"}
      /\ UNCHANGED <<watched, server>>
  BY <1>1, CallingFacts
<1>4. page' \in DOMAIN Reads
  BY <1>1, <1>3 DEF StepOf
<1>5. CASE Head(op.todo).do = "leave"
  <2>1. entry' = NoEntry /\ flight' = NoFlight /\ ~Shown'
    BY <1>1, <1>3, <1>5 DEF StepOf, Shown
  <2>2. NotBefore(entry', flight', op.at) /\ NotBefore(entry', flight', own)
    BY <2>1 DEF NotBefore, NoEntry, NoFlight
  <2>3. /\ entry' \in [have : BOOLEAN, at : 0 .. server, aged : BOOLEAN, valid : BOOLEAN,
                       raced : BOOLEAN]
        /\ flight' \in [phase : {"none", "asked", "served"}, at : 0 .. server, raced : BOOLEAN]
    BY <1>2, <2>1 DEF NoEntry, NoFlight
  <2>4. QED
    BY <1>1, <1>4, <2>1, <2>2, <2>3, CoveringCall DEF StaleIsFetched
<1>6. CASE Head(op.todo).do = "go"
  <2>1. flight' = Mount(page') /\ entry' = entry
    BY <1>1, <1>6
  <2>2. /\ flight' = Ask \/ flight' = flight
        /\ flight' \in [phase : {"none", "asked", "served"}, at : 0 .. server, raced : BOOLEAN]
    BY <1>2, <2>1 DEF Mount, Ask
  <2>3. StaleIsFetched'
    BY <1>3, <2>1 DEF CacheInv, StaleIsFetched, Shown, Mount, Ask, Stale
  <2>4. \A t : NotBefore(entry, flight, t) => NotBefore(entry', flight', t)
    BY <2>1, <2>2 DEF NotBefore, Ask
  <2>5. /\ op' \in OpType'
        /\ own' \in 0 .. server'
        /\ op'.phase \in {"none", "calls"} /\ op'.at \in 0 .. server'
        /\ op'.phase = "calls" => op'.todo # <<>>
        /\ op'.owes => /\ op.owes /\ op'.phase = "calls" /\ op'.at = op.at
                       /\ op'.todo = Tail(op.todo)
        /\ own' = own \/ (own' = op.at /\ op.owes /\ Tail(op.todo) = <<>>)
        /\ op.owes => Covers(Tail(op.todo)) \/ Fresh(op.at)
        /\ Puts(op'.todo) => op'.at >= own'
    BY <1>1, <1>6, CallingFacts
  <2>6. TypeOK'
    BY <1>2, <1>3, <1>4, <2>1, <2>2, <2>5 DEF CacheInv, TypeOK
  <2>7. Fresh(own)'
    BY <2>4, <2>5, NothingToCover DEF CacheInv, Fresh
  <2>8. op'.owes => Covers(op'.todo) \/ (op'.phase = "calls" /\ Fresh(op.at)')
    BY <2>4, <2>5 DEF Fresh
  <2>9. QED
    BY <2>3, <2>5, <2>6, <2>7, <2>8 DEF CacheInv
<1>7. QED
  BY <1>3, <1>5, <1>6

LEMMA CacheStep ==
    ASSUME CacheInv, [Next]_vars
    PROVE  CacheInv'
<1>1. CASE UNCHANGED vars
  BY <1>1 DEF vars, CacheInv, TypeOK, OpType, StaleIsFetched, Shown, Fresh
<1>2. CASE Next
  BY <1>2, PageSteps, ArriveStep, StartStep, CommitStep, FailStep, ReplyStep, InvalidateStep,
     SetQueryDataStep, NavigateStep
     DEF Next
<1>3. QED
  BY <1>1, <1>2

\* The inductive invariant of the cache.
THEOREM CacheKept == Spec => []CacheInv
<1>1. QED
  BY InitCache, CacheStep, PTL DEF Spec

\* Every reachable state has its type: no answer is of a time the server has
\* not reached, and a handler at its calls has one to make.
THEOREM TypeCorrect == Spec => []TypeOK
<1>1. CacheInv => TypeOK
  BY DEF CacheInv
<1>2. QED
  BY <1>1, CacheKept, PTL

\* Once a handler has finished, no answer that counts is older than its write:
\* a handler names every answer it changes, those it overlooks left out.
THEOREM HandlersShowTheirWrites == Spec => []OwnWritesShown
<1>1. CacheInv => OwnWritesShown
  BY DEF CacheInv, Fresh, NotBefore, OwnWritesShown
<1>2. QED
  BY <1>1, CacheKept, PTL

\* What a page shows as invalid, or not at all, has been asked for.
THEOREM InvalidAnswersAreFetched == Spec => []StaleIsFetched
<1>1. CacheInv => StaleIsFetched
  BY DEF CacheInv
<1>2. QED
  BY <1>1, CacheKept, PTL
=============================================================================
