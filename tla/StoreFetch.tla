---- MODULE StoreFetch ----
(***************************************************************************)
(* The catalog of the plugin store: which repository is configured, the     *)
(* session and its fetch worker of every store window, the one cache file    *)
(* plugins/plugin_db.json all of them share, and the cards they show.        *)
(*                                                                          *)
(* A window's fetches run one at a time; a closed window's fetch runs on,    *)
(* and a new window is a new session with a fetch of its own.                *)
(***************************************************************************)
EXTENDS Naturals

CONSTANTS
    Repos,       \* repository addresses
    Default,     \* DEFAULT_PLUGIN_REPOSITORY
    EmptyRepos,  \* the repositories whose catalog lists nothing
    Windows,     \* the store windows opened one after the other
    Unset,       \* plugin_repo is the empty string
    BlankRepo,   \* plugin_repo holds nothing but spaces
    Nothing,     \* no catalog: an empty list of items
    Torn,        \* the cache is missing, or is not a whole JSON document
    Error,       \* the result of a fetch that failed
    MaxChanges,  \* bound: repository addresses the user accepts
    MaxCrashes   \* bound: times the process dies

ASSUME FetchAssumption ==
    /\ Default \in Repos
    /\ EmptyRepos \subseteq Repos
    /\ Repos \cap {Unset, BlankRepo, Nothing, Torn, Error} = {}
    /\ Unset # BlankRepo
    /\ Nothing # Torn /\ Nothing # Error /\ Torn # Error

VARIABLES
    setting,    \* plugin_repo of the settings
    cache,      \* plugin_db.json: whose catalog it holds
    window,     \* whether each store window was opened and closed
    session,    \* each window's repo, store_service and _catalog_items
    fetch,      \* each window's worker, and the result it has posted
    shown,      \* the catalog whose cards each window shows
    unsettled,  \* a change of the repository has not come through undisturbed
    changes, crashes

fetchVars == <<setting, cache, window, session, fetch, shown, unsettled, changes, crashes>>

\* the catalog of a repository, as parse_plugin_catalog returns it
CatalogOf(r) == IF r \in EmptyRepos THEN Nothing ELSE r

(***************************************************************************)
(* A fetch.  refresh: the cache is not asked.  alone: a change of the       *)
(* repository started it while no other window's fetch was running, and no  *)
(* change has come after it.  mixed: another worker wrote the cache while   *)
(* this one was writing it.                                                 *)
(***************************************************************************)
NoFetch == [stage |-> "none", refresh |-> FALSE, url |-> Nothing, got |-> Nothing,
            alone |-> FALSE, mixed |-> FALSE]
NewSession == [repo |-> Nothing, service |-> Nothing, items |-> Nothing]

FetchAt(w, stage) == fetch[w].stage = stage
FetchInFlight(w) == ~ FetchAt(w, "none")
Busy == {w \in Windows : FetchInFlight(w) /\ ~ FetchAt(w, "posted")}

\* the repository the settings stand for, or none where the address is blank
Configured == CASE setting = Unset -> Default
                [] setting = BlankRepo -> Nothing
                [] OTHER -> setting

FetchInit ==
    /\ setting = Default
    /\ cache = CatalogOf(Default)
    /\ window = [w \in Windows |-> "unopened"]
    /\ session = [w \in Windows |-> NewSession]
    /\ fetch = [w \in Windows |-> NoFetch]
    /\ shown = [w \in Windows |-> Nothing]
    /\ unsettled = FALSE
    /\ changes = 0
    /\ crashes = 0

\* _request_worker, which the caller has found free by start_fetch
Start(w, stage, refresh, alone) ==
    fetch' = [fetch EXCEPT ![w] = [NoFetch EXCEPT !.stage = stage,
                                                  !.refresh = refresh,
                                                  !.alone = alone]]

(***************************************************************************)
(* The UI thread.                                                           *)
(***************************************************************************)
\* open_plugin_store: one window at a time, each with a session of its own
Open(w) ==
    /\ window[w] = "unopened"
    /\ \A v \in Windows : window[v] # "open"
    /\ window' = [window EXCEPT ![w] = "open"]
    /\ Start(w, "configure", FALSE, FALSE)
    /\ UNCHANGED <<setting, cache, session, shown, unsettled, changes, crashes>>

CloseStore(w) ==
    /\ window[w] = "open"
    /\ window' = [window EXCEPT ![w] = "closed"]
    /\ UNCHANGED <<setting, cache, session, fetch, shown, unsettled, changes, crashes>>

\* the refresh button
Refresh(w) ==
    /\ window[w] = "open"
    /\ ~ FetchInFlight(w)
    /\ Start(w, "service", FALSE, FALSE)
    /\ UNCHANGED <<setting, cache, window, session, shown, unsettled, changes, crashes>>

\* Mutant: a change of the repository asks for no forced refresh.
RefreshOfChangeReadsCache(w) ==
    Start(w, "service", FALSE, Busy \subseteq {w})

RefreshOfChange(w) ==
    Start(w, "service", TRUE, Busy \subseteq {w})

\* current_configured_repo
CurrentRepo(w) == IF setting = Unset THEN session[w].repo ELSE setting

\* The window's fetch, if it has one, is no longer that of the last change.
Outdated(w) == fetch' = [fetch EXCEPT ![w].alone = FALSE]

\* modify_repo.accept: the address is persisted whatever it is; set_repo refuses
\* a blank one and may fail to load requests, and a fetch in flight swallows the
\* refresh
Change(w, value) ==
    /\ window[w] = "open"
    /\ changes < MaxChanges
    /\ value # CurrentRepo(w)
    /\ setting' = value
    /\ unsettled' = TRUE
    /\ changes' = changes + 1
    /\ \/ /\ value \in {Unset, BlankRepo}
          /\ Outdated(w)
          /\ UNCHANGED session
       \/ /\ value \in Repos
          /\ session' = [session EXCEPT ![w].repo = value]
          /\ Outdated(w)
       \/ /\ value \in Repos
          /\ session' = [session EXCEPT ![w].repo = value, ![w].service = value]
          /\ IF FetchInFlight(w) THEN Outdated(w) ELSE RefreshOfChange(w)
    /\ UNCHANGED <<cache, window, shown, crashes>>

\* the fetch a change of the repository asked for, with no other worker to
\* disturb it and no change since
CameThrough(w) == fetch[w].alone /\ fetch[w].got # Error

\* Mutant: the result of a closed window's fetch does not give its flag back.
ApplyIfOpen(w) ==
    /\ FetchAt(w, "posted")
    /\ window[w] = "open"
    /\ fetch' = [fetch EXCEPT ![w] = NoFetch]
    /\ shown' = [shown EXCEPT ![w] = IF fetch[w].got = Error THEN Nothing ELSE fetch[w].got]
    /\ unsettled' = (unsettled /\ ~ CameThrough(w))
    /\ UNCHANGED <<setting, cache, window, session, changes, crashes>>

\* apply_result and, for a failure, handle_error: a closed window shows nothing
Apply(w) ==
    /\ FetchAt(w, "posted")
    /\ fetch' = [fetch EXCEPT ![w] = NoFetch]
    /\ IF window[w] = "open"
       THEN /\ shown' = [shown EXCEPT ![w] = IF fetch[w].got = Error THEN Nothing ELSE fetch[w].got]
            /\ unsettled' = (unsettled /\ ~ CameThrough(w))
       ELSE UNCHANGED <<shown, unsettled>>
    /\ UNCHANGED <<setting, cache, window, session, changes, crashes>>

(***************************************************************************)
(* The worker: init_from_settings in a window's first fetch, then fetch.    *)
(***************************************************************************)
FetchGoto(w, stage) == fetch' = [fetch EXCEPT ![w].stage = stage]
Post(w, got) == fetch' = [fetch EXCEPT ![w].stage = "posted", ![w].got = got]

\* the configured address, or the default one, is read
Configure(w) ==
    /\ FetchAt(w, "configure")
    /\ IF Configured = Nothing
       THEN Post(w, Error)
       ELSE fetch' = [fetch EXCEPT ![w].stage = "assign", ![w].url = Configured]
    /\ UNCHANGED <<setting, cache, window, session, shown, unsettled, changes, crashes>>

AssignRepo(w) ==
    /\ FetchAt(w, "assign")
    /\ session' = [session EXCEPT ![w].repo = fetch[w].url]
    /\ FetchGoto(w, "create")
    /\ UNCHANGED <<setting, cache, window, shown, unsettled, changes, crashes>>

\* _create_store_service takes the address and then loads requests, which takes
\* its time the first time and may fail
CreateService(w) ==
    /\ FetchAt(w, "create")
    /\ \/ fetch' = [fetch EXCEPT ![w].stage = "keep", ![w].url = session[w].repo]
       \/ Post(w, Error)
    /\ UNCHANGED <<setting, cache, window, session, shown, unsettled, changes, crashes>>

KeepService(w) ==
    /\ FetchAt(w, "keep")
    /\ session' = [session EXCEPT ![w].service = fetch[w].url]
    /\ FetchGoto(w, "service")
    /\ UNCHANGED <<setting, cache, window, shown, unsettled, changes, crashes>>

\* build_fetch_service, and whether fetch asks the cache
TakeService(w) ==
    /\ FetchAt(w, "service")
    /\ IF session[w].service = Nothing
       THEN Post(w, Error)
       ELSE fetch' = [fetch EXCEPT ![w].stage = IF fetch[w].refresh THEN "remote" ELSE "cache",
                                   ![w].url = session[w].service]
    /\ UNCHANGED <<setting, cache, window, session, shown, unsettled, changes, crashes>>

\* PluginStoreRepositorySession.fetch keeps the items and the result is posted
\* Mutant: the items of a fetch that failed are not kept.
ReturnItemsIfOk(w, got) ==
    /\ Post(w, got)
    /\ session' = [session EXCEPT ![w].items = IF got = Error THEN @ ELSE got]

ReturnItems(w, got) ==
    /\ Post(w, got)
    /\ session' = [session EXCEPT ![w].items = IF got = Error THEN Nothing ELSE got]

\* _read_local_database: JsonEdit reads a torn document as {}, which is no catalog
ReadCache(w) ==
    /\ FetchAt(w, "cache")
    /\ \/ /\ cache = Nothing
          /\ FetchGoto(w, "remote")
          /\ UNCHANGED session
       \/ /\ cache = Torn
          /\ ReturnItems(w, Error)
       \/ /\ cache \in Repos
          /\ ReturnItems(w, cache)
    /\ UNCHANGED <<setting, cache, window, shown, unsettled, changes, crashes>>

\* _fetch_remote: the catalog, or a network or parse error
FetchRemote(w) ==
    /\ FetchAt(w, "remote")
    /\ \/ /\ FetchGoto(w, "truncate")
          /\ UNCHANGED session
       \/ ReturnItems(w, Error)
    /\ UNCHANGED <<setting, cache, window, shown, unsettled, changes, crashes>>

\* JsonEdit.write: the file is truncated, then written; the offset of another
\* writer stays what it was
Mixing(w) ==
    [v \in Windows |-> IF v # w /\ FetchAt(v, "dump") THEN [fetch[v] EXCEPT !.mixed = TRUE]
                                                     ELSE fetch[v]]

Truncate(w) ==
    /\ FetchAt(w, "truncate")
    /\ cache' = Torn
    /\ fetch' = [Mixing(w) EXCEPT ![w].stage = "dump"]
    /\ UNCHANGED <<setting, window, session, shown, unsettled, changes, crashes>>

Dump(w) ==
    /\ FetchAt(w, "dump")
    /\ cache' \in {CatalogOf(fetch[w].url)} \cup (IF fetch[w].mixed THEN {Torn} ELSE {})
    /\ fetch' = [Mixing(w) EXCEPT ![w].stage = "posted", ![w].got = CatalogOf(fetch[w].url)]
    /\ session' = [session EXCEPT ![w].items = CatalogOf(fetch[w].url)]
    /\ UNCHANGED <<setting, window, shown, unsettled, changes, crashes>>

(***************************************************************************)
(* The process dies; the settings and the cache file stay as they are.      *)
(***************************************************************************)
Crash ==
    /\ crashes < MaxCrashes
    /\ crashes' = crashes + 1
    /\ window' = [w \in Windows |-> IF window[w] = "open" THEN "closed" ELSE window[w]]
    /\ fetch' = [w \in Windows |-> NoFetch]
    /\ UNCHANGED <<setting, cache, session, shown, unsettled, changes>>

Worker(w) ==
    \/ Configure(w) \/ AssignRepo(w) \/ CreateService(w) \/ KeepService(w) \/ TakeService(w)
    \/ ReadCache(w) \/ FetchRemote(w) \/ Truncate(w) \/ Dump(w)

FetchNext ==
    \/ \E w \in Windows :
          \/ Open(w) \/ CloseStore(w) \/ Refresh(w) \/ Apply(w) \/ Worker(w)
          \/ \E value \in Repos \cup {Unset, BlankRepo} : Change(w, value)
    \/ Crash

\* a worker runs to its end, and the UI thread calls what was posted to it
Fairness == \A w \in Windows : WF_fetchVars(Worker(w)) /\ WF_fetchVars(Apply(w))

FetchSpec == FetchInit /\ [][FetchNext]_fetchVars /\ Fairness

(***************************************************************************)
(* Properties.                                                              *)
(***************************************************************************)
\* Once a change of the repository has come through undisturbed, what a window
\* shows is the catalog of the repository its downloads come from, the one that
\* is configured: the cache does not say whose catalog it is, so a swallowed
\* refresh, a fetch of a closed window or a late init_from_settings must be the
\* only ways to cards of another repository.
CatalogOfRepository ==
    ~ unsettled => \A w \in Windows :
        window[w] = "open" /\ ~ FetchInFlight(w) /\ shown[w] # Nothing =>
            shown[w] = session[w].repo /\ session[w].repo = Configured

\* The items an install looks its plugin and dependencies up in are those of the
\* cards shown: the worker replaces the former and the UI thread the latter.
ItemsAreShown ==
    \A w \in Windows :
        window[w] = "open" /\ ~ FetchInFlight(w) => session[w].items = shown[w]

\* fetch_inflight is given back: the store can always be refreshed again.
FetchEnds == \A w \in Windows : FetchInFlight(w) ~> ~ FetchInFlight(w)

====
