----------------------------- MODULE PersistenceTests -----------------------------
(***************************************************************************)
(* The tests of persistent data stores                                     *)
(* (sdktests/server_side_persistence_base.go).  The suite is named for the *)
(* database, as its t.Run is: redis, consul or dynamodb.                   *)
(*                                                                         *)
(* Times are in milliseconds.  They pass while a test polls                *)
(* (framework/helpers/assertions.go); a single call takes no time.  The    *)
(* SDK takes in what it was sent by the second attempt of the next poll.   *)
(***************************************************************************)
EXTENDS ContractTests
LOCAL INSTANCE TLC

Flag(version, value) == [version |-> version, value |-> value]
Deleted(version) == Flag(version, "deleted")

Keys == {"flag-key", "uncached-flag-key"}
initialFlags == [k \in Keys |-> Flag(100, "fallthrough")]
makeSDKDataWithFlag(version, value) == "flag-key" :> Flag(version, value)

\* One map of flags for each prefix, and the key that says it is complete.
EmptyStore == [prefix \in {"default", "custom"} |-> [inited |-> FALSE, flags |-> <<>>]]

-------------------------------------------------------------------------------
(* The databases, what WriteMap does to the map of a prefix.               *)

\* Fault: items that are there already are not written again.
RedisWriteMap_NewOnly(map, flags) == [map EXCEPT !.flags = @ @@ flags]

RedisWriteMap(map, flags) == [map EXCEPT !.flags = flags @@ @]

\* The deletions of items that are not written name keys that do not exist.
ConsulWriteMap(map, flags) == [map EXCEPT !.flags = flags @@ @]

\* The other items go, and the map is marked as complete.
DynamoDBWriteMap(map, flags) == [inited |-> TRUE, flags |-> flags]

WriteMapTo(store, prefix, flags) ==
    [store EXCEPT ![prefix] = CASE suite = "redis" -> RedisWriteMap(@, flags)
                                [] suite = "consul" -> ConsulWriteMap(@, flags)
                                [] suite = "dynamodb" -> DynamoDBWriteMap(@, flags)]

-------------------------------------------------------------------------------
(* The cases. *)

PersistenceCase(test, cache, data, script) ==
    [test |-> test, needs |-> {}, unless |-> {}, prefix |-> "default", cache |-> cache,
     data |-> data, script |-> script]

WriteMap(prefix) == <<[do |-> "write", prefix |-> prefix]>>
Reset == <<[do |-> "reset"]>>
CreateClient == <<[do |-> "client"]>>
NotInitialized == <<[do |-> "not inited"]>>
EvaluatesToDefault(error) == <<[do |-> "evaluate", error |-> error]>>
PushUpdate(flag) == <<[do |-> "push", flag |-> flag]>>

\* RequireEventually and RequireNever of a condition.
Eventually(timeout, check) ==
    <<[do |-> "poll", never |-> FALSE, timeout |-> timeout, interval |-> 20, check |-> check]>>
Never(timeout, check) == <<[Eventually(timeout, check)[1] EXCEPT !.never = TRUE]>>

\* checkForUpdatedValue.
Updated(key, previous, updated) ==
    [of |-> "value", key |-> key, previous |-> previous, updated |-> updated]
FlagUpdated(previous, updated) == Updated("flag-key", previous, updated)
FlagNotFound == [of |-> "missing"]
StoreInited == [of |-> "inited"]
\* validateFlagData.
FlagData(flags) == [of |-> "data", flags |-> flags]

PollUntilUpdated1s(previous, updated) ==
    <<[Eventually(1000, FlagUpdated(previous, updated))[1] EXCEPT !.interval = 50]>>
eventuallyRequireDataStoreInit == Eventually(1000, StoreInited)
eventuallyValidateFlagData(flags) == Eventually(1000, FlagData(flags))
neverValidateFlagData(flags) == Never(1000, FlagData(flags))

usesDefaultPrefix ==
    PersistenceCase("uses default prefix", "off", {},
        WriteMap("default") \o CreateClient \o PollUntilUpdated1s("default", "fallthrough"))

usesCustomPrefix ==
    [PersistenceCase("uses custom prefix", "off", {},
        CreateClient \o Never(100, FlagUpdated("default", "fallthrough"))
        \o WriteMap("custom") \o PollUntilUpdated1s("default", "fallthrough"))
     EXCEPT !.prefix = "custom"]

ignoresDatabaseInitializationFlag ==
    PersistenceCase("ignores database initialization flag", "off", {},
        CreateClient \o Eventually(1000, FlagNotFound)
        \o WriteMap("default") \o PollUntilUpdated1s("default", "fallthrough"))

canDisableCache ==
    PersistenceCase("can disable cache", "off", {},
        WriteMap("default") \o CreateClient \o PollUntilUpdated1s("default", "fallthrough")
        \o Reset \o Eventually(1000, FlagUpdated("fallthrough", "default")))

cacheHitPersistsForTTL ==
    PersistenceCase("cache hit persists for TTL", "ttl", {},
        CreateClient \o WriteMap("default") \o PollUntilUpdated1s("default", "fallthrough")
        \o Reset \o Never(500, FlagUpdated("fallthrough", "default"))
        \o Eventually(1000, FlagUpdated("fallthrough", "default")))

\* 500 microseconds.
MuchTooShort == 0
cacheMissPersistsForTTL ==
    PersistenceCase("cache miss persists for TTL", "ttl", {},
        CreateClient \o EvaluatesToDefault({"FLAG_NOT_FOUND"}) \o WriteMap("default")
        \o Never(MuchTooShort, FlagUpdated("default", "fallthrough"))
        \o Eventually(1000, FlagUpdated("default", "fallthrough")))

cachesFlagForever ==
    PersistenceCase("caches flag forever", "infinite", {},
        WriteMap("default") \o CreateClient
        \o Eventually(500, FlagUpdated("default", "fallthrough")) \o Reset
        \o Never(500, Updated("uncached-flag-key", "default", "fallthrough"))
        \o Never(500, FlagUpdated("fallthrough", "default")))

initializesStore ==
    PersistenceCase("initializes store when data received", "off",
        {makeSDKDataWithFlag(1, "value")},
        NotInitialized \o CreateClient \o eventuallyRequireDataStoreInit)

appliesUpdatesToStore ==
    PersistenceCase("applies updates to store", "off", {makeSDKDataWithFlag(1, "value")},
        NotInitialized \o CreateClient \o eventuallyRequireDataStoreInit
        \o eventuallyValidateFlagData(makeSDKDataWithFlag(1, "value"))
        \o PushUpdate(Flag(2, "new-value"))
        \o eventuallyValidateFlagData(makeSDKDataWithFlag(2, "new-value")))

\* The other flag's value is that of no flag ever written.
updatesRespectVersioning ==
    LET neverBecomes(version) ==
            neverValidateFlagData(makeSDKDataWithFlag(version, "new-value")
                                  @@ "uncached-flag-key" :> Flag(100, "value"))
    IN  PersistenceCase("data source updates respect versioning", "off",
            {makeSDKDataWithFlag(1, "value")},
            CreateClient \o eventuallyRequireDataStoreInit \o WriteMap("default")
            \o PushUpdate(Flag(1, "new-value")) \o neverBecomes(1)
            \o PushUpdate(Flag(100, "new-value")) \o neverBecomes(1)
            \o PushUpdate(Flag(200, "new-value")) \o neverBecomes(200))

deletionsRespectVersioning ==
    LET with(flag) == [initialFlags EXCEPT !["flag-key"] = flag]
    IN  PersistenceCase("data source deletions respect versioning", "off",
            {makeSDKDataWithFlag(100, "value")},
            CreateClient \o eventuallyRequireDataStoreInit \o WriteMap("default")
            \o PushUpdate(Deleted(1)) \o neverValidateFlagData(with(Deleted(1)))
            \o PushUpdate(Deleted(200)) \o eventuallyValidateFlagData(with(Deleted(200))))

ReadWriteCase(test, mode, data, script) ==
    PersistenceCase("cache mode " \o mode \o "/" \o test, mode, {data},
                    CreateClient \o eventuallyRequireDataStoreInit \o script)

doesNotCacheFlagMiss(mode) ==
    ReadWriteCase("does not cache flag miss", mode, <<>>,
        EvaluatesToDefault({}) \o PushUpdate(Flag(2, "new-value"))
        \o Eventually(500, FlagUpdated("default", "new-value")))

\* The client has evaluated the flag that it was sent.
CachedCase(test, mode, script) ==
    ReadWriteCase(test, mode, makeSDKDataWithFlag(1, "value"),
                  PollUntilUpdated1s("default", "value") \o script)

reflectsUpdatesEvenWithCache(mode) ==
    CachedCase("sdk reflects data source updates even with cache", mode,
        PushUpdate(Flag(2, "new-value")) \o Eventually(500, FlagUpdated("value", "new-value")))

ignoresDirectModifications(mode) ==
    CachedCase("ignores direct database modifications", mode,
        WriteMap("default") \o Never(500, FlagUpdated("value", "new-value"))
        \o IF mode = "infinite"
           THEN Eventually(500, Updated("uncached-flag-key", "default", "fallthrough"))
           ELSE Eventually(1000, FlagUpdated("value", "fallthrough")))

ignoresDroppedFlags(mode) ==
    CachedCase("ignores dropped flags", mode,
        Reset \o Never(500, FlagUpdated("value", "default"))
        \o IF mode = "ttl" THEN Eventually(1000, FlagUpdated("value", "default")) ELSE <<>>)

ForCacheMode(mode) ==
    <<doesNotCacheFlagMiss(mode), reflectsUpdatesEvenWithCache(mode),
      ignoresDirectModifications(mode), ignoresDroppedFlags(mode)>>

PersistenceCases ==
    <<usesDefaultPrefix, usesCustomPrefix, ignoresDatabaseInitializationFlag, canDisableCache,
      cacheHitPersistsForTTL, cacheMissPersistsForTTL, cachesFlagForever, initializesStore,
      appliesUpdatesToStore, updatesRespectVersioning, deletionsRespectVersioning>>
    \o ForCacheMode("infinite") \o ForCacheMode("ttl")

-------------------------------------------------------------------------------
(* The SDK: what the tests rely on, and the defects that they are about.   *)

\* Those that take one cache mode for another.
WrongMode ==
    [cachesWhenOff |-> <<"off", "infinite">>, ignoresTTLMode |-> <<"ttl", "off">>,
     neverExpires |-> <<"ttl", "infinite">>, ignoresInfiniteMode |-> <<"infinite", "off">>]

CommonPersistenceDefects ==
    [wrongDefaultPrefix |-> "uses default prefix",
     ignoresPrefix |-> "uses custom prefix",
     waitsForInited |-> "ignores database initialization flag",
     cachesWhenOff |-> "can disable cache",
     ignoresTTLMode |-> "cache hit persists for TTL",
     neverExpires |-> "cache hit persists for TTL",
     missesNeverExpire |-> "cache miss persists for TTL",
     forgetsMisses |-> Unnoticed,
     ignoresInfiniteMode |-> "caches flag forever",
     doesNotMarkInited |-> "initializes store when data received",
     losesUpdates |-> "applies updates to store",
     appliesOlderUpdates |-> Unnoticed,
     comparesWithMemory |-> Unnoticed,
     distrustsStore |-> Unnoticed,
     appliesOlderDeletes |-> "data source deletions respect versioning",
     ignoresDeletes |-> "data source deletions respect versioning",
     removesDeleted |-> "data source deletions respect versioning",
     dropsOtherFlags |-> "data source deletions respect versioning",
     missSurvivesUpdate |-> "cache mode ttl/does not cache flag miss",
     updatesOnlyTheStore |-> "cache mode ttl/sdk reflects data source updates even with cache",
     initSkipsCache |-> Unnoticed,
     readsOnlyCache |-> "cache mode infinite/ignores direct database modifications"]

\* Writing the flags into dynamodb marks the store, too.
PersistenceDefects(database) ==
    CommonPersistenceDefects @@
    [readsOnlyInited |-> IF database = "dynamodb" THEN Unnoticed
                         ELSE "ignores database initialization flag"]

ThisPersistenceCase == run.case

CacheMode ==
    LET mode == ThisPersistenceCase.cache
    IN  IF sdk \in DOMAIN WrongMode /\ WrongMode[sdk][1] = mode THEN WrongMode[sdk][2] ELSE mode

Prefix ==
    LET prefix == ThisPersistenceCase.prefix
    IN  IF sdk = "ignoresPrefix" THEN "default"
        ELSE IF sdk = "wrongDefaultPrefix" /\ prefix = "default" THEN "custom" ELSE prefix
InStore(r) == r.store[Prefix]

Item(flags, key) == IF key \in DOMAIN flags THEN {flags[key]} ELSE {}
ItemVersion(items) == IF items = {} THEN 0 ELSE (CHOOSE i \in items : TRUE).version

\* A cache entry holds an item or says that there is none, for TTL or for good.
TTL == 1000
Forever == 0
Entry(items) ==
    [items |-> items, expires |-> CacheMode = "ttl" /\ (items # {} \/ sdk # "missesNeverExpire"),
     left |-> IF CacheMode = "ttl" THEN TTL ELSE Forever]
Valid(entry) == entry.expires => entry.left > 0
WithEntry(r, key, items) ==
    IF CacheMode = "off" \/ (items = {} /\ sdk = "forgetsMisses") THEN r
    ELSE [r EXCEPT !.cache = (key :> Entry(items)) @@ @]

\* The item from the cache, else from the store; its entry is then new.
GetItem(r, key) ==
    LET cached == key \in DOMAIN r.cache /\ Valid(r.cache[key])
        unread == \/ sdk = "readsOnlyInited" /\ ~InStore(r).inited
                  \/ sdk = "readsOnlyCache" /\ ThisPersistenceCase.data # {}
        stored == IF unread THEN {} ELSE Item(InStore(r).flags, key)
    IN  IF cached THEN [state |-> r, items |-> r.cache[key].items]
        ELSE [state |-> WithEntry(r, key, stored), items |-> stored]

EvaluateItem(r, key) ==
    LET got == GetItem(r, key)
        found == {i \in got.items : i.value # "deleted"}
        ready == sdk = "waitsForInited" => InStore(r).inited
    IN  IF ~ready THEN [state |-> r, value |-> "default", error |-> {"CLIENT_NOT_READY"}]
        ELSE [state |-> got.state,
              value |-> IF found = {} THEN "default" ELSE (CHOOSE i \in found : TRUE).value,
              error |-> IF found = {} THEN {"FLAG_NOT_FOUND"} ELSE {}]

\* All data: it replaces what the store and the cache hold.
TakeAll(r, flags) ==
    [r EXCEPT !.store[Prefix] = [inited |-> sdk # "doesNotMarkInited", flags |-> flags],
              !.mine = flags,
              !.cache = IF CacheMode = "off" \/ sdk = "initSkipsCache" THEN <<>>
                        ELSE [k \in DOMAIN flags |-> Entry({flags[k]})]]

\* One item, if it is newer than the one in the store.
TakeItem(r, key, flag) ==
    LET deletes == flag.value = "deleted"
        stored == Item(InStore(r).flags, key)
        newer == \/ flag.version > ItemVersion(IF sdk = "comparesWithMemory" THEN Item(r.mine, key)
                                           ELSE stored)
                 \/ sdk = "appliesOlderUpdates" /\ ~deletes
                 \/ sdk = "appliesOlderDeletes" /\ deletes
        refused == \/ sdk = "distrustsStore" /\ ~deletes /\ stored # Item(r.mine, key)
                   \/ sdk = "losesUpdates" /\ ~deletes
                   \/ sdk = "ignoresDeletes" /\ deletes
        old == IF sdk = "dropsOtherFlags" THEN <<>> ELSE InStore(r).flags
        written == IF sdk = "removesDeleted" /\ deletes
                   THEN [k \in DOMAIN old \ {key} |-> old[k]]
                   ELSE (key :> flag) @@ old
        stale == \/ sdk = "updatesOnlyTheStore"
                 \/ sdk = "missSurvivesUpdate" /\ Item(r.cache, key) # {} /\ stored = {}
    IN  IF ~newer \/ refused THEN r
        ELSE LET new == [r EXCEPT !.store[Prefix].flags = written, !.mine = (key :> flag) @@ @]
             IN  IF stale THEN new ELSE WithEntry(new, key, {flag})

\* The SDK receives from the stream.
TakeData ==
    /\ run.at = "script" /\ run.feed # <<>>
    /\ LET sent == Head(run.feed)
           r == [run EXCEPT !.feed = Tail(@)]
       IN  During(IF sent.all THEN TakeAll(r, sent.flags)
                  ELSE TakeItem(r, "flag-key", sent.flags["flag-key"]))

Pass(r, time) ==
    [r EXCEPT !.cache = [k \in DOMAIN @ |->
        [@[k] EXCEPT !.left = IF @ > time THEN @ - time ELSE 0]]]

-------------------------------------------------------------------------------
(* The steps of a test. *)

\* runWithEmptyStore.
LaunchPersistence(c) ==
    [at |-> "script", case |-> c, step |-> 1, ok |-> TRUE, left |-> 0, polled |-> FALSE,
     store |-> EmptyStore, feed |-> <<>>, mine |-> <<>>, cache |-> <<>>]

ThisPersistenceStep == ThisPersistenceCase.script[run.step]
Scripted(do) ==
    /\ run.at = "script" /\ run.step <= Len(ThisPersistenceCase.script)
    /\ ThisPersistenceStep.do = do
Proceed(r) == During([r EXCEPT !.step = @ + 1, !.polled = FALSE])
FailPersistence == Verdict(ThisPersistenceCase, FALSE)

WriteFlags ==
    /\ Scripted("write")
    /\ Proceed([run EXCEPT !.store = WriteMapTo(@, ThisPersistenceStep.prefix, initialFlags)])

ResetStore ==
    /\ Scripted("reset")
    /\ Proceed([run EXCEPT !.store = EmptyStore])

\* A client without a data source is in daemon mode.
NewPersistentClient ==
    /\ Scripted("client")
    /\ Proceed([run EXCEPT !.feed = IF ThisPersistenceCase.data = {} THEN <<>>
            ELSE <<[all |-> TRUE, flags |-> CHOOSE d \in ThisPersistenceCase.data : TRUE]>>])

RequireNotInitialized ==
    /\ Scripted("not inited")
    /\ IF run.store["default"].inited THEN FailPersistence ELSE Proceed(run)

\* The value is asserted, and the error if the test looks at it.
EvaluateOnce ==
    /\ Scripted("evaluate")
    /\ LET result == EvaluateItem(run, "flag-key")
       IN  Proceed([result.state EXCEPT !.ok = @ /\ result.value = "default"
                        /\ ThisPersistenceStep.error \subseteq result.error])

PushData ==
    /\ Scripted("push")
    /\ Proceed([run EXCEPT !.feed =
            Append(@, [all |-> FALSE, flags |-> "flag-key" :> ThisPersistenceStep.flag])])

\* What one attempt of a poll finds: TRUE, FALSE, or a value that fails the test.
Attempted(r, check) ==
    LET result(key) == EvaluateItem(r, key)
    IN  IF check.of = "value"
        THEN LET got == result(check.key) IN
             [state |-> got.state, holds |-> got.value = check.updated,
              fails |-> got.value \notin {check.previous, check.updated}]
        ELSE IF check.of = "missing"
        THEN LET got == result("flag-key") IN
             [state |-> got.state, holds |-> got.error = {"FLAG_NOT_FOUND"}, fails |-> FALSE]
        ELSE [state |-> r, fails |-> FALSE,
              holds |-> IF check.of = "inited" THEN r.store["default"].inited
                        ELSE r.store["default"].flags = check.flags]

TimeLeft == IF run.polled THEN run.left ELSE ThisPersistenceStep.timeout

\* The ticker of PollForSpecificResultValue fires.
PollTick ==
    /\ Scripted("poll")
    /\ TimeLeft >= ThisPersistenceStep.interval
    /\ run.feed = <<>> \/ ~run.polled
    /\ LET interval == ThisPersistenceStep.interval
           tried == Attempted(Pass(run, interval), ThisPersistenceStep.check)
       IN  IF tried.fails \/ (tried.holds /\ ThisPersistenceStep.never) THEN FailPersistence
           ELSE IF tried.holds THEN Proceed(tried.state)
           ELSE During([tried.state EXCEPT !.polled = TRUE, !.left = TimeLeft - interval])

\* The deadline comes first; if both are due, either may be served.
PollTimeout ==
    /\ Scripted("poll")
    /\ TimeLeft <= ThisPersistenceStep.interval
    /\ IF ThisPersistenceStep.never THEN Proceed(Pass(run, TimeLeft)) ELSE FailPersistence

EndPersistenceTest ==
    /\ run.at = "script" /\ run.step > Len(ThisPersistenceCase.script)
    /\ Verdict(ThisPersistenceCase, run.ok)

PersistenceNext ==
    /\ suite \in {"redis", "consul", "dynamodb"}
    /\ \/ Begin(PersistenceCases, LaunchPersistence)
       \/ TakeData
       \/ WriteFlags
       \/ ResetStore
       \/ NewPersistentClient
       \/ RequireNotInitialized
       \/ EvaluateOnce
       \/ PushData
       \/ PollTick
       \/ PollTimeout
       \/ EndPersistenceTest

\* The one test that may fail for an SDK that conforms: it waits for a cached miss
\* to expire from the moment on at which it was cached, for just the time to live.
WithoutMargin == {"cache miss persists for TTL"}

\* The tests of persistent stores (server_side_persistence_base.go) but for one
\* pass for an SDK that conforms, whenever it takes its data in, and each defect
\* fails the test that is about it, with any of the databases.
PersistenceTestsTellApart ==
    \A database \in {"redis", "consul", "dynamodb"} :
        TellsApartBut(WithoutMargin, database, PersistenceCases, PersistenceDefects(database))
=================================================================================
