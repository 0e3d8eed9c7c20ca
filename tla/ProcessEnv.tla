----------------------------- MODULE ProcessEnv -----------------------------
(***************************************************************************)
(* What a process of the project takes from its environment: "now", from   *)
(* SNAP_TODAY or the clock (shared/clock.py), and fixture mode, from       *)
(* SNAP_USE_FIXTURES or an argument (shared/settings.py), with the cached  *)
(* settings and the cached store made from it (default_store,              *)
(* pipeline/store/snapshot_store.py).  The process is single-threaded: it  *)
(* changes its environment between calls, never during one.                *)
(*                                                                         *)
(* The value of a variable is what strip() and lower() leave of it.  A pin *)
(* is [kind, day]: "unset" (or empty), "date", or "other" - a datetime, a  *)
(* typo, a date no calendar has.  An instant is a tick, TicksPerDay to a   *)
(* day.                                                                    *)
(***************************************************************************)
EXTENDS Integers, FiniteSets

CONSTANTS
    ModeWords,     \* the values SNAP_USE_FIXTURES takes; "" when it is unset
    Pins,          \* the values SNAP_TODAY takes
    Roots,         \* the repo_root arguments
    RepoRoot,      \* the default one
    TicksPerDay,
    LastTick,      \* bound on the clock
    MaxStores,     \* bound on the stores that are constructed
    Raises,        \* a ValueError instead of an answer
    Unset          \* an argument left at None, a cache that is empty

ASSUME EnvAssumption ==
    /\ \A pin \in Pins : pin.kind \in {"unset", "date", "other"} /\ pin.day \in Nat
    /\ RepoRoot \in Roots /\ TicksPerDay \in Nat \ {0} /\ LastTick \in Nat
    /\ Raises \notin Int /\ Unset \notin Int /\ Raises # Unset

VARIABLES
    mode,          \* SNAP_USE_FIXTURES
    pin,           \* SNAP_TODAY
    tick,          \* the clock
    cached,        \* the one entry of _cached_default_settings
    stores,        \* the cache of _store_for: the stores it has made
    made,          \* the number of stores constructed
    held           \* the stores in use, with how they were asked for

envVars == <<mode, pin, tick, cached, stores, made, held>>

-----------------------------------------------------------------------------
(* clock.py                                                                *)

PinnedDate == IF pin.kind = "date" THEN pin.day ELSE IF pin.kind = "other" THEN Raises ELSE Unset

TodayUtc == IF PinnedDate = Unset THEN tick \div TicksPerDay ELSE PinnedDate

(* Mutant: a pinned now keeps the time of day of the clock. *)
NowAtTimeOfDay ==
    IF PinnedDate = Raises THEN Raises
    ELSE IF PinnedDate = Unset THEN tick
    ELSE PinnedDate * TicksPerDay + (tick % TicksPerDay)

(* Midnight of the pinned date. *)
NowUtc ==
    IF PinnedDate = Raises THEN Raises
    ELSE IF PinnedDate = Unset THEN tick
    ELSE PinnedDate * TicksPerDay

-----------------------------------------------------------------------------
(* settings.py                                                             *)

Truthy == {"1", "true", "yes"}

(* _env_use_fixtures, use_fixtures *)
EnvUseFixtures == mode \in Truthy

Settings(root, fixtures) == [root |-> root, fixtures |-> fixtures]

(* Explicit arguments win over the environment. *)
Resolved(flag) == IF flag = Unset THEN EnvUseFixtures ELSE flag

LoadDataSettings(root, flag) == Settings(root, Resolved(flag))

(* default_data_settings: one entry, keyed by root and mode. *)
DefaultSettings ==
    IF cached # Unset /\ cached.root = RepoRoot /\ cached.fixtures = EnvUseFixtures
      THEN cached ELSE LoadDataSettings(RepoRoot, EnvUseFixtures)

-----------------------------------------------------------------------------
(* The stores of the process.                                              *)

Constructed(settings) == [id |-> made + 1, settings |-> settings]

Hold(store, root, flag, default) ==
    held' = held \cup {[store |-> store, root |-> root, flag |-> flag,
                        env |-> EnvUseFixtures, default |-> default]}

(* Mutant: the store goes when its settings are evicted. *)
DefaultStoreOfLastMode ==
    /\ made < MaxStores
    /\ cached' = DefaultSettings
    /\ LET known == {store \in stores : store.settings = cached'}
           store == IF known = {} THEN Constructed(cached')
                    ELSE CHOOSE s \in known : TRUE
       IN  /\ stores' = {store}
           /\ made' = IF known = {} THEN made + 1 ELSE made
           /\ Hold(store, RepoRoot, Unset, TRUE)
    /\ UNCHANGED <<mode, pin, tick>>

(* default_store(): settings of equal value get the same store. *)
DefaultStore ==
    /\ made < MaxStores
    /\ cached' = DefaultSettings
    /\ LET known == {store \in stores : store.settings = cached'}
           store == IF known = {} THEN Constructed(cached')
                    ELSE CHOOSE s \in known : TRUE
       IN  /\ stores' = stores \cup {store}
           /\ made' = IF known = {} THEN made + 1 ELSE made
           /\ Hold(store, RepoRoot, Unset, TRUE)
    /\ UNCHANGED <<mode, pin, tick>>

(* SnapshotStore(load_data_settings(repo_root=root, use_fixtures=flag)), or
   SnapshotStore() with neither. *)
OwnStore ==
    /\ made < MaxStores
    /\ \E root \in Roots, flag \in BOOLEAN \cup {Unset} :
         LET store == Constructed(LoadDataSettings(root, flag)) IN
           /\ Hold(store, root, flag, FALSE)
           /\ made' = made + 1
    /\ UNCHANGED <<mode, pin, tick, cached, stores>>

SetMode ==
    /\ \E word \in ModeWords \ {mode} : mode' = word
    /\ UNCHANGED <<pin, tick, cached, stores, made, held>>

SetPin ==
    /\ \E value \in Pins \ {pin} : pin' = value
    /\ UNCHANGED <<mode, tick, cached, stores, made, held>>

Tick ==
    /\ tick < LastTick
    /\ tick' = tick + 1
    /\ UNCHANGED <<mode, pin, cached, stores, made, held>>

EnvInit(word, value) ==
    /\ mode = word
    /\ pin = value
    /\ tick = 0
    /\ cached = Unset
    /\ stores = {} /\ made = 0 /\ held = {}

-----------------------------------------------------------------------------
(* Properties.                                                             *)

(* A pinned run has a single fixed instant: while the pin stays, time that
   passes changes neither answer, both raise for a pin that is no date, and
   otherwise the instant of the one lies on the date of the other. *)
PinStopsTheClock ==
    [][pin.kind # "unset" /\ pin' = pin
         => /\ TodayUtc' = TodayUtc /\ NowUtc' = NowUtc
            /\ TodayUtc = Raises <=> NowUtc = Raises
            /\ TodayUtc # Raises => NowUtc \div TicksPerDay = TodayUtc]_envVars

(* Every store in use has the mode and the root it was asked for: those of the
   arguments, else that of the environment when it was asked - and keeps them,
   however often the environment and the cache have changed since.  And what
   default_store() gives is process-wide: one object for one mode, although the
   settings it is made from are evicted each time the mode changes. *)
StoresAreAsAskedFor ==
    \A h \in held :
        /\ h.store.settings.root = h.root
        /\ h.store.settings.fixtures = IF h.flag = Unset THEN h.env ELSE h.flag
        /\ \A k \in held :
             h.default /\ k.default /\ h.store.settings = k.store.settings
                 => h.store.id = k.store.id

=============================================================================
