---------------------------- MODULE FactoryReset ----------------------------
(***************************************************************************)
(* What sambanas2's one-shot services do with the owner's options at a     *)
(* start: clean-config drops deprecated options, factory-reset wipes the   *)
(* add-on's data, check-srat-update cleans the downloaded updates and      *)
(* installs the newest SRAT.                                               *)
(*                                                                         *)
(* check-srat-update waits for factory-reset, as do modprobe, init-nfsd    *)
(* and the rest, the others here; clean-config depends on base only and    *)
(* runs beside them.  The Supervisor keeps the options.  bashio (external) *)
(* reads them through a cache in /tmp/.bashio, which the services share;   *)
(* bashio::addon.option reads all of them, changes one, posts all of them  *)
(* back and empties the cache.  The container is made anew at each start,  *)
(* with the image's binaries and no cache.  A service that fails stops the *)
(* add-on, as a kill does.                                                 *)
(***************************************************************************)
EXTENDS Integers

CONSTANTS
  Settings,  \* bound: what this instance looks at, see Setting
  Image,     \* version of the image's SRAT
  Latest,    \* newest version online
  Starts,    \* bound: starts of the add-on
  None       \* no upgrade in the directory

Channels == {"none", "release", "develop"}
OldKeys  == {"enable_smart", "hdd_idle_second", "update_srat_onstart"}

\* channel: srat_update_channel, with auto_update on.  deprecated: the keys of an
\* older release the options hold.  faults: a POST may fail.  asks: when the owner
\* sets an option.  others: what the others read is looked at too.
Setting == [channel : Channels, deprecated : SUBSET OldKeys, faults : BOOLEAN,
            asks : {"never", "stopped", "always"}, others : BOOLEAN]

\* What the constants must be.
FactoryResetConstants ==
  /\ Settings \subseteq Setting
  /\ {Image, Latest, Starts} \subseteq Nat /\ None \notin Nat

VARIABLES
  setting,
  running,  \* the container
  starts,   \* starts so far
  options,  \* factory_reset, clean_upgrade_dir and the deprecated keys there are
  cache,    \* /tmp/.bashio: entry -> the options in it, at most one
  data,     \* of "database" and "extra_modules", what is on disk
  upgrade,  \* upgrade directory -> the version in it, or None
  srat,     \* the version in /usr/local/bin
  at,       \* service -> where its script is
  call,     \* service -> where it is in bashio
  got,      \* service -> the options bashio has read for it
  keys,     \* the keys clean-config still has to drop
  stale,    \* history: of what a start found asked to be removed, what is left
  old,      \* history: was srat installed from a stale upgrade
  asked,    \* history: has the owner asked for a factory reset since the start
  beside    \* history: did factory-reset post beside clean-config, or in vain

disk     == <<data, upgrade>>
services == <<at, call, got, keys>>
vars == <<setting, running, starts, options, cache, disk, srat, services, stale, old,
          asked, beside>>

CC == "clean-config"
FR == "factory-reset"
SU == "check-srat-update"
Services == {CC, FR, SU, "others"}

\* Entries of the cache: bashio::addon.options' and bashio::config's.
Entries == {"options", "config"}

\* /data/upgrade and /config/upgrade.
DataDir == "data"
ConfigDir == "config"
Default == [factory_reset |-> FALSE, clean_upgrade_dir |-> FALSE, deprecated |-> {}]

AllOff == [s \in Services |-> "off"]
NoCall == [s \in Services |-> "read"]
GotNone == [s \in Services |-> Default]
NoCache == [e \in Entries |-> {}]

Init ==
  /\ setting \in Settings
  /\ running = FALSE /\ starts = 0
  /\ options = [Default EXCEPT !.deprecated = setting.deprecated]
  /\ cache = NoCache
  /\ data = {}
  /\ upgrade = [dir \in {DataDir, ConfigDir} |-> None]
  /\ srat = Image
  /\ at = AllOff /\ call = NoCall /\ got = GotNone /\ keys = {}
  /\ stale = {} /\ old = FALSE /\ asked = FALSE /\ beside = FALSE

-----------------------------------------------------------------------------
Downloaded == IF upgrade[DataDir] = None THEN {} ELSE {"upgrade"}

\* What the options ask to have removed.
ToRemove == (IF options.factory_reset THEN data \cup Downloaded ELSE {})
            \cup (IF options.clean_upgrade_dir THEN Downloaded ELSE {})

FirstPlace(s) == CASE s = CC -> "options" [] s = FR -> "test" [] OTHER -> "wait"

Start ==
  /\ ~running /\ starts < Starts
  /\ running' = TRUE /\ starts' = starts + 1
  /\ at' = [s \in Services |-> FirstPlace(s)]
  /\ srat' = Image /\ old' = FALSE
  /\ stale' = stale \cup ToRemove
  /\ UNCHANGED <<setting, options, cache, disk, call, got, keys, asked, beside>>

\* The owner stops it, it is killed, or a service has failed.
Stop ==
  /\ running /\ running' = FALSE
  /\ at' = AllOff /\ call' = NoCall /\ got' = GotNone /\ keys' = {}
  /\ cache' = NoCache /\ asked' = FALSE /\ beside' = FALSE
  /\ UNCHANGED <<setting, starts, options, disk, srat, stale, old>>

\* The owner sets an option, while the add-on is stopped or at any time.
MayAsk == setting.asks = "always" \/ (setting.asks = "stopped" /\ ~running)

AskFactoryReset ==
  /\ MayAsk /\ ~options.factory_reset
  /\ options' = [options EXCEPT !.factory_reset = TRUE]
  /\ asked' = running
  /\ UNCHANGED <<setting, running, starts, cache, disk, srat, services, stale, old, beside>>

AskCleanUpgradeDir ==
  /\ MayAsk /\ ~options.clean_upgrade_dir
  /\ options' = [options EXCEPT !.clean_upgrade_dir = TRUE]
  /\ UNCHANGED <<setting, running, starts, cache, disk, srat, services, stale, old, asked,
                 beside>>

-----------------------------------------------------------------------------
(* bashio.                                                                 *)

\* Where a script reads the options, and which entry.
ReadPlaces == {"options", "drop", "test", "set_clean", "reset", "version", "reset_clean",
               "info", "config"}
Entry(s) == IF at[s] \in {"test", "config"} THEN "config" ELSE "options"

Hit(s) ==
  /\ at[s] \in ReadPlaces /\ call[s] = "read"
  /\ \E o \in cache[Entry(s)] : got' = [got EXCEPT ![s] = o]
  /\ call' = [call EXCEPT ![s] = "use"]
  /\ UNCHANGED <<cache, at, keys>>

\* The GET's answer ...
Get(s) ==
  /\ at[s] \in ReadPlaces /\ call[s] = "read" /\ cache[Entry(s)] = {}
  /\ got' = [got EXCEPT ![s] = options]
  /\ call' = [call EXCEPT ![s] = "keep"]
  /\ UNCHANGED <<cache, at, keys>>

\* ... is put into the cache, whatever has been posted meanwhile.
Keep(s) ==
  /\ call[s] = "keep"
  /\ cache' = [cache EXCEPT ![Entry(s)] = {got[s]}]
  /\ call' = [call EXCEPT ![s] = "use"]
  /\ UNCHANGED <<at, got, keys>>

\* The script goes on with what was read.
Uses(s, place) == at[s] = place /\ call[s] = "use"
GoesTo(s, place) == at' = [at EXCEPT ![s] = place]
Decides(s, place) ==
  /\ GoesTo(s, place)
  /\ call' = [call EXCEPT ![s] = "read"] /\ got' = [got EXCEPT ![s] = Default]

\* bashio::addon.option posts, or fails to post, what it has made of them.
Posts(s) ==
  /\ call' = [call EXCEPT ![s] = "flush"] /\ got' = [got EXCEPT ![s] = Default]
  /\ UNCHANGED <<setting, running, starts, cache, disk, srat, at, stale, old, asked>>

PostFails == setting.faults /\ UNCHANGED options

\* It flushes the cache, and the script goes on.
NextPlace(s) ==
  CASE at[s] = "drop" -> IF keys = {} THEN "done" ELSE "drop"
    [] at[s] = "set_clean" -> "reset"
    [] at[s] = "reset_clean" -> "local"
    [] OTHER -> "done"

Flush(s) ==
  /\ call[s] = "flush" /\ call' = [call EXCEPT ![s] = "read"]
  /\ cache' = NoCache
  /\ GoesTo(s, NextPlace(s))
  /\ UNCHANGED <<got, keys>>

Bashio ==
  /\ \E s \in Services : Hit(s) \/ Get(s) \/ Keep(s) \/ Flush(s)
  /\ UNCHANGED <<setting, running, starts, options, disk, srat, stale, old, asked, beside>>

\* What a step of a script that neither posts nor removes leaves alone.
Quiet == UNCHANGED <<setting, running, starts, options, cache, stale, asked, beside>>

-----------------------------------------------------------------------------
(* clean-config.                                                           *)

CleanConfigReads ==
  /\ Uses(CC, "options")
  /\ keys' = got[CC].deprecated
  /\ Decides(CC, IF got[CC].deprecated = {} THEN "done" ELSE "drop")
  /\ Quiet /\ UNCHANGED <<disk, srat, old>>

\* A failure would end the script and the start: Stop.
CleanConfigPosts ==
  /\ Uses(CC, "drop")
  /\ \E key \in keys :
       /\ options' = [got[CC] EXCEPT !.deprecated = @ \ {key}]
       /\ keys' = keys \ {key}
  /\ Posts(CC) /\ UNCHANGED beside

-----------------------------------------------------------------------------
(* factory-reset.                                                          *)

TestFactoryReset ==
  /\ Uses(FR, "test")
  /\ Decides(FR, IF got[FR].factory_reset THEN "database" ELSE "done")
  /\ Quiet /\ UNCHANGED <<keys, disk, srat, old>>

Removes(from, to, x) ==
  /\ at[FR] = from /\ GoesTo(FR, to)
  /\ stale' = stale \ {x}
  /\ UNCHANGED <<setting, running, starts, cache, srat, call, got, keys, old, asked, beside>>

\* Mutant: the option is reset before anything is removed.
RemoveDatabase_OptionFirst ==
  /\ Removes("database", "extra_modules", "database")
  /\ data' = data \ {"database"}
  /\ options' = [options EXCEPT !.factory_reset = FALSE] /\ UNCHANGED upgrade

\* The *.db3 of /config and /data.  (The certificates are elsewhere.)
RemoveDatabase ==
  /\ Removes("database", "extra_modules", "database")
  /\ data' = data \ {"database"} /\ UNCHANGED <<options, upgrade>>

RemoveExtraModules ==
  /\ Removes("extra_modules", "upgrade", "extra_modules")
  /\ data' = data \ {"extra_modules"} /\ UNCHANGED <<options, upgrade>>

RemoveUpgrade ==
  /\ Removes("upgrade", "set_clean", "upgrade")
  /\ upgrade' = [upgrade EXCEPT ![DataDir] = None] /\ UNCHANGED <<options, data>>

\* clean_upgrade_dir is set ...
SetCleanUpgradeDir ==
  /\ Uses(FR, "set_clean")
  /\ PostFails \/ options' = [got[FR] EXCEPT !.clean_upgrade_dir = TRUE]
  /\ Posts(FR) /\ UNCHANGED <<keys, beside>>

\* ... then factory_reset is reset.
ResetFactoryReset ==
  /\ Uses(FR, "reset")
  /\ \/ PostFails /\ beside' = TRUE
     \/ /\ options' = [got[FR] EXCEPT !.factory_reset = FALSE]
        /\ beside' = (at[CC] # "done")
  /\ Posts(FR) /\ UNCHANGED keys

-----------------------------------------------------------------------------
(* check-srat-update, and what srat and the others do.                     *)

\* Mutant: check-srat-update does not depend on factory-reset.
ReadVersion_Beside ==
  /\ at[SU] = "wait" /\ GoesTo(SU, "version")
  /\ Quiet /\ UNCHANGED <<call, got, keys, disk, srat, old>>

\* bashio::addon.version is of the same entry as the options.
ReadVersion ==
  /\ at[FR] = "done"
  /\ at[SU] = "wait" /\ GoesTo(SU, "version")
  /\ Quiet /\ UNCHANGED <<call, got, keys, disk, srat, old>>

HaveVersion ==
  /\ Uses(SU, "version") /\ Decides(SU, "test")
  /\ Quiet /\ UNCHANGED <<keys, disk, srat, old>>

TestCleanUpgradeDir ==
  /\ Uses(SU, "test")
  /\ Decides(SU, IF got[SU].clean_upgrade_dir THEN "clean" ELSE "local")
  /\ Quiet /\ UNCHANGED <<keys, disk, srat, old>>

CleanUpgradeDir ==
  /\ at[SU] = "clean" /\ GoesTo(SU, "reset_clean")
  /\ upgrade' = [upgrade EXCEPT ![DataDir] = None] /\ stale' = stale \ {"upgrade"}
  /\ UNCHANGED <<setting, running, starts, options, cache, data, srat, call, got, keys, old,
                 asked, beside>>

ResetCleanUpgradeDir ==
  /\ Uses(SU, "reset_clean")
  /\ PostFails \/ options' = [got[SU] EXCEPT !.clean_upgrade_dir = FALSE]
  /\ Posts(SU) /\ UNCHANGED <<keys, beside>>

UpgradeDir == IF setting.channel = "develop" THEN ConfigDir ELSE DataDir

\* Mutant: what the directory holds is copied without a look at it.
UpgradeIfNewer_Blindly(dir) == srat' = upgrade[dir] /\ UNCHANGED old

\* upgrade_binaries_if_newer.
UpgradeIfNewer(dir) ==
  IF upgrade[dir] # None /\ upgrade[dir] > srat
  THEN /\ srat' = upgrade[dir]
       /\ old' = (dir = DataDir /\ "upgrade" \in stale)
  ELSE UNCHANGED <<srat, old>>

UpdateStep(from, to) ==
  /\ at[SU] = from /\ GoesTo(SU, to)
  /\ Quiet /\ UNCHANGED <<data, call, got, keys>>

\* With a channel: its local directory first ...
UpgradeLocal ==
  /\ \/ /\ setting.channel = "none" /\ UpdateStep("local", "final")
        /\ UNCHANGED <<srat, old>>
     \/ /\ setting.channel # "none" /\ UpdateStep("local", "online")
        /\ UpgradeIfNewer(UpgradeDir)
  /\ UNCHANGED upgrade

\* ... then srat-cli, which may find a version to download (or fail: Stop).
UpgradeOnline ==
  /\ UpdateStep("online", "final")
  /\ \/ upgrade' = [upgrade EXCEPT ![UpgradeDir] = Latest]
     \/ UNCHANGED upgrade
  /\ UNCHANGED <<srat, old>>

\* Whatever the channel is, /data/upgrade is looked at last.
UpgradeFinal ==
  /\ UpdateStep("final", "done")
  /\ UpgradeIfNewer(DataDir)
  /\ UNCHANGED upgrade

\* modprobe reads the configuration, init-nfsd and those after it the add-on's
\* information.
OtherReads ==
  /\ \/ /\ setting.others /\ at[FR] = "done" /\ at["others"] = "wait"
        /\ \E place \in {"info", "config"} : GoesTo("others", place)
        /\ UNCHANGED <<call, got>>
     \/ /\ \E place \in {"info", "config"} : Uses("others", place)
        /\ Decides("others", "wait")
  /\ Quiet /\ UNCHANGED <<keys, disk, srat, old>>

\* srat creates its database, modprobe downloads modules.
Write(x) ==
  /\ x \notin data
  /\ x = "database" => at[SU] = "done"
  /\ x = "extra_modules" => at[FR] = "done"
  /\ data' = data \cup {x}
  /\ Quiet /\ UNCHANGED <<services, upgrade, srat, old>>

-----------------------------------------------------------------------------
CleanConfig == CleanConfigReads \/ CleanConfigPosts
ResetAll == \/ TestFactoryReset \/ RemoveDatabase \/ RemoveExtraModules \/ RemoveUpgrade
            \/ SetCleanUpgradeDir \/ ResetFactoryReset
UpdateSrat == \/ ReadVersion \/ HaveVersion \/ TestCleanUpgradeDir \/ CleanUpgradeDir
              \/ ResetCleanUpgradeDir \/ UpgradeLocal \/ UpgradeOnline \/ UpgradeFinal

Step == \/ Bashio \/ CleanConfig \/ ResetAll \/ UpdateSrat \/ OtherReads
        \/ \E x \in {"database", "extra_modules"} : Write(x)

Next == Start \/ Stop \/ AskFactoryReset \/ AskCleanUpgradeDir \/ Step

Spec == Init /\ [][Next]_vars

-----------------------------------------------------------------------------
Versions == {Image, Latest}
Options == [factory_reset : BOOLEAN, clean_upgrade_dir : BOOLEAN, deprecated : SUBSET OldKeys]

Places(s) ==
  CASE s = CC -> {"off", "options", "drop", "done"}
    [] s = FR -> {"off", "test", "database", "extra_modules", "upgrade", "set_clean",
                  "reset", "done"}
    [] s = SU -> {"off", "wait", "version", "test", "clean", "reset_clean", "local",
                  "online", "final", "done"}
    [] OTHER  -> {"off", "wait", "info", "config"}

TypeOK ==
  /\ setting \in Settings /\ running \in BOOLEAN /\ starts \in 0..Starts
  /\ options \in Options
  /\ cache \in [Entries -> SUBSET Options]
  /\ data \subseteq {"database", "extra_modules"}
  /\ upgrade \in [{DataDir, ConfigDir} -> {None, Latest}]
  /\ srat \in Versions
  /\ at \in [Services -> UNION {Places(s) : s \in Services}]
  /\ \A s \in Services : at[s] \in Places(s)
  /\ call \in [Services -> {"read", "keep", "use", "flush"}]
  /\ got \in [Services -> Options]
  /\ keys \subseteq OldKeys
  /\ stale \subseteq {"database", "extra_modules", "upgrade"}
  /\ {old, asked, beside} \subseteq BOOLEAN

\* When srat starts, nothing that the options asked to have removed when this start
\* began, or one cut short before it, is there or has been installed: no service
\* that runs beside loses such a request.
RemovedAsAsked == at[SU] = "done" => stale = {} /\ ~old

\* DOCS.md: factory_reset resets itself to false after completion.
ResetsItself ==
  at[FR] = "done" /\ at[CC] = "done" => ~options.factory_reset \/ asked

\* ... it does, and stays false whatever the other services read and post, when
\* clean-config was over before factory-reset posted and the POST did not fail.
ResetsItselfAlone == at[FR] = "done" => ~options.factory_reset \/ asked \/ beside
=============================================================================
