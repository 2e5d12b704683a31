------------------------ MODULE FactoryReset_proofs ------------------------
(***************************************************************************)
(* Proofs about FactoryReset, for any settings, versions and starts.       *)
(***************************************************************************)
EXTENDS FactoryReset, TLAPS

\* The options there are: the Supervisor's, the cache's and those a service has read
\* and not yet gone on with.  What a POST makes the next options is one of these,
\* changed in one place.
Around ==
  {o \in Options : \/ o = options
                   \/ \E e \in Entries : o \in cache[e]
                   \/ \E s \in Services : call[s] \in {"keep", "use"} /\ o = got[s]}

ResetWanted == \A o \in Around : o.factory_reset
CleanWanted == \A o \in Around : o.clean_upgrade_dir

PostPlaces == {"drop", "set_clean", "reset", "reset_clean"}

\* The services run while the container does, all but clean-config after the reset;
\* bashio runs where a script calls it.
Stages ==
  /\ \A s \in Services : (at[s] = "off") = (running = FALSE)
  /\ at[SU] \in {"off", "wait"} \/ at[FR] = "done"
  /\ at["others"] \in {"off", "wait"} \/ at[FR] = "done"
  /\ \A s \in Services : /\ call[s] \in {"keep", "use"} => at[s] \in ReadPlaces
                         /\ call[s] = "flush" => at[s] \in PostPlaces
  /\ running = FALSE => cache = NoCache /\ asked = FALSE /\ beside = FALSE

\* What is still to be removed will be: its request stands wherever the options are
\* read, and the service that removes it has not passed it.
Pending ==
  /\ "database" \in stale => ResetWanted /\ at[FR] \in {"off", "test", "database"}
  /\ "extra_modules" \in stale =>
       ResetWanted /\ at[FR] \in {"off", "test", "database", "extra_modules"}
  /\ "upgrade" \in stale =>
       \/ ResetWanted /\ at[FR] \in {"off", "test", "database", "extra_modules", "upgrade"}
       \/ /\ CleanWanted /\ at[SU] \in {"off", "wait", "version", "test", "clean"}
          /\ at[FR] \in {"off", "test", "database", "extra_modules", "upgrade", "done"}

\* factory-reset has posted and not yet flushed the cache.
Posted == at[FR] = "reset" /\ call[FR] = "flush"

\* Unless the owner asks or factory-reset posts beside clean-config: there is one
\* value of factory_reset until factory-reset resets it, then nobody holds another
\* one but the cache it is about to flush, then there is again one, FALSE.
OneValue == \A o \in Around : o.factory_reset = options.factory_reset
NoReset  == \A o \in Around : o.factory_reset = FALSE

Untroubled ==
  asked = FALSE /\ beside = FALSE =>
    /\ at[FR] # "done" /\ ~Posted => OneValue
    /\ Posted => options.factory_reset = FALSE /\ at[CC] = "done"
    /\ at[FR] = "done" => NoReset

IInv == TypeOK /\ Stages /\ Pending /\ Untroubled /\ old = FALSE

-----------------------------------------------------------------------------
\* An option is set alone.
LEMMA SetOption ==
  ASSUME NEW o \in Options
  PROVE  /\ \A b \in BOOLEAN :
              LET p == [o EXCEPT !.factory_reset = b]
              IN  /\ p \in Options /\ p.factory_reset = b
                  /\ p.clean_upgrade_dir = o.clean_upgrade_dir
         /\ \A b \in BOOLEAN :
              LET p == [o EXCEPT !.clean_upgrade_dir = b]
              IN  /\ p \in Options /\ p.clean_upgrade_dir = b
                  /\ p.factory_reset = o.factory_reset
         /\ \A k : LET p == [o EXCEPT !.deprecated = @ \ {k}]
                   IN  /\ p \in Options /\ p.factory_reset = o.factory_reset
                       /\ p.clean_upgrade_dir = o.clean_upgrade_dir
  BY DEF Options

\* The default options, also with keys of an older release.
LEMMA DefaultType ==
  /\ Default \in Options
  /\ \A k \in SUBSET OldKeys : [Default EXCEPT !.deprecated = k] \in Options
  BY DEF Default, Options

\* The Supervisor's options, the cache's and those a service holds are around.
LEMMA HeldIsAround ==
  ASSUME TypeOK
  PROVE  /\ options \in Around
         /\ \A e \in Entries : cache[e] \subseteq Around
         /\ \A s \in Services : call[s] \in {"keep", "use"} => got[s] \in Around
<1>1. options \in Around
  BY DEF Around, TypeOK
<1>2. \A e \in Entries : cache[e] \subseteq Around
  BY DEF Around, TypeOK
<1>3. \A s \in Services : call[s] \in {"keep", "use"} => got[s] \in Around
  BY DEF Around, TypeOK
<1> QED
  BY <1>1, <1>2, <1>3

\* Where the options, the cache and bashio's calls are as before, so is what is around.
LEMMA StillAround ==
  ASSUME UNCHANGED <<options, cache, call, got>>
  PROVE  Around' = Around
  BY DEF Around

\* A service that lets go of its options, to decide or to post, adds no others but
\* those it posts.
LEMMA LettingGo ==
  ASSUME TypeOK, NEW s \in Services, NEW c \in {"read", "flush"},
         call' = [call EXCEPT ![s] = c], got' = [got EXCEPT ![s] = Default],
         cache' = cache
  PROVE  Around' \subseteq Around \cup {options'}
<1> SUFFICES ASSUME NEW o \in Around' PROVE o \in Around \cup {options'}
  OBVIOUS
<1>1. CASE o = options'
  BY <1>1
<1>2. CASE \E e \in Entries : o \in cache[e]
  BY <1>2 DEF Around
<1>3. CASE \E t \in Services : call'[t] \in {"keep", "use"} /\ o = got'[t]
  <2>1. PICK t \in Services : call'[t] \in {"keep", "use"} /\ o = got'[t]
    BY <1>3
  <2>2. t # s
    BY <2>1 DEF TypeOK
  <2>3. call'[t] = call[t] /\ got'[t] = got[t]
    BY <2>2 DEF TypeOK
  <2> QED
    BY <2>1, <2>3, HeldIsAround
<1> QED
  BY <1>1, <1>2, <1>3 DEF Around, TypeOK

\* A step of bashio's reading and flushing adds none.
LEMMA BashioAround ==
  ASSUME TypeOK, NEW s \in Services, Hit(s) \/ Get(s) \/ Keep(s) \/ Flush(s),
         options' = options
  PROVE  Around' \subseteq Around
<1>1. Entry(s) \in Entries
  BY DEF Entry, Entries
<1>2. /\ \A e \in Entries : cache'[e] \subseteq Around
      /\ call'[s] \in {"keep", "use"} => got'[s] \in Around
  <2>1. CASE Hit(s)
    BY <1>1, <2>1, HeldIsAround DEF Hit, TypeOK
  <2>2. CASE Get(s)
    BY <2>2, HeldIsAround DEF Get, TypeOK
  <2>3. CASE Keep(s)
    <3>1. got[s] \in Around
      BY <2>3, HeldIsAround DEF Keep
    <3>2. \A e \in Entries : cache'[e] = cache[e] \/ cache'[e] = {got[s]}
      BY <2>3 DEF Keep, TypeOK
    <3> QED
      BY <2>3, <3>1, <3>2, HeldIsAround DEF Keep
  <2>4. CASE Flush(s)
    BY <2>4 DEF Flush, TypeOK, NoCache
  <2> QED
    BY <2>1, <2>2, <2>3, <2>4
<1>3. \A t \in Services : t # s => call'[t] = call[t] /\ got'[t] = got[t]
  BY DEF Hit, Get, Keep, Flush, TypeOK
<1> SUFFICES ASSUME NEW o \in Around' PROVE o \in Around
  OBVIOUS
<1>4. CASE \E t \in Services : call'[t] \in {"keep", "use"} /\ o = got'[t]
  BY <1>2, <1>3, <1>4, HeldIsAround
<1> QED
  BY <1>2, <1>4 DEF Around

\* What a POST makes of options that are around keeps factory_reset as it is there ...
LEMMA ResetKept ==
  ASSUME TypeOK, Around' \subseteq Around \cup {options'},
         NEW g \in Around, options'.factory_reset = g.factory_reset
  PROVE  /\ ResetWanted => ResetWanted'
         /\ NoReset => NoReset'
         /\ OneValue => OneValue'
<1>1. ResetWanted => ResetWanted'
  BY DEF ResetWanted
<1>2. NoReset => NoReset'
  BY DEF NoReset
<1>3. OneValue => OneValue'
  BY HeldIsAround DEF OneValue
<1> QED
  BY <1>1, <1>2, <1>3

\* ... and clean_upgrade_dir, where it does not take it back.
LEMMA CleanKept ==
  ASSUME Around' \subseteq Around \cup {options'}, NEW g \in Around,
         options'.clean_upgrade_dir = g.clean_upgrade_dir \/ options'.clean_upgrade_dir
  PROVE  CleanWanted => CleanWanted'
  BY DEF CleanWanted

\* Where nothing is posted they are kept.
LEMMA AllKept ==
  ASSUME TypeOK, Around' \subseteq Around, options' = options
  PROVE  /\ ResetWanted => ResetWanted'
         /\ CleanWanted => CleanWanted'
         /\ NoReset => NoReset'
         /\ OneValue => OneValue'
  BY HeldIsAround, ResetKept, CleanKept

-----------------------------------------------------------------------------
(* Types.                                                                  *)

\* The places of each service.
LEMMA PlacesOf ==
  /\ Places(CC) = {"off", "options", "drop", "done"}
  /\ Places(FR) = {"off", "test", "database", "extra_modules", "upgrade", "set_clean",
                   "reset", "done"}
  /\ Places(SU) = {"off", "wait", "version", "test", "clean", "reset_clean", "local",
                   "online", "final", "done"}
  /\ Places("others") = {"off", "wait", "info", "config"}
  BY DEF Places, CC, FR, SU

\* A place a script goes to is one of its own.
LEMMA GoesToType ==
  ASSUME TypeOK, NEW s \in Services, NEW place \in Places(s), GoesTo(s, place)
  PROVE  /\ at' \in [Services -> UNION {Places(t) : t \in Services}]
         /\ \A t \in Services : at'[t] \in Places(t)
         /\ at'[s] = place
         /\ \A t \in Services : t # s => at'[t] = at[t]
<1>1. at' = [at EXCEPT ![s] = place]
  BY DEF GoesTo
<1>2. at \in [Services -> UNION {Places(t) : t \in Services}]
  BY DEF TypeOK
<1>3. place \in UNION {Places(t) : t \in Services}
  OBVIOUS
<1> QED
  BY <1>1, <1>2, <1>3 DEF TypeOK

\* The step of a script that decides: what it does to bashio's variables.
LEMMA DecidesType ==
  ASSUME TypeOK, NEW s \in Services, NEW place, Decides(s, place)
  PROVE  /\ GoesTo(s, place)
         /\ call' \in [Services -> {"read", "keep", "use", "flush"}]
         /\ got' \in [Services -> Options]
         /\ call'[s] = "read"
         /\ \A t \in Services : t # s => call'[t] = call[t]
         /\ cache' = cache => Around' \subseteq Around \cup {options'}
<1>1. call' = [call EXCEPT ![s] = "read"] /\ got' = [got EXCEPT ![s] = Default]
  BY DEF Decides
<1>2. cache' = cache => Around' \subseteq Around \cup {options'}
  BY <1>1, LettingGo
<1> QED
  BY <1>1, <1>2, DefaultType DEF Decides, TypeOK

\* The step of a script that posts.
LEMMA PostsType ==
  ASSUME TypeOK, NEW s \in Services, Posts(s)
  PROVE  /\ call' \in [Services -> {"read", "keep", "use", "flush"}]
         /\ got' \in [Services -> Options]
         /\ call'[s] = "flush"
         /\ \A t \in Services : t # s => call'[t] = call[t]
         /\ Around' \subseteq Around \cup {options'}
         /\ UNCHANGED <<setting, running, starts, cache, disk, srat, at, stale, old, asked>>
<1>1. call' = [call EXCEPT ![s] = "flush"] /\ got' = [got EXCEPT ![s] = Default]
  BY DEF Posts
<1>2. Around' \subseteq Around \cup {options'}
  BY <1>1, LettingGo DEF Posts
<1> QED
  BY <1>1, <1>2, DefaultType DEF Posts, TypeOK

-----------------------------------------------------------------------------
(* Every step keeps the invariant.                                         *)

\* Nothing has been asked for yet.
LEMMA IInvInit ==
  ASSUME FactoryResetConstants, Init
  PROVE  IInv
<1>1. 0 \in 0..Starts
  BY SMT DEF FactoryResetConstants
<1>2. setting \in Setting /\ setting.deprecated \in SUBSET OldKeys
  BY DEF FactoryResetConstants, Init, Setting
<1>3. options \in Options
  BY <1>2, DefaultType DEF Init
<1>4. upgrade \in [{DataDir, ConfigDir} -> {None, Latest}]
  BY DEF Init
<1>5. /\ at \in [Services -> UNION {Places(s) : s \in Services}]
      /\ \A s \in Services : at[s] \in Places(s)
  <2>1. \A s \in Services : "off" \in Places(s)
    BY DEF Places
  <2> QED
    BY <2>1 DEF Init, AllOff
<1>6. /\ call \in [Services -> {"read", "keep", "use", "flush"}]
      /\ got \in [Services -> Options] /\ cache \in [Entries -> SUBSET Options]
  BY DefaultType DEF Init, NoCall, GotNone, NoCache
<1>7. TypeOK
  BY <1>1, <1>3, <1>4, <1>5, <1>6 DEF Init, TypeOK, Versions
<1>8. Stages
  BY DEF Init, Stages, AllOff, NoCall, CC, FR, SU, Services
<1>9. Pending
  BY DEF Init, Pending
<1>10. Untroubled
  <2>1. Around = {options}
    BY <1>3 DEF Around, Init, NoCache, NoCall
  <2> QED
    BY <2>1 DEF Untroubled, OneValue, Posted, Init, AllOff, NoCall, FR, Services
<1> QED
  BY <1>7, <1>8, <1>9, <1>10 DEF IInv, Init

\* A step of bashio: what it reads is around, what it flushes is wanted no more.
LEMMA BashioKeeps ==
  ASSUME IInv, Bashio
  PROVE  IInv'
<1> USE DEF IInv
<1>1. PICK s \in Services : Hit(s) \/ Get(s) \/ Keep(s) \/ Flush(s)
  BY DEF Bashio
<1>2. /\ UNCHANGED <<setting, running, starts, options, disk, srat, stale, old, asked, beside>>
      /\ UNCHANGED keys
  BY <1>1 DEF Bashio, Hit, Get, Keep, Flush
<1>3. Around' \subseteq Around
  BY <1>1, <1>2, BashioAround
<1>4. /\ ResetWanted => ResetWanted'
      /\ CleanWanted => CleanWanted'
      /\ NoReset => NoReset'
      /\ OneValue => OneValue'
  BY <1>2, <1>3, AllKept
<1>5. CASE Hit(s) \/ Get(s) \/ Keep(s)
  <2>1. UNCHANGED at
    BY <1>5 DEF Hit, Get, Keep
  <2>2. /\ call' \in [Services -> {"read", "keep", "use", "flush"}]
        /\ \A t \in Services : t # s => call'[t] = call[t]
        /\ call'[s] \in {"keep", "use"} /\ at[s] \in ReadPlaces /\ call[s] # "flush"
    BY <1>5 DEF Hit, Get, Keep, TypeOK, Stages
  <2>3. got' \in [Services -> Options] /\ cache' \in [Entries -> SUBSET Options]
    <3>1. Entry(s) \in Entries
      BY DEF Entry, Entries
    <3>2. CASE Hit(s)
      BY <3>1, <3>2 DEF Hit, TypeOK
    <3>3. CASE Get(s)
      BY <3>3 DEF Get, TypeOK
    <3>4. CASE Keep(s)
      BY <3>1, <3>4 DEF Keep, TypeOK
    <3> QED
      BY <1>5, <3>2, <3>3, <3>4
  <2>4. TypeOK'
    BY <1>2, <2>1, <2>2, <2>3 DEF TypeOK, disk
  <2>5. at[s] # "off"
    BY <2>2 DEF ReadPlaces
  <2>6. Stages'
    BY <1>2, <2>1, <2>2, <2>5 DEF Stages
  <2>7. Pending'
    BY <1>2, <1>4, <2>1 DEF Pending
  <2>8. Posted' = Posted
    BY <2>1, <2>2 DEF Posted, Services, FR, TypeOK
  <2>9. Untroubled'
    BY <1>2, <1>4, <2>1, <2>8 DEF Untroubled
  <2> QED
    BY <1>2, <2>4, <2>6, <2>7, <2>9
<1>6. CASE Flush(s)
  <2>1. NextPlace(s) \in Places(s) /\ NextPlace(s) # "off" /\ at[s] \in PostPlaces
    BY <1>6 DEF Flush, NextPlace, Places, TypeOK, Stages, PostPlaces, Services, CC, FR, SU
  <2>2. /\ at' \in [Services -> UNION {Places(t) : t \in Services}]
        /\ \A t \in Services : at'[t] \in Places(t)
        /\ at'[s] = NextPlace(s)
        /\ \A t \in Services : t # s => at'[t] = at[t]
    BY <1>6, <2>1, GoesToType DEF Flush
  <2>3. /\ call' \in [Services -> {"read", "keep", "use", "flush"}]
        /\ \A t \in Services : t # s => call'[t] = call[t]
        /\ call[s] = "flush" /\ call'[s] = "read"
    BY <1>6 DEF Flush, TypeOK
  <2>4. cache' = NoCache /\ cache' \in [Entries -> SUBSET Options] /\ UNCHANGED got
    BY <1>6 DEF Flush, NoCache
  <2>5. TypeOK'
    BY <1>2, <2>2, <2>3, <2>4 DEF TypeOK, disk
  <2>6. s = FR => at[FR] # "done" /\ at[FR] \in {"set_clean", "reset"}
    BY <2>1 DEF PostPlaces, TypeOK, Places, CC, FR, SU, Services
  <2>7. Stages'
    BY <1>2, <2>1, <2>2, <2>3, <2>4, <2>6
    DEF Stages, PostPlaces, NextPlace, Services, CC, FR, SU
  <2>8. s = SU => at[SU] = "reset_clean"
    BY <2>1 DEF PostPlaces, TypeOK, Places, CC, FR, SU, Services
  <2>9. Pending'
    BY <1>2, <1>4, <2>1, <2>2, <2>6, <2>8 DEF Pending, Stages, NextPlace, Services, CC, FR, SU
  <2>10. CASE s # FR
    <3>1. at'[FR] = at[FR] /\ call'[FR] = call[FR]
      BY <2>2, <2>3, <2>10 DEF Services, FR
    <3>2. at[CC] = "done" => at'[CC] = "done"
      <4>1. at[CC] = "done" => s # CC
        BY <2>1 DEF PostPlaces
      <4> QED
        BY <2>2, <4>1 DEF Services, CC
    <3>3. Untroubled'
      BY <1>2, <1>4, <3>1, <3>2 DEF Untroubled, Posted
    <3> QED
      BY <1>2, <2>5, <2>7, <2>9, <3>3
  <2>11. CASE s = FR /\ at[FR] = "reset"
    <3>1. Posted /\ at'[FR] = "done"
      BY <2>2, <2>3, <2>11 DEF Posted, NextPlace
    <3>2. SUFFICES ASSUME asked = FALSE, beside = FALSE PROVE NoReset'
      BY <1>2, <2>5, <2>7, <2>9, <3>1 DEF Untroubled, Posted
    <3>3. options.factory_reset = FALSE /\ at[CC] = "done"
      BY <3>1, <3>2 DEF Untroubled
    <3>4. \A t \in Services : call'[t] \notin {"keep", "use"}
      <4>1. at[SU] \in {"off", "wait"} /\ at["others"] \in {"off", "wait"}
        BY <2>11 DEF Stages
      <4> QED
        BY <2>3, <2>11, <3>3, <4>1 DEF Stages, ReadPlaces, Services, CC, FR, SU
    <3>5. \A o \in Around' : o = options
      BY <1>2, <2>4, <3>4 DEF Around, NoCache
    <3> QED
      BY <3>3, <3>5 DEF NoReset
  <2>12. CASE s = FR /\ at[FR] = "set_clean"
    <3>1. at'[FR] = "reset" /\ ~Posted' /\ ~Posted
      BY <2>2, <2>3, <2>12 DEF Posted, NextPlace
    <3>2. Untroubled'
      BY <1>2, <1>4, <2>12, <3>1 DEF Untroubled
    <3> QED
      BY <1>2, <2>5, <2>7, <2>9, <3>2
  <2> QED
    BY <2>6, <2>10, <2>11, <2>12
<1> QED
  BY <1>1, <1>5, <1>6

\* A step of clean-config: what it posts back holds every request that has not been
\* served.
LEMMA CleanConfigKeeps ==
  ASSUME IInv, CleanConfig
  PROVE  IInv'
<1> USE DEF IInv
<1>1. CC \in Services /\ CC # FR /\ CC # SU /\ CC # "others"
  BY DEF Services, CC, FR, SU
<1>2. CASE CleanConfigReads
  <2>1. /\ Uses(CC, "options") /\ Quiet /\ UNCHANGED <<disk, srat, old>>
        /\ keys' \subseteq OldKeys
    BY <1>1, <1>2 DEF CleanConfigReads, TypeOK, Options
  <2>2. PICK place \in {"done", "drop"} : Decides(CC, place)
    BY <1>2 DEF CleanConfigReads
  <2>3. /\ GoesTo(CC, place)
        /\ call' \in [Services -> {"read", "keep", "use", "flush"}]
        /\ got' \in [Services -> Options]
        /\ call'[CC] = "read"
        /\ \A t \in Services : t # CC => call'[t] = call[t]
        /\ cache' = cache => Around' \subseteq Around \cup {options'}
    BY <1>1, <2>2, DecidesType
  <2>4. place \in Places(CC)
    BY PlacesOf
  <2>5. /\ at' \in [Services -> UNION {Places(t) : t \in Services}]
        /\ \A t \in Services : at'[t] \in Places(t)
        /\ at'[CC] = place
        /\ \A t \in Services : t # CC => at'[t] = at[t]
    BY <1>1, <2>3, <2>4, GoesToType
  <2>6. TypeOK'
    BY <2>1, <2>3, <2>5 DEF TypeOK, Quiet, disk
  <2>7. /\ ResetWanted => ResetWanted'
        /\ CleanWanted => CleanWanted'
        /\ NoReset => NoReset'
        /\ OneValue => OneValue'
    BY <2>1, <2>3, AllKept, HeldIsAround DEF Quiet
  <2>8. Stages'
    BY <1>1, <2>1, <2>3, <2>5 DEF Stages, Quiet, Uses, Services
  <2>9. at'[FR] = at[FR] /\ at'[SU] = at[SU] /\ call'[FR] = call[FR]
    BY <1>1, <2>3, <2>5 DEF Services, FR, SU
  <2>10. Pending'
    BY <2>1, <2>7, <2>9 DEF Pending, Quiet
  <2>11. Untroubled'
    BY <2>1, <2>7, <2>9 DEF Untroubled, Posted, Quiet, Uses
  <2> QED
    BY <2>1, <2>6, <2>8, <2>10, <2>11
<1>3. CASE CleanConfigPosts
  <2>1. Uses(CC, "drop") /\ Posts(CC) /\ UNCHANGED beside
    BY <1>3 DEF CleanConfigPosts
  <2>2. PICK key \in keys : /\ options' = [got[CC] EXCEPT !.deprecated = @ \ {key}]
                            /\ keys' = keys \ {key}
    BY <1>3 DEF CleanConfigPosts
  <2>3. got[CC] \in Options /\ got[CC] \in Around
    BY <1>1, <2>1, HeldIsAround DEF TypeOK, Uses
  <2>4. /\ options' \in Options /\ options'.factory_reset = got[CC].factory_reset
        /\ options'.clean_upgrade_dir = got[CC].clean_upgrade_dir
    BY <2>2, <2>3, SetOption
  <2>5. /\ call' \in [Services -> {"read", "keep", "use", "flush"}]
        /\ got' \in [Services -> Options]
        /\ call'[CC] = "flush"
        /\ \A t \in Services : t # CC => call'[t] = call[t]
        /\ Around' \subseteq Around \cup {options'}
        /\ UNCHANGED <<setting, running, starts, cache, disk, srat, at, stale, old, asked>>
    BY <1>1, <2>1, PostsType
  <2>6. TypeOK'
    BY <2>2, <2>4, <2>5, <2>1 DEF TypeOK, disk
  <2>7. /\ ResetWanted => ResetWanted'
        /\ CleanWanted => CleanWanted'
        /\ NoReset => NoReset'
        /\ OneValue => OneValue'
    BY <2>3, <2>4, <2>5, ResetKept, CleanKept
  <2>8. Stages'
    BY <1>1, <2>1, <2>5 DEF Stages, Uses, PostPlaces, Services
  <2>9. Pending'
    BY <2>5, <2>7 DEF Pending
  <2>10. Untroubled'
    <3>1. call'[FR] = call[FR]
      BY <1>1, <2>5 DEF Services, FR
    <3>2. at[CC] # "done"
      BY <2>1 DEF Uses
    <3> QED
      BY <2>1, <2>5, <2>7, <3>1, <3>2 DEF Untroubled, Posted
  <2> QED
    BY <2>5, <2>6, <2>8, <2>9, <2>10
<1> QED
  BY <1>2, <1>3 DEF CleanConfig

\* A removal of factory-reset: it leaves nothing of what it is there to remove.
LEMMA RemovesKeeps ==
  ASSUME IInv, NEW from, NEW to, NEW x, Removes(from, to, x),
         <<from, to, x>> \in {<<"database", "extra_modules", "database">>,
                              <<"extra_modules", "upgrade", "extra_modules">>,
                              <<"upgrade", "set_clean", "upgrade">>},
         options' = options, data' \subseteq data,
         upgrade' \in [{DataDir, ConfigDir} -> {None, Latest}]
  PROVE  IInv'
<1> USE DEF IInv
<1>1. FR \in Services /\ CC # FR /\ FR # SU /\ FR # "others" /\ CC \in Services /\ SU \in Services
  BY DEF Services, CC, FR, SU
<1>2. to \in Places(FR) /\ GoesTo(FR, to) /\ at[FR] = from
  BY DEF Removes, Places, CC, FR, SU
<1>3. /\ at' \in [Services -> UNION {Places(t) : t \in Services}]
      /\ \A t \in Services : at'[t] \in Places(t)
      /\ at'[FR] = to
      /\ \A t \in Services : t # FR => at'[t] = at[t]
  BY <1>1, <1>2, GoesToType
<1>4. /\ UNCHANGED <<setting, running, starts, cache, srat, call, got, keys, old, asked, beside>>
      /\ stale' = stale \ {x}
  BY DEF Removes
<1>5. TypeOK'
  BY <1>3, <1>4 DEF TypeOK
<1>6. Around' = Around
  BY <1>4, StillAround
<1>7. /\ ResetWanted => ResetWanted'
      /\ CleanWanted => CleanWanted'
      /\ NoReset => NoReset'
      /\ OneValue => OneValue'
  BY <1>6, AllKept
<1>8. call[FR] = "read"
  BY <1>1, <1>2 DEF Stages, TypeOK, ReadPlaces, PostPlaces
<1>9. Stages'
  BY <1>1, <1>2, <1>3, <1>4, <1>8 DEF Stages, Services
<1>10. Pending'
  BY <1>1, <1>2, <1>3, <1>4, <1>7 DEF Pending, Stages
<1>11. Untroubled'
  BY <1>1, <1>2, <1>3, <1>4, <1>7, <1>8 DEF Untroubled, Posted
<1> QED
  BY <1>4, <1>5, <1>9, <1>10, <1>11

\* factory-reset's test, its removals and its two POSTs: nothing is passed over, and
\* the request is reset when nothing is left of it.
LEMMA ResetKeeps ==
  ASSUME IInv, ResetAll
  PROVE  IInv'
<1> USE DEF IInv
<1>1. FR \in Services /\ CC # FR /\ FR # SU /\ FR # "others" /\ CC \in Services /\ SU \in Services
  BY DEF Services, CC, FR, SU
<1>2. CASE TestFactoryReset
  <2>1. Uses(FR, "test") /\ Quiet /\ UNCHANGED <<keys, disk, srat, old>>
    BY <1>2 DEF TestFactoryReset
  <2>2. PICK place : /\ place = IF got[FR].factory_reset THEN "database" ELSE "done"
                     /\ Decides(FR, place)
    BY <1>2 DEF TestFactoryReset
  <2>3. /\ GoesTo(FR, place)
        /\ call' \in [Services -> {"read", "keep", "use", "flush"}]
        /\ got' \in [Services -> Options]
        /\ call'[FR] = "read"
        /\ \A t \in Services : t # FR => call'[t] = call[t]
        /\ cache' = cache => Around' \subseteq Around \cup {options'}
    BY <1>1, <2>2, DecidesType
  <2>4. place \in Places(FR)
    BY <2>2, PlacesOf
  <2>5. /\ at' \in [Services -> UNION {Places(t) : t \in Services}]
        /\ \A t \in Services : at'[t] \in Places(t)
        /\ at'[FR] = place
        /\ \A t \in Services : t # FR => at'[t] = at[t]
    BY <1>1, <2>3, <2>4, GoesToType
  <2>6. TypeOK'
    BY <2>1, <2>3, <2>5 DEF TypeOK, Quiet, disk
  <2>7. /\ ResetWanted => ResetWanted'
        /\ CleanWanted => CleanWanted'
        /\ NoReset => NoReset'
        /\ OneValue => OneValue'
    BY <2>1, <2>3, AllKept, HeldIsAround DEF Quiet
  <2>8. at[FR] = "test" /\ place # "off" /\ at[SU] \in {"off", "wait"}
        /\ at["others"] \in {"off", "wait"}
    BY <2>1, <2>2 DEF Uses, Stages
  <2>9. Stages'
    BY <1>1, <2>1, <2>3, <2>5, <2>8 DEF Stages, Quiet, Services
  <2>10. got[FR] \in Around /\ got[FR].factory_reset \in BOOLEAN
    BY <1>1, <2>1, HeldIsAround DEF Uses, TypeOK, Options
  <2>11. ResetWanted => place = "database"
    BY <2>2, <2>10 DEF ResetWanted
  <2>12. Pending'
    BY <1>1, <2>1, <2>2, <2>5, <2>7, <2>8, <2>11 DEF Pending, Quiet
  <2>13. OneValue /\ place = "done" => NoReset'
    <3>1. OneValue /\ place = "done" => got[FR].factory_reset = FALSE
      BY <2>2, <2>10
    <3>2. OneValue /\ place = "done" => NoReset
      BY <2>10, <3>1 DEF OneValue, NoReset
    <3> QED
      BY <2>7, <3>2
  <2>14. Untroubled'
    BY <2>1, <2>2, <2>3, <2>5, <2>7, <2>8, <2>13 DEF Untroubled, Posted, Quiet
  <2> QED
    BY <2>1, <2>6, <2>9, <2>12, <2>14
<1>3. CASE RemoveDatabase
  <2>1. /\ Removes("database", "extra_modules", "database")
        /\ options' = options /\ data' \subseteq data /\ upgrade' = upgrade
    BY <1>3 DEF RemoveDatabase
  <2> QED
    BY <2>1, RemovesKeeps DEF TypeOK
<1>4. CASE RemoveExtraModules
  <2>1. /\ Removes("extra_modules", "upgrade", "extra_modules")
        /\ options' = options /\ data' \subseteq data /\ upgrade' = upgrade
    BY <1>4 DEF RemoveExtraModules
  <2> QED
    BY <2>1, RemovesKeeps DEF TypeOK
<1>5. CASE RemoveUpgrade
  <2>1. /\ Removes("upgrade", "set_clean", "upgrade")
        /\ options' = options /\ data' \subseteq data
    BY <1>5 DEF RemoveUpgrade
  <2>2. upgrade' \in [{DataDir, ConfigDir} -> {None, Latest}]
    BY <1>5 DEF RemoveUpgrade, TypeOK
  <2> QED
    BY <2>1, <2>2, RemovesKeeps
<1>6. ASSUME Posts(FR), UNCHANGED keys, call[FR] = "use", at[FR] \in {"set_clean", "reset"},
             options' \in Options, beside' \in BOOLEAN
      PROVE  /\ TypeOK' /\ Stages' /\ Pending' /\ old' = FALSE
             /\ at' = at /\ call'[FR] = "flush" /\ asked' = asked
             /\ Around' \subseteq Around \cup {options'}
  <2>1. /\ call' \in [Services -> {"read", "keep", "use", "flush"}]
        /\ got' \in [Services -> Options]
        /\ call'[FR] = "flush"
        /\ \A t \in Services : t # FR => call'[t] = call[t]
        /\ Around' \subseteq Around \cup {options'}
        /\ UNCHANGED <<setting, running, starts, cache, disk, srat, at, stale, old, asked>>
    BY <1>1, <1>6, PostsType
  <2>2. TypeOK'
    BY <1>6, <2>1 DEF TypeOK, disk
  <2>3. "database" \notin stale /\ "extra_modules" \notin stale /\ "upgrade" \notin stale
    BY <1>6 DEF Pending
  <2>4. Stages'
    BY <1>1, <1>6, <2>1 DEF Stages, PostPlaces, Services
  <2>5. Pending'
    BY <2>1, <2>3 DEF Pending
  <2> QED
    BY <2>1, <2>2, <2>4, <2>5
<1>7. got[FR] \in Options
  BY <1>1 DEF TypeOK
<1>8. CASE SetCleanUpgradeDir
  <2>1. /\ Uses(FR, "set_clean") /\ Posts(FR) /\ UNCHANGED <<keys, beside>>
        /\ options' = options \/ options' = [got[FR] EXCEPT !.clean_upgrade_dir = TRUE]
    BY <1>8 DEF SetCleanUpgradeDir, PostFails
  <2>2. PICK g \in Around : options' \in Options /\ options'.factory_reset = g.factory_reset
    <3>1. got[FR] \in Around /\ options \in Around
      BY <1>1, <2>1, HeldIsAround DEF Uses
    <3>2. CASE options' = options
      BY <3>1, <3>2 DEF TypeOK
    <3>3. CASE options' = [got[FR] EXCEPT !.clean_upgrade_dir = TRUE]
      BY <1>7, <3>1, <3>3, SetOption
    <3> QED
      BY <2>1, <3>2, <3>3
  <2>3. /\ TypeOK' /\ Stages' /\ Pending' /\ old' = FALSE
        /\ at' = at /\ call'[FR] = "flush" /\ asked' = asked
        /\ Around' \subseteq Around \cup {options'}
    BY <1>6, <2>1, <2>2 DEF Uses, TypeOK
  <2>4. (NoReset => NoReset') /\ (OneValue => OneValue')
    BY <2>2, <2>3, ResetKept
  <2>5. Untroubled'
    BY <2>1, <2>3, <2>4 DEF Untroubled, Posted, Uses
  <2> QED
    BY <2>3, <2>5
<1>9. CASE ResetFactoryReset
  <2>1. Uses(FR, "reset") /\ Posts(FR) /\ UNCHANGED keys /\ beside' \in BOOLEAN
    BY <1>9 DEF ResetFactoryReset
  <2>2. /\ options' \in Options
        /\ beside' = FALSE => options'.factory_reset = FALSE /\ at[CC] = "done"
    <3>1. CASE PostFails /\ beside' = TRUE
      BY <3>1 DEF PostFails, TypeOK
    <3>2. CASE /\ options' = [got[FR] EXCEPT !.factory_reset = FALSE]
               /\ beside' = (at[CC] # "done")
      BY <1>7, <3>2, SetOption
    <3> QED
      BY <1>9, <3>1, <3>2 DEF ResetFactoryReset
  <2>3. /\ TypeOK' /\ Stages' /\ Pending' /\ old' = FALSE
        /\ at' = at /\ call'[FR] = "flush" /\ asked' = asked
    BY <1>6, <2>1, <2>2 DEF Uses
  <2>4. Untroubled'
    BY <2>1, <2>2, <2>3 DEF Untroubled, Posted, Uses
  <2> QED
    BY <2>3, <2>4
<1> QED
  BY <1>2, <1>3, <1>4, <1>5, <1>8, <1>9 DEF ResetAll

\* A step of check-srat-update that neither reads nor posts.
LEMMA UpdateMoves ==
  ASSUME IInv, NEW to \in Places(SU), GoesTo(SU, to), Quiet, UNCHANGED <<call, got, keys>>,
         at[FR] = "done", to # "off", running # FALSE, data' = data,
         at[SU] \in {"wait", "local", "online", "final"},
         "upgrade" \in stale => to = "version",
         upgrade' \in [{DataDir, ConfigDir} -> {None, Latest}],
         srat' \in Versions, old' = FALSE
  PROVE  IInv'
<1> USE DEF IInv
<1>1. FR \in Services /\ CC # FR /\ FR # SU /\ SU # CC /\ SU # "others" /\ SU \in Services
      /\ CC \in Services
  BY DEF Services, CC, FR, SU
<1>2. /\ at' \in [Services -> UNION {Places(t) : t \in Services}]
      /\ \A t \in Services : at'[t] \in Places(t)
      /\ at'[SU] = to
      /\ \A t \in Services : t # SU => at'[t] = at[t]
  BY <1>1, GoesToType
<1>3. TypeOK'
  BY <1>2 DEF TypeOK, Quiet
<1>4. Around' = Around
  BY StillAround DEF Quiet
<1>5. /\ ResetWanted => ResetWanted'
      /\ CleanWanted => CleanWanted'
      /\ NoReset => NoReset'
      /\ OneValue => OneValue'
  BY <1>4, AllKept DEF Quiet
<1>6. call[SU] = "read"
  BY <1>1 DEF Stages, TypeOK, ReadPlaces, PostPlaces
<1>7. Stages'
  BY <1>1, <1>2, <1>6 DEF Stages, Quiet, Services
<1>8. Pending'
  BY <1>1, <1>2, <1>5 DEF Pending, Quiet
<1>9. Untroubled'
  BY <1>1, <1>2, <1>5 DEF Untroubled, Posted, Quiet
<1> QED
  BY <1>3, <1>7, <1>8, <1>9

\* A service but factory-reset goes on with what it has read.
LEMMA DecidesKeeps ==
  ASSUME IInv, NEW s \in {SU, "others"}, NEW from, NEW to \in Places(s), Uses(s, from),
         Decides(s, to), Quiet, UNCHANGED <<keys, disk, srat, old>>, to # "off",
         s = SU /\ "upgrade" \in stale => to \in {"test", "clean"} \/ ~CleanWanted,
         at[FR] = "done"
  PROVE  IInv'
<1> USE DEF IInv
<1>1. /\ s \in Services /\ FR \in Services /\ CC # FR /\ s # FR /\ s # CC
      /\ CC \in Services /\ SU \in Services /\ SU # "others"
  BY DEF Services, CC, FR, SU
<1>2. /\ GoesTo(s, to)
      /\ call' \in [Services -> {"read", "keep", "use", "flush"}]
      /\ got' \in [Services -> Options]
      /\ call'[s] = "read"
      /\ \A t \in Services : t # s => call'[t] = call[t]
      /\ cache' = cache => Around' \subseteq Around \cup {options'}
  BY <1>1, DecidesType
<1>3. /\ at' \in [Services -> UNION {Places(t) : t \in Services}]
      /\ \A t \in Services : at'[t] \in Places(t)
      /\ at'[s] = to
      /\ \A t \in Services : t # s => at'[t] = at[t]
  BY <1>1, <1>2, GoesToType
<1>4. TypeOK'
  BY <1>2, <1>3 DEF TypeOK, Quiet, disk
<1>5. /\ ResetWanted => ResetWanted'
      /\ CleanWanted => CleanWanted'
      /\ NoReset => NoReset'
      /\ OneValue => OneValue'
  BY <1>2, AllKept, HeldIsAround DEF Quiet
<1>6. at[s] # "off"
  BY <1>1 DEF Stages, Uses, ReadPlaces
<1>7. Stages'
  BY <1>1, <1>2, <1>3, <1>6 DEF Stages, Quiet
<1>8. Pending'
  BY <1>1, <1>3, <1>5 DEF Pending, Quiet
<1>9. Untroubled'
  BY <1>1, <1>2, <1>3, <1>5 DEF Untroubled, Posted, Quiet
<1> QED
  BY <1>4, <1>7, <1>8, <1>9

\* A step of check-srat-update: no upgrade is stale once it has passed its own
\* cleaning.
LEMMA UpdateKeeps ==
  ASSUME IInv, UpdateSrat
  PROVE  IInv'
<1> USE DEF IInv
<1>1. FR \in Services /\ CC # FR /\ FR # SU /\ SU # CC /\ SU # "others" /\ SU \in Services
      /\ CC \in Services
  BY DEF Services, CC, FR, SU
<1>2. at[SU] # "wait" => at[SU] # "off" /\ at[FR] = "done"
  BY DEF UpdateSrat, ReadVersion, HaveVersion, TestCleanUpgradeDir, CleanUpgradeDir,
         ResetCleanUpgradeDir, UpgradeLocal, UpgradeOnline, UpgradeFinal, UpdateStep, Uses,
         Stages
<1>3. CASE ReadVersion
  <2>1. "version" \in Places(SU)
    BY PlacesOf
  <2>2. /\ at[FR] = "done" /\ at[SU] = "wait" /\ GoesTo(SU, "version")
        /\ Quiet /\ UNCHANGED <<call, got, keys, disk, srat, old>>
    BY <1>3 DEF ReadVersion
  <2>3. running # FALSE
    BY <1>1, <2>2 DEF Stages
  <2>4. /\ upgrade' \in [{DataDir, ConfigDir} -> {None, Latest}]
        /\ data' = data /\ srat' \in Versions /\ old' = FALSE
    BY <2>2 DEF disk, TypeOK
  <2> QED
    BY <2>1, <2>2, <2>3, <2>4, UpdateMoves
<1>4. CASE HaveVersion
  <2>1. "test" \in Places(SU)
    BY PlacesOf
  <2> QED
    BY <1>2, <1>4, <2>1, DecidesKeeps DEF HaveVersion, Uses
<1>5. CASE TestCleanUpgradeDir
  <2>1. PICK place : /\ place = IF got[SU].clean_upgrade_dir THEN "clean" ELSE "local"
                     /\ Decides(SU, place)
    BY <1>5 DEF TestCleanUpgradeDir
  <2>2. /\ Uses(SU, "test") /\ Quiet /\ UNCHANGED <<keys, disk, srat, old>>
    BY <1>5 DEF TestCleanUpgradeDir
  <2>3. place \in Places(SU) /\ place # "off"
    BY <2>1, PlacesOf
  <2>4. CleanWanted => place = "clean"
    BY <1>1, <2>1, <2>2, HeldIsAround DEF CleanWanted, Uses
  <2> QED
    BY <1>2, <2>1, <2>2, <2>3, <2>4, DecidesKeeps DEF Uses
<1>6. CASE CleanUpgradeDir
  <2>1. /\ at[SU] = "clean" /\ GoesTo(SU, "reset_clean") /\ stale' = stale \ {"upgrade"}
        /\ upgrade' \in [{DataDir, ConfigDir} -> {None, Latest}]
        /\ UNCHANGED <<setting, running, starts, options, cache, data, srat, call, got, keys,
                       old, asked, beside>>
    BY <1>6 DEF CleanUpgradeDir, TypeOK
  <2>2. "reset_clean" \in Places(SU)
    BY PlacesOf
  <2>3. /\ at' \in [Services -> UNION {Places(t) : t \in Services}]
        /\ \A t \in Services : at'[t] \in Places(t)
        /\ at'[SU] = "reset_clean"
        /\ \A t \in Services : t # SU => at'[t] = at[t]
    BY <1>1, <2>1, <2>2, GoesToType
  <2>4. TypeOK'
    BY <2>1, <2>3 DEF TypeOK
  <2>5. /\ ResetWanted => ResetWanted'
        /\ NoReset => NoReset'
        /\ OneValue => OneValue'
    BY <2>1, StillAround, AllKept
  <2>6. call[SU] = "read"
    BY <1>1, <2>1 DEF Stages, TypeOK, ReadPlaces, PostPlaces
  <2>7. Stages'
    BY <1>1, <1>2, <2>1, <2>3, <2>6 DEF Stages, Services
  <2>8. Pending'
    BY <1>1, <2>1, <2>3, <2>5 DEF Pending
  <2>9. Untroubled'
    BY <1>1, <2>1, <2>3, <2>5 DEF Untroubled, Posted
  <2> QED
    BY <2>1, <2>4, <2>7, <2>8, <2>9
<1>7. CASE ResetCleanUpgradeDir
  <2>1. /\ Uses(SU, "reset_clean") /\ Posts(SU) /\ UNCHANGED <<keys, beside>>
        /\ options' = options \/ options' = [got[SU] EXCEPT !.clean_upgrade_dir = FALSE]
    BY <1>7 DEF ResetCleanUpgradeDir, PostFails
  <2>2. PICK g \in Around : options' \in Options /\ options'.factory_reset = g.factory_reset
    <3>1. got[SU] \in Around /\ options \in Around /\ got[SU] \in Options
      BY <1>1, <2>1, HeldIsAround DEF Uses, TypeOK
    <3>2. CASE options' = options
      BY <3>1, <3>2 DEF TypeOK
    <3>3. CASE options' = [got[SU] EXCEPT !.clean_upgrade_dir = FALSE]
      BY <3>1, <3>3, SetOption
    <3> QED
      BY <2>1, <3>2, <3>3
  <2>3. /\ call' \in [Services -> {"read", "keep", "use", "flush"}]
        /\ got' \in [Services -> Options]
        /\ call'[SU] = "flush"
        /\ \A t \in Services : t # SU => call'[t] = call[t]
        /\ Around' \subseteq Around \cup {options'}
        /\ UNCHANGED <<setting, running, starts, cache, disk, srat, at, stale, old, asked>>
    BY <1>1, <2>1, PostsType
  <2>4. TypeOK'
    BY <2>1, <2>2, <2>3 DEF TypeOK, disk
  <2>5. Stages'
    BY <1>1, <2>1, <2>3 DEF Stages, Uses, PostPlaces, Services
  <2>6. Pending'
    BY <1>2, <2>1, <2>3 DEF Pending, Uses
  <2>7. (NoReset => NoReset') /\ (OneValue => OneValue')
    BY <2>2, <2>3, ResetKept
  <2>8. Untroubled'
    <3>1. at[FR] = "done" /\ at'[FR] = "done"
      BY <1>2, <2>1, <2>3 DEF Uses
    <3> QED
      BY <2>1, <2>3, <2>7, <3>1 DEF Untroubled, Posted
  <2> QED
    BY <2>3, <2>4, <2>5, <2>6, <2>8
<1>8. ASSUME NEW dir \in {DataDir, ConfigDir}, UpgradeIfNewer(dir), "upgrade" \notin stale
      PROVE  srat' \in Versions /\ old' = FALSE
  <2>1. upgrade[dir] \in {None, Latest}
    BY DEF TypeOK
  <2> QED
    BY <1>8, <2>1 DEF UpgradeIfNewer, TypeOK, Versions
<1>9. CASE UpgradeLocal \/ UpgradeOnline \/ UpgradeFinal
  <2>1. at[SU] \in {"local", "online", "final"}
    BY <1>9 DEF UpgradeLocal, UpgradeOnline, UpgradeFinal, UpdateStep
  <2>2. "upgrade" \notin stale /\ running # FALSE
    BY <1>1, <1>2, <2>1 DEF Pending, Stages
  <2>3. UpgradeDir \in {DataDir, ConfigDir}
    BY DEF UpgradeDir
  <2>4. srat' \in Versions /\ old' = FALSE
    BY <1>8, <1>9, <2>2, <2>3 DEF UpgradeLocal, UpgradeOnline, UpgradeFinal, TypeOK
  <2>5. upgrade' \in [{DataDir, ConfigDir} -> {None, Latest}]
    BY <1>9, <2>3 DEF UpgradeLocal, UpgradeOnline, UpgradeFinal, TypeOK
  <2>6. PICK to \in {"online", "final", "done"} :
          GoesTo(SU, to) /\ Quiet /\ UNCHANGED <<data, call, got, keys>>
    BY <1>9 DEF UpgradeLocal, UpgradeOnline, UpgradeFinal, UpdateStep
  <2>7. to \in Places(SU) /\ to # "off"
    BY PlacesOf
  <2> QED
    BY <1>2, <2>1, <2>2, <2>4, <2>5, <2>6, <2>7, UpdateMoves
<1> QED
  BY <1>3, <1>4, <1>5, <1>6, <1>7, <1>9 DEF UpdateSrat

\* What the others read, and what is written, is of no concern.
LEMMA OthersKeep ==
  ASSUME IInv, OtherReads \/ \E x \in {"database", "extra_modules"} : Write(x)
  PROVE  IInv'
<1> USE DEF IInv
<1>1. FR \in Services /\ FR # "others" /\ CC # "others" /\ SU # "others"
      /\ CC \in Services /\ SU \in Services /\ "others" \in Services
  BY DEF Services, CC, FR, SU
<1>2. CASE \E place \in {"info", "config"} :
             /\ at[FR] = "done" /\ at["others"] = "wait" /\ GoesTo("others", place)
             /\ Quiet /\ UNCHANGED <<call, got, keys, disk, srat, old>>
  <2>1. PICK place \in {"info", "config"} :
             /\ at[FR] = "done" /\ at["others"] = "wait" /\ GoesTo("others", place)
             /\ Quiet /\ UNCHANGED <<call, got, keys, disk, srat, old>>
    BY <1>2
  <2>2. place \in Places("others")
    BY PlacesOf
  <2>3. /\ at' \in [Services -> UNION {Places(t) : t \in Services}]
        /\ \A t \in Services : at'[t] \in Places(t)
        /\ at'["others"] = place
        /\ \A t \in Services : t # "others" => at'[t] = at[t]
    BY <1>1, <2>1, <2>2, GoesToType
  <2>4. TypeOK'
    BY <2>1, <2>3 DEF TypeOK, Quiet, disk
  <2>5. /\ ResetWanted => ResetWanted'
        /\ CleanWanted => CleanWanted'
        /\ NoReset => NoReset'
        /\ OneValue => OneValue'
    BY <2>1, StillAround, AllKept DEF Quiet
  <2>6. call["others"] = "read"
    BY <1>1, <2>1 DEF Stages, TypeOK, ReadPlaces, PostPlaces
  <2>7. Stages'
    BY <1>1, <2>1, <2>3, <2>6 DEF Stages, Quiet
  <2>8. Pending'
    BY <1>1, <2>1, <2>3, <2>5 DEF Pending, Quiet
  <2>9. Untroubled'
    BY <1>1, <2>1, <2>3, <2>5 DEF Untroubled, Posted, Quiet
  <2> QED
    BY <2>1, <2>4, <2>7, <2>8, <2>9
<1>3. CASE \E place \in {"info", "config"} :
             /\ Uses("others", place) /\ Decides("others", "wait")
             /\ Quiet /\ UNCHANGED <<keys, disk, srat, old>>
  <2>1. PICK place \in {"info", "config"} :
             /\ Uses("others", place) /\ Decides("others", "wait")
             /\ Quiet /\ UNCHANGED <<keys, disk, srat, old>>
    BY <1>3
  <2>2. "wait" \in Places("others") /\ at[FR] = "done"
    BY <2>1, PlacesOf DEF Uses, Stages
  <2> QED
    BY <1>1, <2>1, <2>2, DecidesKeeps
<1>4. CASE \E x \in {"database", "extra_modules"} : Write(x)
  <2>1. /\ Quiet /\ UNCHANGED <<services, upgrade, srat, old>>
        /\ data' \subseteq {"database", "extra_modules"}
    BY <1>4 DEF Write, TypeOK
  <2>2. TypeOK'
    BY <2>1 DEF TypeOK, Quiet, services
  <2>3. /\ ResetWanted => ResetWanted'
        /\ CleanWanted => CleanWanted'
        /\ NoReset => NoReset'
        /\ OneValue => OneValue'
    BY <2>1, StillAround, AllKept DEF Quiet, services
  <2>4. Stages'
    BY <2>1 DEF Stages, Quiet, services
  <2>5. Pending'
    BY <2>1, <2>3 DEF Pending, Quiet, services
  <2>6. Untroubled'
    BY <2>1, <2>3 DEF Untroubled, Posted, Quiet, services
  <2> QED
    BY <2>1, <2>2, <2>4, <2>5, <2>6
<1> QED
  BY <1>2, <1>3, <1>4 DEF OtherReads

\* A start looks at what the options ask for; nobody holds others yet.
LEMMA StartKeeps ==
  ASSUME FactoryResetConstants, IInv, Start
  PROVE  IInv'
<1> USE DEF IInv
<1>1. FR \in Services /\ CC \in Services /\ SU \in Services /\ "others" \in Services
      /\ CC # FR /\ SU # CC /\ SU # FR /\ "others" \notin {CC, FR, SU}
  BY DEF Services, CC, FR, SU
<1>2. starts' \in 0..Starts
  BY SMT DEF Start, FactoryResetConstants, TypeOK
<1>3. /\ at'[CC] = "options" /\ at'[FR] = "test" /\ at'[SU] = "wait" /\ at'["others"] = "wait"
      /\ \A s \in Services : FirstPlace(s) \in Places(s) /\ FirstPlace(s) # "off"
  BY <1>1 DEF Start, FirstPlace, Places, CC, FR, SU
<1>4. /\ at' \in [Services -> UNION {Places(s) : s \in Services}]
      /\ \A s \in Services : at'[s] \in Places(s) /\ at'[s] # "off"
  BY <1>3 DEF Start
<1>5. stale' \subseteq {"database", "extra_modules", "upgrade"}
  BY DEF Start, TypeOK, ToRemove, Downloaded
<1>6. TypeOK'
  BY <1>2, <1>4, <1>5 DEF Start, TypeOK, Versions, disk
<1>7. running = FALSE /\ running' = TRUE /\ (\A s \in Services : at[s] = "off")
      /\ cache = NoCache /\ asked = FALSE /\ beside = FALSE
  BY DEF Start, Stages
<1>8. \A s \in Services : call[s] = "read"
  BY <1>7 DEF Stages, TypeOK, ReadPlaces, PostPlaces
<1>9. Stages'
  BY <1>1, <1>3, <1>4, <1>7, <1>8 DEF Start, Stages
<1>10. Around = {options} /\ Around' = Around
  BY <1>7, <1>8 DEF Start, Around, NoCache, TypeOK
<1>11. /\ ResetWanted' = ResetWanted /\ CleanWanted' = CleanWanted
       /\ options.factory_reset => ResetWanted
       /\ options.clean_upgrade_dir => CleanWanted
  BY <1>10 DEF ResetWanted, CleanWanted
<1>12. /\ "database" \in stale' => "database" \in stale \/ options.factory_reset
       /\ "extra_modules" \in stale' => "extra_modules" \in stale \/ options.factory_reset
       /\ "upgrade" \in stale' =>
            "upgrade" \in stale \/ options.factory_reset \/ options.clean_upgrade_dir
  BY DEF Start, ToRemove, Downloaded, TypeOK
<1>13. Pending'
  BY <1>1, <1>3, <1>11, <1>12 DEF Pending
<1>14. OneValue' /\ ~Posted'
  BY <1>3, <1>8, <1>10 DEF OneValue, Posted, Start
<1>15. Untroubled'
  BY <1>3, <1>14 DEF Untroubled
<1> QED
  BY <1>6, <1>9, <1>13, <1>15 DEF Start

\* A stop forgets what was read.
LEMMA StopKeeps ==
  ASSUME IInv, Stop
  PROVE  IInv'
<1> USE DEF IInv
<1>1. FR \in Services /\ CC \in Services /\ SU \in Services /\ "others" \in Services
  BY DEF Services, CC, FR, SU
<1>2. /\ at' \in [Services -> UNION {Places(s) : s \in Services}]
      /\ \A s \in Services : at'[s] \in Places(s) /\ at'[s] = "off" /\ call'[s] = "read"
  <2>1. \A s \in Services : "off" \in Places(s)
    BY DEF Places
  <2> QED
    BY <2>1 DEF Stop, AllOff, NoCall
<1>3. /\ call' \in [Services -> {"read", "keep", "use", "flush"}]
      /\ got' \in [Services -> Options] /\ cache' \in [Entries -> SUBSET Options]
      /\ cache' = NoCache
  BY DefaultType DEF Stop, NoCall, GotNone, NoCache
<1>4. TypeOK'
  BY <1>2, <1>3 DEF Stop, TypeOK, disk
<1>5. Stages'
  BY <1>1, <1>2, <1>3 DEF Stop, Stages
<1>6. Around' = {options} /\ options' = options
  BY <1>2, <1>3 DEF Stop, Around, NoCache, TypeOK
<1>7. (ResetWanted => ResetWanted') /\ (CleanWanted => CleanWanted') /\ OneValue'
  BY <1>6, HeldIsAround DEF ResetWanted, CleanWanted, OneValue
<1>8. Pending'
  BY <1>1, <1>2, <1>7 DEF Stop, Pending
<1>9. Untroubled'
  BY <1>1, <1>2, <1>7 DEF Untroubled, Posted
<1> QED
  BY <1>4, <1>5, <1>8, <1>9 DEF Stop

\* The owner's requests only add.
LEMMA AskKeeps ==
  ASSUME IInv, AskFactoryReset \/ AskCleanUpgradeDir
  PROVE  IInv'
<1> USE DEF IInv
<1>1. UNCHANGED <<setting, running, starts, cache, disk, srat, services, stale, old, beside>>
  BY DEF AskFactoryReset, AskCleanUpgradeDir
<1>2. Around' \subseteq Around \cup {options'}
  BY <1>1 DEF Around, services
<1>3. FR \in Services
  BY DEF Services, FR
<1>4. CASE AskFactoryReset
  <2>1. options' = [options EXCEPT !.factory_reset = TRUE] /\ asked' = running
        /\ running' = running
    BY <1>4 DEF AskFactoryReset
  <2>2. /\ options' \in Options /\ options'.factory_reset
        /\ options'.clean_upgrade_dir = options.clean_upgrade_dir
    BY <2>1, SetOption DEF TypeOK
  <2>3. TypeOK'
    BY <1>1, <2>1, <2>2 DEF TypeOK, services, disk
  <2>4. Stages'
    BY <1>1, <2>1 DEF Stages, services
  <2>5. ResetWanted => ResetWanted'
    BY <1>2, <2>2 DEF ResetWanted
  <2>6. CleanWanted => CleanWanted'
    BY <1>2, <2>2, HeldIsAround, CleanKept
  <2>7. Pending'
    BY <1>1, <2>5, <2>6 DEF Pending, services
  <2>8. Untroubled'
    <3> SUFFICES ASSUME running = FALSE PROVE Untroubled'
      BY <2>1 DEF Untroubled, TypeOK
    <3>1. at'[FR] = "off" /\ (\A s \in Services : at[s] = "off") /\ cache' = NoCache
      BY <1>1, <1>3 DEF Stages, services
    <3>2. \A s \in Services : call'[s] = "read"
      BY <1>1, <3>1 DEF Stages, TypeOK, ReadPlaces, PostPlaces, services
    <3>3. Around' = {options'}
      BY <2>2, <3>1, <3>2 DEF Around, NoCache
    <3> QED
      BY <3>1, <3>3 DEF Untroubled, OneValue, Posted
  <2> QED
    BY <1>1, <2>3, <2>4, <2>7, <2>8
<1>5. CASE AskCleanUpgradeDir
  <2>1. options' = [options EXCEPT !.clean_upgrade_dir = TRUE] /\ asked' = asked
    BY <1>5 DEF AskCleanUpgradeDir
  <2>2. /\ options' \in Options /\ options'.clean_upgrade_dir
        /\ options'.factory_reset = options.factory_reset
    BY <2>1, SetOption DEF TypeOK
  <2>3. TypeOK'
    BY <1>1, <2>1, <2>2 DEF TypeOK, services, disk
  <2>4. Stages'
    BY <1>1, <2>1 DEF Stages, services
  <2>5. /\ ResetWanted => ResetWanted'
        /\ NoReset => NoReset'
        /\ OneValue => OneValue'
    BY <1>2, <2>2, HeldIsAround, ResetKept
  <2>6. CleanWanted => CleanWanted'
    BY <1>2, <2>2, HeldIsAround, CleanKept
  <2>7. Pending'
    BY <1>1, <2>5, <2>6 DEF Pending, services
  <2>8. Untroubled'
    BY <1>1, <2>1, <2>2, <2>5 DEF Untroubled, Posted, services
  <2> QED
    BY <1>1, <2>3, <2>4, <2>7, <2>8
<1> QED
  BY <1>4, <1>5

\* So every step does.
LEMMA IInvNext ==
  ASSUME FactoryResetConstants, IInv, [Next]_vars
  PROVE  IInv'
<1>1. CASE UNCHANGED vars
  <2>1. Around' = Around
    BY <1>1, StillAround DEF vars, services
  <2> QED
    BY <1>1, <2>1 DEF vars, disk, services, IInv, TypeOK, Stages, Pending, Untroubled,
       ResetWanted, CleanWanted, NoReset, OneValue, Posted
<1> QED
  BY <1>1, BashioKeeps, CleanConfigKeeps, ResetKeeps, UpdateKeeps, OthersKeep, StartKeeps,
     StopKeeps, AskKeeps DEF Next, Step

\* The invariant holds in every reachable state.
LEMMA IInvAlways ==
  ASSUME FactoryResetConstants
  PROVE  Spec => []IInv
<1>1. Init => IInv
  BY IInvInit
<1>2. IInv /\ [Next]_vars => IInv'
  BY IInvNext
<1> QED
  BY <1>1, <1>2, PTL DEF Spec

-----------------------------------------------------------------------------
\* Types of the options, the cache and what each service holds of them.
THEOREM TypeCorrect ==
  ASSUME FactoryResetConstants
  PROVE  Spec => []TypeOK
<1>1. IInv => TypeOK
  BY DEF IInv
<1> QED
  BY <1>1, IInvAlways, PTL

\* However often starts are cut short, whatever POSTs fail and whatever the services
\* find in bashio's cache, nothing the options asked to have removed is there, or
\* installed, when srat starts.
THEOREM RemovedAsAskedAlways ==
  ASSUME FactoryResetConstants
  PROVE  Spec => []RemovedAsAsked
<1>1. IInv => RemovedAsAsked
  BY DEF IInv, TypeOK, Stages, Pending, RemovedAsAsked
<1> QED
  BY <1>1, IInvAlways, PTL

\* Where clean-config was over when factory-reset posted, and the owner has not asked
\* anew, factory_reset is false after a reset and no later POST puts it back.
THEOREM ResetsItselfAloneAlways ==
  ASSUME FactoryResetConstants
  PROVE  Spec => []ResetsItselfAlone
<1>1. IInv => ResetsItselfAlone
  <2> SUFFICES ASSUME IInv, at[FR] = "done", asked = FALSE, beside = FALSE
               PROVE  ~options.factory_reset
    BY DEF IInv, TypeOK, ResetsItselfAlone
  <2>1. NoReset /\ TypeOK
    BY DEF IInv, Untroubled
  <2> QED
    BY <2>1, HeldIsAround DEF NoReset
<1> QED
  BY <1>1, IInvAlways, PTL
=============================================================================
