---------------------------- MODULE ConfigProofs ----------------------------
(* The properties of Config, for any names, instruments and environments.    *)
EXTENDS Config, TLAPS

SetsRedis(e)   == e.url \/ e.host
SetsDevices(e) == e.devices
SetsPeriod(e)  == e.period # Unset

\* The strongest of the layers up to the environment, the ini file, its section
\* and again the environment.
AfterFirst(says(_))   == IF says(env["os"]) THEN "os" ELSE "default"
AfterGlobal(says(_))  == IF says(env["global"]) THEN "global" ELSE AfterFirst(says)
AfterSection(says(_)) == IF says(sections[looked]) THEN "section" ELSE AfterGlobal(says)
AfterAll(says(_))     == IF says(env["os"]) THEN "os"
                         ELSE IF file = "ok" THEN AfterSection(says) ELSE "default"

\* Which layer counts, of those that have been applied.
SoFar(says(_)) ==
  IF step = "os" THEN "default"
  ELSE IF step = "global" THEN AfterFirst(says)
  ELSE IF step = "section" THEN AfterGlobal(says)
  ELSE IF step = "os again" /\ file = "ok" THEN AfterSection(says)
  ELSE AfterAll(says)

\* The ini file and its section are looked at where they can be.
StepInv ==
  /\ step \in {"global", "section"} => file = "ok"
  /\ step \in {"os", "global", "section"} => looked = Unset
  /\ step = "os again" => file # "absent"
  /\ step \in {"os again", "tickers", "done"} /\ file = "ok" => looked \in Names

\* So far, the strongest layer counts.
LayerInv ==
  step # "fatal" =>
    /\ cfg.devices = SoFar(SetsDevices)
    /\ cfg.period = SoFar(SetsPeriod)
    /\ cfg.url.layer = SoFar(SetsRedis)
    /\ cfg.url.layer # "default" => (cfg.url.by = "url" <=> Layer(cfg.url.layer).url)

\* The environment has the last word.
LastInv ==
  step \in {"tickers", "done"} =>
    /\ env["os"].disable # Nothing => cfg.disable = env["os"].disable
    /\ env["os"].enable # Nothing => cfg.enable = env["os"].enable

IInv == TypeOK /\ StepInv /\ LayerInv /\ LastInv /\ EnvironmentChooses

-----------------------------------------------------------------------------

\* Loading an environment keeps the configuration well-formed.
LEMMA LoadedType ==
  ASSUME TypeOK, NEW e \in Environments, NEW layer \in Layers
  PROVE  Loaded(e, layer) \in
           [name : Names, url : [layer : Layers, by : {"url", "host", "host:port"}],
            backoff : {"default", "zero"}, proc : Layers, devices : Layers,
            period : Layers, enable : Lists, disable : Lists]
<1>1. cfg \in [name : Names, url : [layer : Layers, by : {"url", "host", "host:port"}],
               backoff : {"default", "zero"}, proc : Layers, devices : Layers,
               period : Layers, enable : Lists, disable : Lists]
  BY DEF TypeOK
<1>2. Loaded(e, layer).name \in Names
  BY <1>1 DEF Loaded, Environments
<1>3. Url(e, layer) \in [layer : Layers, by : {"url", "host", "host:port"}]
  BY <1>1 DEF Url
<1>4. Backoff(e) \in {"default", "zero"}
  BY <1>1 DEF Backoff
<1>5. Proc(e, layer) \in Layers
  BY DEF Proc, Layers
<1>6. Loaded(e, layer).devices \in Layers /\ Loaded(e, layer).period \in Layers
  BY <1>1 DEF Loaded
<1>7. Fields(e.enable, cfg.enable) \in Lists /\ Fields(e.disable, cfg.disable) \in Lists
  BY <1>1 DEF Fields, Environments
<1>8. QED
  BY <1>2, <1>3, <1>4, <1>5, <1>6, <1>7 DEF Loaded

\* The type is kept.
LEMMA TypeStep == TypeOK /\ StepInv /\ [Next]_vars => TypeOK'
<1> SUFFICES ASSUME TypeOK, StepInv, [Next]_vars
             PROVE  TypeOK'
  OBVIOUS
<1> DEFINE Cfgs == [name : Names,
                    url : [layer : Layers, by : {"url", "host", "host:port"}],
                    backoff : {"default", "zero"}, proc : Layers, devices : Layers,
                    period : Layers, enable : Lists, disable : Lists]
<1>1. /\ env["os"] \in Environments /\ env["global"] \in Environments
      /\ \A n \in Names : sections[n] \in Environments
      /\ cfg.name \in Names /\ Unset \notin Names
  BY ConfigAssumption DEF TypeOK
<1>2. ASSUME LoadOs
      PROVE  TypeOK'
  <2>1. cfg' \in Cfgs
    BY <1>1, <1>2, LoadedType DEF LoadOs, Load, Layers
  <2>2. UNCHANGED <<file, env, sections, looked, tickers>> /\ looked = Unset
    BY <1>2 DEF LoadOs, StepInv
  <2>3. /\ step' \in {"fatal", "tickers", "os again", "global"}
        /\ step' = "tickers" => file # "ok"
    BY <1>2 DEF LoadOs, Load, AfterOs
  <2>4. QED
    BY <2>1, <2>2, <2>3 DEF TypeOK
<1>3. ASSUME LoadGlobal
      PROVE  TypeOK'
  <2>1. cfg' \in Cfgs
    BY <1>1, <1>3, LoadedType DEF LoadGlobal, Load, Ini, Layers
  <2>2. UNCHANGED <<file, env, sections, looked, tickers>> /\ step' \in {"fatal", "section"}
    BY <1>3 DEF LoadGlobal, Load
  <2>3. QED
    BY <2>1, <2>2 DEF TypeOK
<1>4. ASSUME LoadSection
      PROVE  TypeOK'
  <2>1. cfg' \in Cfgs
    <3>1. Ini(cfg.name) \in Environments
      BY <1>1 DEF Ini
    <3>2. QED
      BY <1>4, <3>1, LoadedType DEF LoadSection, Load, Layers
  <2>2. /\ UNCHANGED <<file, env, sections, tickers>> /\ step' \in {"fatal", "os again"}
        /\ looked' \in Names /\ file = "ok"
    BY <1>1, <1>4 DEF LoadSection, Load, StepInv
  <2>3. QED
    BY <2>1, <2>2 DEF TypeOK
<1>5. ASSUME LoadOsAgain
      PROVE  TypeOK'
  <2>1. cfg' \in Cfgs
    BY <1>1, <1>5, LoadedType DEF LoadOsAgain, Load, Layers
  <2>2. /\ UNCHANGED <<file, env, sections, looked, tickers>>
        /\ step' \in {"fatal", "tickers"} /\ (file = "ok" => looked \in Names)
    BY <1>5 DEF LoadOsAgain, Load, StepInv
  <2>3. QED
    BY <1>1, <2>1, <2>2 DEF TypeOK
<1>6. ASSUME InitTickers
      PROVE  TypeOK'
  <2>1. tickers' \subseteq Instruments
    BY <1>6 DEF InitTickers, Chosen
  <2>2. UNCHANGED <<file, env, sections, cfg, looked>> /\ step' = "done" /\ step = "tickers"
    BY <1>6 DEF InitTickers
  <2>3. QED
    BY <2>1, <2>2 DEF TypeOK
<1>7. CASE UNCHANGED vars
  BY <1>7 DEF vars, TypeOK
<1>8. QED
  BY <1>2, <1>3, <1>4, <1>5, <1>6, <1>7 DEF Next

\* The ini file is looked at only if it has been parsed.
LEMMA StepStep == TypeOK /\ StepInv /\ [Next]_vars => StepInv'
<1> SUFFICES ASSUME TypeOK, StepInv, [Next]_vars
             PROVE  StepInv'
  OBVIOUS
<1> USE DEF StepInv, Load
<1>1. ASSUME LoadOs
      PROVE  StepInv'
  BY <1>1 DEF LoadOs, AfterOs, TypeOK
<1>2. ASSUME LoadGlobal
      PROVE  StepInv'
  BY <1>2 DEF LoadGlobal
<1>3. ASSUME LoadSection
      PROVE  StepInv'
  BY <1>3 DEF LoadSection, TypeOK
<1>4. ASSUME LoadOsAgain
      PROVE  StepInv'
  BY <1>4 DEF LoadOsAgain
<1>5. ASSUME InitTickers
      PROVE  StepInv'
  BY <1>5 DEF InitTickers
<1>6. CASE UNCHANGED vars
  BY <1>6 DEF vars
<1>7. QED
  BY <1>1, <1>2, <1>3, <1>4, <1>5, <1>6 DEF Next

\* What loading an environment does to the variables, unless it is fatal.
LEMMA LoadedLayers ==
  ASSUME NEW e \in Environments, NEW layer, NEW next, Load(e, layer, next),
         step' # "fatal"
  PROVE  /\ step' = next
         /\ cfg'.devices = IF SetsDevices(e) THEN layer ELSE cfg.devices
         /\ cfg'.period = IF SetsPeriod(e) THEN layer ELSE cfg.period
         /\ cfg'.url.layer = IF SetsRedis(e) THEN layer ELSE cfg.url.layer
         /\ SetsRedis(e) => (cfg'.url.by = "url" <=> e.url)
         /\ ~SetsRedis(e) => cfg'.url = cfg.url
         /\ e.disable # Nothing => cfg'.disable = e.disable
         /\ e.enable # Nothing => cfg'.enable = e.enable
<1>1. step' = next /\ e.period # "invalid" /\ cfg' = Loaded(e, layer)
  BY DEF Load
<1>2. SetsPeriod(e) <=> e.period = "valid"
  BY <1>1 DEF SetsPeriod, Environments, Unset
<1>3. /\ cfg'.devices = IF SetsDevices(e) THEN layer ELSE cfg.devices
      /\ cfg'.period = IF SetsPeriod(e) THEN layer ELSE cfg.period
      /\ cfg'.url = Url(e, layer)
  BY <1>1, <1>2 DEF Loaded, SetsDevices
<1>4. /\ e.disable # Nothing => cfg'.disable = e.disable
      /\ e.enable # Nothing => cfg'.enable = e.enable
  BY <1>1 DEF Loaded, Fields
<1>5. CASE e.url
  BY <1>1, <1>3, <1>4, <1>5 DEF Url, SetsRedis
<1>6. CASE ~e.url /\ e.host
  <2>1. Url(e, layer).layer = layer /\ Url(e, layer).by # "url"
    BY <1>6 DEF Url
  <2>2. QED
    BY <1>1, <1>3, <1>4, <1>6, <2>1 DEF SetsRedis
<1>7. CASE ~e.url /\ ~e.host
  <2>1. Url(e, layer) = cfg.url
    BY <1>7 DEF Url
  <2>2. QED
    BY <1>1, <1>3, <1>4, <1>7, <2>1 DEF SetsRedis
<1>8. QED
  BY <1>5, <1>6, <1>7

\* Loading goes on to the next step, unless it is fatal.
LEMMA Goes ==
  ASSUME NEW e, NEW layer, NEW next, Load(e, layer, next), step' # "fatal"
  PROVE  step' = next
BY DEF Load

\* The environments that are loaded, and when.
LEMMA Loads ==
  ASSUME TypeOK, StepInv, NEW e, NEW layer, NEW next,
         \/ LoadOs /\ e = env["os"] /\ layer = "os" /\ next = AfterOs
         \/ LoadGlobal /\ e = env["global"] /\ layer = "global" /\ next = "section"
         \/ LoadSection /\ e = sections[cfg.name] /\ layer = "section" /\ next = "os again"
         \/ LoadOsAgain /\ e = env["os"] /\ layer = "os" /\ next = "tickers"
  PROVE  /\ e \in Environments /\ Load(e, layer, next)
         /\ UNCHANGED <<file, env, sections, tickers>>
<1>1. /\ env["os"] \in Environments /\ env["global"] \in Environments
      /\ \A n \in Names : sections[n] \in Environments
      /\ cfg.name \in Names /\ Unset \notin Names
  BY ConfigAssumption DEF TypeOK
<1>2. QED
  BY <1>1 DEF LoadOs, LoadGlobal, LoadSection, LoadOsAgain, Ini

\* Loading one more layer makes it the one that counts, for what it sets.
LEMMA OneMore ==
  ASSUME NEW e \in Environments, NEW layer \in {"os", "global", "section"}, NEW next,
         Load(e, layer, next), LayerInv, step # "fatal", step' # "fatal",
         UNCHANGED <<env, sections>>,
         e = IF layer = "section" THEN sections[looked'] ELSE env[layer],
         cfg.url.layer # "section" \/ looked' = looked,
         SoFar(SetsDevices)' = IF SetsDevices(e) THEN layer ELSE SoFar(SetsDevices),
         SoFar(SetsPeriod)' = IF SetsPeriod(e) THEN layer ELSE SoFar(SetsPeriod),
         SoFar(SetsRedis)' = IF SetsRedis(e) THEN layer ELSE SoFar(SetsRedis)
  PROVE  LayerInv'
<1>1. /\ cfg'.devices = IF SetsDevices(e) THEN layer ELSE cfg.devices
      /\ cfg'.period = IF SetsPeriod(e) THEN layer ELSE cfg.period
      /\ cfg'.url.layer = IF SetsRedis(e) THEN layer ELSE cfg.url.layer
      /\ SetsRedis(e) => (cfg'.url.by = "url" <=> e.url)
      /\ ~SetsRedis(e) => cfg'.url = cfg.url
  BY LoadedLayers
<1>2. /\ cfg.devices = SoFar(SetsDevices) /\ cfg.period = SoFar(SetsPeriod)
      /\ cfg.url.layer = SoFar(SetsRedis)
      /\ cfg.url.layer # "default" => (cfg.url.by = "url" <=> Layer(cfg.url.layer).url)
  BY DEF LayerInv
<1>3. /\ cfg'.devices = SoFar(SetsDevices)' /\ cfg'.period = SoFar(SetsPeriod)'
      /\ cfg'.url.layer = SoFar(SetsRedis)'
  BY <1>1, <1>2
<1>4. ASSUME SetsRedis(e)
      PROVE  cfg'.url.by = "url" <=> Layer(cfg.url.layer)'.url
  <2>1. cfg'.url.layer = layer
    BY <1>1, <1>4
  <2>2. Layer(cfg.url.layer)' = e
    BY <2>1 DEF Layer
  <2>3. QED
    BY <1>1, <1>4, <2>2
<1>5. ASSUME ~SetsRedis(e), cfg'.url.layer # "default"
      PROVE  cfg'.url.by = "url" <=> Layer(cfg.url.layer)'.url
  <2>1. cfg'.url = cfg.url
    BY <1>1, <1>5
  <2>2. Layer(cfg.url.layer)' = Layer(cfg.url.layer)
    BY <2>1 DEF Layer
  <2>3. QED
    BY <1>2, <1>5, <2>1, <2>2
<1>6. QED
  BY <1>3, <1>4, <1>5 DEF LayerInv

\* After each layer, the strongest one so far counts.
LEMMA LayerStep == TypeOK /\ StepInv /\ LayerInv /\ [Next]_vars => LayerInv'
<1> SUFFICES ASSUME TypeOK, StepInv, LayerInv, [Next]_vars
             PROVE  LayerInv'
  OBVIOUS
<1>1. ASSUME LoadOs, step' # "fatal"
      PROVE  LayerInv'
  <2>1. /\ env["os"] \in Environments
        /\ Load(env["os"], "os", AfterOs)
        /\ UNCHANGED <<file, env, sections>>
    BY <1>1, Loads
  <2>2. step' = AfterOs
    BY <1>1, <2>1, Goes
  <2>3. /\ step = "os" /\ looked' = looked
        /\ \/ step' = "global" /\ file = "ok"
           \/ step' = "os again" /\ file # "ok"
           \/ step' = "tickers" /\ file # "ok"
    BY <1>1, <2>2 DEF LoadOs, TypeOK, AfterOs
  <2>4. /\ SoFar(SetsDevices)' = IF SetsDevices(env["os"]) THEN "os" ELSE SoFar(SetsDevices)
        /\ SoFar(SetsPeriod)' = IF SetsPeriod(env["os"]) THEN "os" ELSE SoFar(SetsPeriod)
        /\ SoFar(SetsRedis)' = IF SetsRedis(env["os"]) THEN "os" ELSE SoFar(SetsRedis)
    BY <2>1, <2>2, <2>3 DEF SoFar, AfterFirst, AfterGlobal, AfterSection, AfterAll,
                            SetsDevices, SetsPeriod, SetsRedis
  <2>6. QED
    BY <1>1, <2>1, <2>3, <2>4, OneMore
<1>2. ASSUME LoadGlobal, step' # "fatal"
      PROVE  LayerInv'
  <2>1. /\ env["global"] \in Environments
        /\ Load(env["global"], "global", "section")
        /\ UNCHANGED <<file, env, sections>>
    BY <1>2, Loads
  <2>2. step' = "section"
    BY <1>2, <2>1, Goes
  <2>3. step = "global" /\ looked' = looked
    BY <1>2 DEF LoadGlobal
  <2>4. /\ SoFar(SetsDevices)' = IF SetsDevices(env["global"]) THEN "global" ELSE SoFar(SetsDevices)
        /\ SoFar(SetsPeriod)' = IF SetsPeriod(env["global"]) THEN "global" ELSE SoFar(SetsPeriod)
        /\ SoFar(SetsRedis)' = IF SetsRedis(env["global"]) THEN "global" ELSE SoFar(SetsRedis)
    BY <2>1, <2>2, <2>3 DEF SoFar, AfterFirst, AfterGlobal, AfterSection, AfterAll,
                            SetsDevices, SetsPeriod, SetsRedis
  <2>6. QED
    BY <1>2, <2>1, <2>3, <2>4, OneMore
<1>3. ASSUME LoadSection, step' # "fatal"
      PROVE  LayerInv'
  <2>1. /\ sections[cfg.name] \in Environments
        /\ Load(sections[cfg.name], "section", "os again")
        /\ UNCHANGED <<file, env, sections>>
    BY <1>3, Loads
  <2>2. step' = "os again"
    BY <1>3, <2>1, Goes
  <2>3. step = "section" /\ file = "ok" /\ looked' = cfg.name
    BY <1>3 DEF LoadSection, StepInv
  <2>4. /\ SoFar(SetsDevices)' = IF SetsDevices(sections[cfg.name]) THEN "section" ELSE SoFar(SetsDevices)
        /\ SoFar(SetsPeriod)' = IF SetsPeriod(sections[cfg.name]) THEN "section" ELSE SoFar(SetsPeriod)
        /\ SoFar(SetsRedis)' = IF SetsRedis(sections[cfg.name]) THEN "section" ELSE SoFar(SetsRedis)
    BY <2>1, <2>2, <2>3 DEF SoFar, AfterFirst, AfterGlobal, AfterSection, AfterAll,
                            SetsDevices, SetsPeriod, SetsRedis
  <2>5. cfg.url.layer # "section"
    BY <2>3 DEF LayerInv, SoFar, AfterFirst, AfterGlobal
  <2>6. QED
    BY <1>3, <2>1, <2>3, <2>4, <2>5, OneMore
<1>4. ASSUME LoadOsAgain, step' # "fatal"
      PROVE  LayerInv'
  <2>1. /\ env["os"] \in Environments
        /\ Load(env["os"], "os", "tickers")
        /\ UNCHANGED <<file, env, sections>>
    BY <1>4, Loads
  <2>2. step' = "tickers"
    BY <1>4, <2>1, Goes
  <2>3. step = "os again" /\ looked' = looked
    BY <1>4 DEF LoadOsAgain
  <2>4. /\ SoFar(SetsDevices)' = IF SetsDevices(env["os"]) THEN "os" ELSE SoFar(SetsDevices)
        /\ SoFar(SetsPeriod)' = IF SetsPeriod(env["os"]) THEN "os" ELSE SoFar(SetsPeriod)
        /\ SoFar(SetsRedis)' = IF SetsRedis(env["os"]) THEN "os" ELSE SoFar(SetsRedis)
    BY <2>1, <2>2, <2>3 DEF SoFar, AfterFirst, AfterGlobal, AfterSection, AfterAll,
                            SetsDevices, SetsPeriod, SetsRedis
  <2>6. QED
    BY <1>4, <2>1, <2>3, <2>4, OneMore
<1>5. ASSUME InitTickers
      PROVE  LayerInv'
  <2>1. /\ step = "tickers" /\ step' = "done"
        /\ UNCHANGED <<file, env, sections, cfg, looked>>
    BY <1>5 DEF InitTickers
  <2>2. /\ SoFar(SetsDevices)' = SoFar(SetsDevices)
        /\ SoFar(SetsPeriod)' = SoFar(SetsPeriod)
        /\ SoFar(SetsRedis)' = SoFar(SetsRedis)
    BY <2>1 DEF SoFar, AfterFirst, AfterGlobal, AfterSection, AfterAll, SetsDevices,
                SetsPeriod, SetsRedis
  <2>3. QED
    BY <2>1, <2>2 DEF LayerInv, Layer
<1>6. CASE UNCHANGED vars
  BY <1>6 DEF vars, LayerInv, Layer, SoFar, AfterFirst, AfterGlobal, AfterSection,
              AfterAll, SetsDevices, SetsPeriod, SetsRedis
<1>7. CASE step' = "fatal"
  BY <1>7 DEF LayerInv
<1>8. QED
  BY <1>1, <1>2, <1>3, <1>4, <1>5, <1>6, <1>7 DEF Next

\* The second look at the environment settles what it sets.
LEMMA LastStep == TypeOK /\ StepInv /\ LastInv /\ [Next]_vars => LastInv'
<1> SUFFICES ASSUME TypeOK, StepInv, LastInv, [Next]_vars, step' \in {"tickers", "done"}
             PROVE  LastInv'
  BY DEF LastInv
<1>1. ASSUME LoadOs \/ LoadOsAgain
      PROVE  LastInv'
  <2>1. \E next \in {AfterOs, "tickers"} : Load(env["os"], "os", next)
    BY <1>1, Loads
  <2>2. env["os"] \in Environments /\ env' = env
    BY <1>1, Loads
  <2>3. QED
    BY <2>1, <2>2, LoadedLayers DEF LastInv
<1>2. CASE LoadGlobal \/ LoadSection
  BY <1>2 DEF LoadGlobal, LoadSection, Load
<1>3. CASE InitTickers \/ UNCHANGED vars
  BY <1>3 DEF InitTickers, vars, LastInv
<1>4. QED
  BY <1>1, <1>2, <1>3 DEF Next

\* The tickers are chosen by what the environment has settled.
LEMMA ChoiceStep == TypeOK /\ LastInv /\ EnvironmentChooses /\ [Next]_vars => EnvironmentChooses'
<1> SUFFICES ASSUME TypeOK, LastInv, EnvironmentChooses, [Next]_vars, step' = "done"
             PROVE  EnvironmentChooses'
  BY DEF EnvironmentChooses, Finished
<1>1. ASSUME InitTickers
      PROVE  EnvironmentChooses'
  <2>1. PICK available \in SUBSET Instruments : tickers' = Chosen(available)
    BY <1>1 DEF InitTickers
  <2>2. UNCHANGED <<env, cfg>> /\ step = "tickers"
    BY <1>1 DEF InitTickers
  <2>3. ASSUME env["os"].disable # Nothing
        PROVE  tickers' \cap env["os"].disable = {}
    <3>1. cfg.disable = env["os"].disable
      BY <2>2, <2>3 DEF LastInv
    <3>2. QED
      BY <2>1, <3>1 DEF Chosen
  <2>4. ASSUME env["os"].enable \notin {Nothing, {}}, cfg.disable = {}
        PROVE  tickers' \subseteq env["os"].enable
    <3>1. cfg.enable = env["os"].enable
      BY <2>2, <2>4 DEF LastInv
    <3>2. QED
      BY <2>1, <2>4, <3>1 DEF Chosen
  <2>5. QED
    BY <2>2, <2>3, <2>4 DEF EnvironmentChooses
<1>2. CASE UNCHANGED vars
  BY <1>2 DEF vars, EnvironmentChooses, Finished
<1>3. CASE LoadOs \/ LoadGlobal \/ LoadSection \/ LoadOsAgain
  BY <1>3 DEF LoadOs, LoadGlobal, LoadSection, LoadOsAgain, Load, AfterOs
<1>4. QED
  BY <1>1, <1>2, <1>3 DEF Next

\* The invariant holds of the default configuration.
LEMMA InitIInv == Init => IInv
<1> SUFFICES ASSUME Init
             PROVE  IInv
  OBVIOUS
<1>1. /\ env \in [{"os", "global"} -> Environments]
      /\ sections \in [Names -> Environments]
  BY ConfigAssumption DEF Init
<1>2. cfg \in [name : Names, url : [layer : Layers, by : {"url", "host", "host:port"}],
               backoff : {"default", "zero"}, proc : Layers, devices : Layers,
               period : Layers, enable : Lists, disable : Lists]
  BY DEF Init, Layers, Lists
<1>3. TypeOK
  BY <1>1, <1>2 DEF Init, TypeOK
<1>4. /\ cfg.devices = "default" /\ cfg.period = "default"
      /\ cfg.url.layer = "default" /\ step = "os"
      /\ looked = Unset
  BY DEF Init
<1>5. StepInv /\ LayerInv /\ LastInv /\ EnvironmentChooses
  BY <1>4 DEF StepInv, LayerInv, SoFar, LastInv, EnvironmentChooses, Finished
<1>6. QED
  BY <1>3, <1>5 DEF IInv

\* The invariant holds throughout.
LEMMA Inductive == Spec => []IInv
<1>1. IInv /\ [Next]_vars => IInv'
  BY TypeStep, StepStep, LayerStep, LastStep, ChoiceStep DEF IInv
<1>2. QED
  BY <1>1, InitIInv, PTL DEF Spec

\* For the devices, the strongest layer is the last one that was applied and counts.
LEMMA StrongestDevices ==
  ASSUME step = "done"
  PROVE  Strongest(SetsDevices) = SoFar(SetsDevices)
<1> DEFINE P(i) == /\ SetsDevices(Layer(Strength[i]))
                   /\ \A j \in 1 .. i - 1 : ~SetsDevices(Layer(Strength[j]))
           best == CHOOSE i \in DOMAIN Strength : P(i)
<1>1. /\ DOMAIN Strength = IF file = "ok" THEN 1 .. 3 ELSE 1 .. 1
      /\ Strength[1] = "os"
      /\ file = "ok" => Strength[2] = "section" /\ Strength[3] = "global"
  BY DEF Strength
<1>2. /\ Layer("os") = env["os"] /\ Layer("section") = sections[looked]
      /\ Layer("global") = env["global"]
  BY DEF Layer
<1>3. SoFar(SetsDevices) = AfterAll(SetsDevices)
  BY DEF SoFar, AfterAll, SetsDevices
<1>4. ASSUME NEW i \in DOMAIN Strength, P(i)
      PROVE  Strongest(SetsDevices) = Strength[i]
  <2>1. best \in DOMAIN Strength /\ P(best)
    BY <1>4
  <2>2. best = i
    BY <1>1, <1>4, <2>1
  <2>3. Strongest(SetsDevices) = Strength[best]
    BY <1>4 DEF Strongest
  <2>4. QED
    BY <2>2, <2>3
<1>5. ASSUME \A i \in DOMAIN Strength : ~SetsDevices(Layer(Strength[i]))
      PROVE  Strongest(SetsDevices) = "default"
  BY <1>5 DEF Strongest
<1>6. CASE SetsDevices(env["os"])
  <2>1. P(1) /\ 1 \in DOMAIN Strength
    BY <1>1, <1>2, <1>6
  <2>2. QED
    BY <1>1, <1>3, <1>4, <1>6, <2>1 DEF AfterAll, SetsDevices
<1>7. CASE ~SetsDevices(env["os"]) /\ file # "ok"
  BY <1>1, <1>2, <1>3, <1>5, <1>7 DEF AfterAll, SetsDevices
<1>8. CASE ~SetsDevices(env["os"]) /\ file = "ok"
  <2>1. CASE SetsDevices(sections[looked])
    <3>1. P(2) /\ 2 \in DOMAIN Strength
      BY <1>1, <1>2, <1>8, <2>1
    <3>2. QED
      BY <1>1, <1>3, <1>4, <1>8, <2>1, <3>1 DEF AfterAll, AfterSection, SetsDevices
  <2>2. CASE ~SetsDevices(sections[looked]) /\ SetsDevices(env["global"])
    <3>1. P(3) /\ 3 \in DOMAIN Strength
      BY <1>1, <1>2, <1>8, <2>2
    <3>2. QED
      BY <1>1, <1>3, <1>4, <1>8, <2>2, <3>1 DEF AfterAll, AfterSection, AfterGlobal, SetsDevices
  <2>3. CASE ~SetsDevices(sections[looked]) /\ ~SetsDevices(env["global"])
    BY <1>1, <1>2, <1>3, <1>5, <1>8, <2>3
       DEF AfterAll, AfterSection, AfterGlobal, AfterFirst, SetsDevices
  <2>4. QED
    BY <2>1, <2>2, <2>3
<1>9. QED
  BY <1>6, <1>7, <1>8

\* For the period, the strongest layer is the last one that was applied and counts.
LEMMA StrongestPeriod ==
  ASSUME step = "done"
  PROVE  Strongest(SetsPeriod) = SoFar(SetsPeriod)
<1> DEFINE P(i) == /\ SetsPeriod(Layer(Strength[i]))
                   /\ \A j \in 1 .. i - 1 : ~SetsPeriod(Layer(Strength[j]))
           best == CHOOSE i \in DOMAIN Strength : P(i)
<1>1. /\ DOMAIN Strength = IF file = "ok" THEN 1 .. 3 ELSE 1 .. 1
      /\ Strength[1] = "os"
      /\ file = "ok" => Strength[2] = "section" /\ Strength[3] = "global"
  BY DEF Strength
<1>2. /\ Layer("os") = env["os"] /\ Layer("section") = sections[looked]
      /\ Layer("global") = env["global"]
  BY DEF Layer
<1>3. SoFar(SetsPeriod) = AfterAll(SetsPeriod)
  BY DEF SoFar, AfterAll, SetsPeriod
<1>4. ASSUME NEW i \in DOMAIN Strength, P(i)
      PROVE  Strongest(SetsPeriod) = Strength[i]
  <2>1. best \in DOMAIN Strength /\ P(best)
    BY <1>4
  <2>2. best = i
    BY <1>1, <1>4, <2>1
  <2>3. Strongest(SetsPeriod) = Strength[best]
    BY <1>4 DEF Strongest
  <2>4. QED
    BY <2>2, <2>3
<1>5. ASSUME \A i \in DOMAIN Strength : ~SetsPeriod(Layer(Strength[i]))
      PROVE  Strongest(SetsPeriod) = "default"
  BY <1>5 DEF Strongest
<1>6. CASE SetsPeriod(env["os"])
  <2>1. P(1) /\ 1 \in DOMAIN Strength
    BY <1>1, <1>2, <1>6
  <2>2. QED
    BY <1>1, <1>3, <1>4, <1>6, <2>1 DEF AfterAll, SetsPeriod
<1>7. CASE ~SetsPeriod(env["os"]) /\ file # "ok"
  BY <1>1, <1>2, <1>3, <1>5, <1>7 DEF AfterAll, SetsPeriod
<1>8. CASE ~SetsPeriod(env["os"]) /\ file = "ok"
  <2>1. CASE SetsPeriod(sections[looked])
    <3>1. P(2) /\ 2 \in DOMAIN Strength
      BY <1>1, <1>2, <1>8, <2>1
    <3>2. QED
      BY <1>1, <1>3, <1>4, <1>8, <2>1, <3>1 DEF AfterAll, AfterSection, SetsPeriod
  <2>2. CASE ~SetsPeriod(sections[looked]) /\ SetsPeriod(env["global"])
    <3>1. P(3) /\ 3 \in DOMAIN Strength
      BY <1>1, <1>2, <1>8, <2>2
    <3>2. QED
      BY <1>1, <1>3, <1>4, <1>8, <2>2, <3>1 DEF AfterAll, AfterSection, AfterGlobal, SetsPeriod
  <2>3. CASE ~SetsPeriod(sections[looked]) /\ ~SetsPeriod(env["global"])
    BY <1>1, <1>2, <1>3, <1>5, <1>8, <2>3
       DEF AfterAll, AfterSection, AfterGlobal, AfterFirst, SetsPeriod
  <2>4. QED
    BY <2>1, <2>2, <2>3
<1>9. QED
  BY <1>6, <1>7, <1>8

\* For Redis' address, the strongest layer is the last one that was applied and counts.
LEMMA StrongestRedis ==
  ASSUME step = "done"
  PROVE  Strongest(SetsRedis) = SoFar(SetsRedis)
<1> DEFINE P(i) == /\ SetsRedis(Layer(Strength[i]))
                   /\ \A j \in 1 .. i - 1 : ~SetsRedis(Layer(Strength[j]))
           best == CHOOSE i \in DOMAIN Strength : P(i)
<1>1. /\ DOMAIN Strength = IF file = "ok" THEN 1 .. 3 ELSE 1 .. 1
      /\ Strength[1] = "os"
      /\ file = "ok" => Strength[2] = "section" /\ Strength[3] = "global"
  BY DEF Strength
<1>2. /\ Layer("os") = env["os"] /\ Layer("section") = sections[looked]
      /\ Layer("global") = env["global"]
  BY DEF Layer
<1>3. SoFar(SetsRedis) = AfterAll(SetsRedis)
  BY DEF SoFar, AfterAll, SetsRedis
<1>4. ASSUME NEW i \in DOMAIN Strength, P(i)
      PROVE  Strongest(SetsRedis) = Strength[i]
  <2>1. best \in DOMAIN Strength /\ P(best)
    BY <1>4
  <2>2. best = i
    BY <1>1, <1>4, <2>1
  <2>3. Strongest(SetsRedis) = Strength[best]
    BY <1>4 DEF Strongest
  <2>4. QED
    BY <2>2, <2>3
<1>5. ASSUME \A i \in DOMAIN Strength : ~SetsRedis(Layer(Strength[i]))
      PROVE  Strongest(SetsRedis) = "default"
  BY <1>5 DEF Strongest
<1>6. CASE SetsRedis(env["os"])
  <2>1. P(1) /\ 1 \in DOMAIN Strength
    BY <1>1, <1>2, <1>6
  <2>2. QED
    BY <1>1, <1>3, <1>4, <1>6, <2>1 DEF AfterAll, SetsRedis
<1>7. CASE ~SetsRedis(env["os"]) /\ file # "ok"
  BY <1>1, <1>2, <1>3, <1>5, <1>7 DEF AfterAll, SetsRedis
<1>8. CASE ~SetsRedis(env["os"]) /\ file = "ok"
  <2>1. CASE SetsRedis(sections[looked])
    <3>1. P(2) /\ 2 \in DOMAIN Strength
      BY <1>1, <1>2, <1>8, <2>1
    <3>2. QED
      BY <1>1, <1>3, <1>4, <1>8, <2>1, <3>1 DEF AfterAll, AfterSection, SetsRedis
  <2>2. CASE ~SetsRedis(sections[looked]) /\ SetsRedis(env["global"])
    <3>1. P(3) /\ 3 \in DOMAIN Strength
      BY <1>1, <1>2, <1>8, <2>2
    <3>2. QED
      BY <1>1, <1>3, <1>4, <1>8, <2>2, <3>1 DEF AfterAll, AfterSection, AfterGlobal, SetsRedis
  <2>3. CASE ~SetsRedis(sections[looked]) /\ ~SetsRedis(env["global"])
    BY <1>1, <1>2, <1>3, <1>5, <1>8, <2>3
       DEF AfterAll, AfterSection, AfterGlobal, AfterFirst, SetsRedis
  <2>4. QED
    BY <2>1, <2>2, <2>3
<1>9. QED
  BY <1>6, <1>7, <1>8

-----------------------------------------------------------------------------

\* Whatever the layers say, the configuration stays well-formed: loadConfig
\* takes over nothing but what a layer may say (cfg.go:73-206).
THEOREM TypeCorrect == Spec => []TypeOK
<1>1. IInv => TypeOK
  BY DEF IInv
<1>2. QED
  BY <1>1, Inductive, PTL

\* For the devices, the period and Redis, the environment counts more than the
\* node's section, and this more than the rest of the ini file, for any names
\* and any layers (main.go:14-35).
THEOREM Layered == Spec => []Resolved
<1>1. ASSUME LayerInv, Finished
      PROVE  /\ cfg.devices = Strongest(SetsDevices)
             /\ cfg.period  = Strongest(SetsPeriod)
             /\ cfg.url.layer = Strongest(SetsRedis)
             /\ cfg.url.layer # "default" =>
                  (cfg.url.by = "url" <=> Layer(cfg.url.layer).url)
  <2>1. step = "done"
    BY <1>1 DEF Finished
  <2>2. /\ cfg.devices = SoFar(SetsDevices) /\ cfg.period = SoFar(SetsPeriod)
        /\ cfg.url.layer = SoFar(SetsRedis)
        /\ cfg.url.layer # "default" => (cfg.url.by = "url" <=> Layer(cfg.url.layer).url)
    BY <1>1, <2>1 DEF LayerInv
  <2>3. QED
    BY <2>1, <2>2, StrongestDevices, StrongestPeriod, StrongestRedis
<1>2. LayerInv => Resolved
  BY <1>1 DEF Resolved, SetsDevices, SetsPeriod, SetsRedis
<1>3. IInv => Resolved
  BY <1>2 DEF IInv
<1>4. QED
  BY <1>3, Inductive, PTL

\* No host runs an instrument that its environment rules out, whatever the ini
\* file says (daemon.go:69-86).
THEOREM Environment == Spec => []EnvironmentChooses
<1>1. IInv => EnvironmentChooses
  BY DEF IInv
<1>2. QED
  BY <1>1, Inductive, PTL
=============================================================================
