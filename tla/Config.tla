------------------------------- MODULE Config -------------------------------
(* How the daemon gets its configuration: loadConfig of cmd/telemd/main.go   *)
(* applies LoadFromEnvironment (internal/telemd/cfg.go) to the environment,  *)
(* the ini file, the node's section of it, and the environment again; then   *)
(* NewDaemon picks the instruments and gives each a ticker (daemon.go).      *)
(*                                                                           *)
(* Most variables are told apart by where their value comes from, not by the *)
(* value: an environment says whether it sets them.  `devices` stands for    *)
(* the two lists of devices.                                                 *)
EXTENDS Naturals

CONSTANTS Names,        \* node names
          Instruments,  \* the instruments that the host can have
          Strange,      \* a name that is no instrument's
          Groups        \* bound: the variables that vary together; a set of
                        \* sets of environments

VARIABLES
  file,      \* the ini file: "absent", "broken" or "ok"
  env,       \* the three kinds of layer: "os", "global", "section"
  sections,  \* sections[n]: the section of the ini file for node n
  step,      \* what loadConfig does next
  cfg,       \* the configuration so far
  looked,    \* the section that has been applied
  tickers    \* the instruments that have a ticker

vars == <<file, env, sections, step, cfg, looked, tickers>>

Unset == "unset"
Layers == {"default", "os", "global", "section"}
Lists  == SUBSET (Instruments \cup {Strange})

Nothing == {Unset}      \* a list that is not set

\* What a layer may say.  A list that is set may be empty.
Environments ==
  [name : Names \cup {Unset}, url : BOOLEAN, host : BOOLEAN, port : BOOLEAN,
   proc : BOOLEAN, devices : BOOLEAN,
   backoff : {Unset, "valid", "invalid"}, period : {Unset, "valid", "invalid"},
   enable : Lists \cup {Nothing}, disable : Lists \cup {Nothing}]

ASSUME ConfigAssumption ==
  /\ Groups \subseteq SUBSET Environments
  /\ Unset \notin Names \cup Instruments \cup {Strange}

TypeOK ==
  /\ file \in {"absent", "broken", "ok"}
  /\ env \in [{"os", "global"} -> Environments]
  /\ sections \in [Names -> Environments]
  /\ step \in {"os", "global", "section", "os again", "tickers", "done", "fatal"}
  /\ cfg \in [name : Names, url : [layer : Layers, by : {"url", "host", "host:port"}],
              backoff : {"default", "zero"}, proc : Layers, devices : Layers,
              period : Layers, enable : Lists, disable : Lists]
  /\ looked \in Names \cup {Unset}
  /\ tickers \subseteq Instruments
  /\ looked # Unset => file = "ok"
  /\ step \in {"tickers", "done"} /\ file = "ok" => looked # Unset

\* NewDefaultConfig, for any host name.
Init ==
  /\ file \in {"absent", "broken", "ok"}
  /\ \E g \in Groups : /\ env \in [{"os", "global"} -> g]
                       /\ sections \in [Names -> g]
  /\ step = "os"
  /\ \E hostname \in Names :
       cfg = [name |-> hostname, url |-> [layer |-> "default", by |-> "host"],
              backoff |-> "default", proc |-> "default", devices |-> "default",
              period |-> "default", enable |-> {}, disable |-> {}]
  /\ looked = Unset /\ tickers = {}

-----------------------------------------------------------------------------
(* LoadFromEnvironment.                                                      *)

\* A url goes before a host; a port without a host says nothing.
Url(e, layer) ==
  IF e.url THEN [layer |-> layer, by |-> "url"]
  ELSE IF e.host
         THEN [layer |-> layer, by |-> IF e.port THEN "host:port" ELSE "host"]
         ELSE cfg.url

\* The duration is taken over only if it could not be parsed, and then is 0.
Backoff(e) == IF e.backoff = "invalid" THEN "zero" ELSE cfg.backoff

\* Without the variable it is /proc again, whatever an earlier layer has said.
Proc(e, layer) == IF e.proc THEN layer ELSE "default"

\* LookupFields: an empty value is a list, too.
Fields(list, old) == IF list = Nothing THEN old ELSE list

Loaded(e, layer) ==
  [name    |-> IF e.name = Unset THEN cfg.name ELSE e.name,
   url     |-> Url(e, layer),
   backoff |-> Backoff(e),
   proc    |-> Proc(e, layer),
   devices |-> IF e.devices THEN layer ELSE cfg.devices,
   period  |-> IF e.period = "valid" THEN layer ELSE cfg.period,
   enable  |-> Fields(e.enable, cfg.enable),
   disable |-> Fields(e.disable, cfg.disable)]

\* A period that is no duration ends the process.
Load(e, layer, next) ==
  /\ cfg'  = Loaded(e, layer)
  /\ step' = IF e.period = "invalid" THEN "fatal" ELSE next

-----------------------------------------------------------------------------
(* loadConfig and NewDaemon.                                                 *)

\* Mutant: an ini file that cannot be parsed is read all the same.
IgnoreError == IF file = "absent" THEN "tickers" ELSE "global"

\* Which step follows the first look at the environment?
AfterOs == IF file = "absent" THEN "tickers"
           ELSE IF file = "broken" THEN "os again" ELSE "global"

LoadOs ==
  /\ step = "os"
  /\ Load(env["os"], "os", AfterOs)
  /\ UNCHANGED <<file, env, sections, looked, tickers>>

\* Lookup in the ini file: the part before the first section, or a section,
\* which is empty if the file has none of that name.
Ini(section) == IF section = Unset THEN env["global"] ELSE sections[section]

LoadGlobal ==
  /\ step = "global"
  /\ Load(Ini(Unset), "global", "section")
  /\ UNCHANGED <<file, env, sections, looked, tickers>>

\* The section is the one of the name as far as it is known by now.
LoadSection ==
  /\ step = "section"
  /\ Load(Ini(cfg.name), "section", "os again")
  /\ looked' = cfg.name
  /\ UNCHANGED <<file, env, sections, tickers>>

\* Mutant: the environment is not applied again.
TrustFirst ==
  /\ step = "os again"
  /\ step' = "tickers"
  /\ UNCHANGED <<file, env, sections, cfg, looked, tickers>>

LoadOsAgain ==
  /\ step = "os again"
  /\ Load(env["os"], "os", "tickers")
  /\ UNCHANGED <<file, env, sections, looked, tickers>>

\* Mutant: enable goes before disable.
EnableFirst(available) ==
  IF cfg.enable # {} THEN available \cap cfg.enable ELSE available \ cfg.disable

\* initInstruments: disable goes before enable.
Chosen(available) ==
  IF cfg.disable # {} THEN available \ cfg.disable
  ELSE IF cfg.enable # {} THEN available \cap cfg.enable
  ELSE available

\* Some instruments exist only on a host with a wireless device.
InitTickers ==
  /\ step = "tickers"
  /\ \E available \in SUBSET Instruments : tickers' = Chosen(available)
  /\ step' = "done"
  /\ UNCHANGED <<file, env, sections, cfg, looked>>

Next == LoadOs \/ LoadGlobal \/ LoadSection \/ LoadOsAgain \/ InitTickers

Spec == Init /\ [][Next]_vars

-----------------------------------------------------------------------------
(* Properties.                                                               *)

\* The layers that count, the strongest first.
Strength == IF file = "ok" THEN <<"os", "section", "global">> ELSE <<"os">>

Layer(l) == IF l = "section" THEN sections[looked] ELSE env[l]

\* The strongest layer of which says(its environment) is true.
Strongest(says(_)) ==
  IF \E i \in DOMAIN Strength : says(Layer(Strength[i]))
    THEN Strength[CHOOSE i \in DOMAIN Strength :
                    /\ says(Layer(Strength[i]))
                    /\ \A j \in 1 .. i - 1 : ~says(Layer(Strength[j]))]
    ELSE "default"

Finished == step = "done"

\* Applying one layer after the other means that for each variable the
\* strongest layer that sets it counts: environment, node's section, rest of
\* the ini file (README.md:127-131; main.go:14-35).  Of Redis' variables, the
\* strongest layer that has a url or a host counts, and a url before a host.
\* The port and the mount of /proc do not follow the layers: DocumentedLayers.
Resolved ==
  LET SetsRedis(e)   == e.url \/ e.host
      SetsDevices(e) == e.devices
      SetsPeriod(e)  == e.period # Unset
      l == Strongest(SetsRedis)
  IN Finished =>
       /\ cfg.devices = Strongest(SetsDevices)
       /\ cfg.period  = Strongest(SetsPeriod)
       /\ cfg.url.layer = l
       /\ l # "default" => (cfg.url.by = "url" <=> Layer(l).url)

\* A host runs no instrument that its environment disables, and none but those
\* that it enables, however the ini file and its own enable contradict that;
\* only what the ini file disables counts more than what the environment
\* enables (README.md:121-122; daemon.go:69-86).
EnvironmentChooses ==
  LET e == env["os"] IN
  Finished =>
    /\ e.disable # Nothing => tickers \cap e.disable = {}
    /\ e.enable \notin {Nothing, {}} /\ cfg.disable = {} => tickers \subseteq e.enable

\* What the README promises of two more variables, and the code does not keep.
\*
\* A mount of /proc that a layer of the ini file sets counts unless a stronger
\* layer sets another: but every layer without the variable sets it to /proc
\* again, and the environment is applied last (cfg.go:111-116).
ProcMountCounts ==
  LET SetsProc(e) == e.proc
  IN cfg.proc = Strongest(SetsProc)

\* The port that the strongest layer sets is the one that is used, unless there
\* is a url: but a layer without a host says nothing by its port, and one with
\* a host and no port takes the port of a weaker one away (cfg.go:97-103).
PortCounts ==
  LET SetsPort(e) == e.port
      l == Strongest(SetsPort)
  IN cfg.url.by # "url" /\ l # "default" =>
       cfg.url.by = "host:port" /\ cfg.url.layer = l

\* They follow the same layers as the others (README.md:116, 123, 131).
DocumentedLayers == Finished => ProcMountCounts /\ PortCounts
=============================================================================
