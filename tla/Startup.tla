------------------------------- MODULE Startup -------------------------------
(***************************************************************************)
(* How the agent comes to know who it is and what it may do, and how the   *)
(* platform comes to know it: config.Load (internal/config/config.go), the *)
(* config drive (pkg/isoconfig/reader.go), the steps of run up to          *)
(* pub.Start (cmd/agent/main.go) and the capabilities event                *)
(* (internal/publisher/publisher.go).                                      *)
(*                                                                         *)
(* An operator edits the settings, something mounts and unmounts the drive *)
(* and stops the process, at any moment; systemd starts it again.  Of the  *)
(* settings the model keeps the identity and the two allowlists.           *)
(***************************************************************************)
EXTENDS Integers, Sequences

CONSTANTS
  Settings,   \* the configuration files with the environments beside them
  Drives,     \* the config drives that may be mounted
  Registered, \* the identities that NATS accepts
  MaxChanges  \* bound: edits, mounts, unmounts and stops in a behaviour

Catalog == {"agent.allowed_operations", "services.list", "services.get",
            "services.start", "services.stop", "services.restart",
            "services.reload", "services.enable", "services.disable",
            "system.info", "system.metrics", "system.cpu", "system.memory",
            "system.disk", "system.network", "system.update",
            "telemetry.set_interval", "vm.reboot", "vm.shutdown", "exec"}

Config     == [uuid : STRING, key : STRING, ops : SUBSET STRING, commands : SUBSET STRING]
Identity   == [uuid : STRING, key : STRING]
\* A metadata file: "bad" cannot be read or parsed.
File       == [state : {"absent", "bad", "ok"}, uuid : STRING, key : STRING]
\* What a layer of the configuration has: <<>>, or <<v>> for the value v.
Layer      == [uuid : Seq(STRING), key : Seq(STRING),
               ops : Seq(SUBSET STRING), commands : Seq(SUBSET STRING)]

Absent     == [state |-> "absent", uuid |-> "", key |-> ""]
NoDrive    == [yaml |-> Absent, json |-> Absent]
NoLayer    == [uuid |-> <<>>, key |-> <<>>, ops |-> <<>>, commands |-> <<>>]
Defaults   == [uuid |-> "", key |-> "", ops |-> Catalog \ {"exec"}, commands |-> {}]
NoConfig   == [uuid |-> "", key |-> "", ops |-> {}, commands |-> {}]
NoIdentity == [uuid |-> "", key |-> ""]
NoNews     == [ops |-> {}, commands |-> {}]

ASSUME SettingsAssumption ==
  Settings \subseteq [readable : BOOLEAN, file : Layer, env : Layer]
ASSUME DrivesAssumption == Drives \subseteq [yaml : File, json : File]
ASSUME BoundsAssumption == MaxChanges \in Nat

VARIABLES
  settings,   \* on disk: the file, whether Load can read it, the environment
  drive,      \* what is mounted at iso.mount_path
  changes,    \* edits, mounts, unmounts and stops so far
  stage,      \* where run is
  env,        \* the environment of the process
  cfg,        \* what config.Load returned
  iso,        \* the metadata that isoReader.Read returned
  identity,   \* agentUUID and agentAPIKey
  announced,  \* platform: the last capabilities event
  current,    \* whether this process published it
  seen        \* history: the drives mounted since the process was started

outside == <<settings, drive, changes>>
known   == <<env, cfg, iso, identity>>
news    == <<announced, current>>
vars    == <<outside, stage, known, news, seen>>

-----------------------------------------------------------------------------
(* config.Load: environment over file over defaults.  viper takes an empty *)
(* environment variable for one that is not set.                           *)

LoadOf(e, f) == [k \in DOMAIN Defaults |-> Head(e[k] \o f[k] \o <<Defaults[k]>>)]

(* isoReader.Read, as far as it returns no error. *)

ParsedOr(f, other) == IF f.state = "ok" THEN f ELSE other

\* Mutant: the drive's key is a fallback for the configured one.
OverrideKeepsKey(c, m) ==
  IF m.uuid = "" THEN [uuid |-> c.uuid, key |-> c.key]
  ELSE [uuid |-> m.uuid, key |-> IF c.key = "" THEN m.key ELSE c.key]

\* The drive's id and key replace the configured ones, also when it has no
\* key; a drive without an id is ignored.
Override(c, m) ==
  IF m.uuid = "" THEN [uuid |-> c.uuid, key |-> c.key]
  ELSE [uuid |-> m.uuid, key |-> m.key]

(* sendCapabilities. *)

\* An empty list stands for the whole catalog, exec included.
Capabilities(c) ==
  [ops |-> IF c.ops = {} THEN Catalog ELSE c.ops \cap Catalog,
   commands |-> IF c.ops = {} \/ "exec" \in c.ops THEN c.commands ELSE {}]

-----------------------------------------------------------------------------
(* The surroundings of the process. *)

Change == changes < MaxChanges /\ changes' = changes + 1

Edit(s) ==
  /\ Change
  /\ settings' = s
  /\ UNCHANGED <<drive, stage, known, news, seen>>

\* A drive has to be unmounted before another one is mounted.
Mount(d) ==
  /\ Change
  /\ drive = NoDrive \/ d = NoDrive
  /\ drive' = d
  /\ seen' = IF stage = "down" THEN {} ELSE seen \cup {d}
  /\ UNCHANGED <<settings, stage, known, news>>

\* What the process knew is gone.
Ended ==
  /\ stage' = "down"
  /\ env' = NoLayer /\ cfg' = NoConfig /\ iso' = Absent /\ identity' = NoIdentity
  /\ current' = FALSE /\ seen' = {}
  /\ UNCHANGED announced

Stop ==
  /\ Change
  /\ stage # "down"
  /\ Ended
  /\ UNCHANGED <<settings, drive>>

-----------------------------------------------------------------------------
(* run. *)

\* systemd reads the environment file when it starts the process.
Launch ==
  /\ stage = "down"
  /\ stage' = "launched"
  /\ env' = settings.env
  /\ seen' = {drive}
  /\ UNCHANGED <<outside, cfg, iso, identity, news>>

\* A file that does not parse, or a named file that is missing, ends run.
Load ==
  /\ stage = "launched"
  /\ IF settings.readable
     THEN /\ stage' = "loaded"
          /\ cfg' = LoadOf(env, settings.file)
          /\ UNCHANGED <<env, iso, identity, news, seen>>
     ELSE Ended
  /\ UNCHANGED outside

\* Mutant: what could not be parsed is used.
ReadYamlUnparsed ==
  /\ stage = "loaded"
  /\ stage' = IF drive.yaml.state = "absent" THEN "noYaml" ELSE "read"
  /\ iso' = drive.yaml
  /\ UNCHANGED <<outside, env, cfg, identity, news, seen>>

\* Mutant: a drive that cannot be read ends run.
ReadYamlFatal ==
  /\ stage = "loaded"
  /\ IF drive.yaml.state = "bad"
     THEN Ended
     ELSE /\ stage' = IF drive.yaml.state = "absent" THEN "noYaml" ELSE "read"
          /\ iso' = ParsedOr(drive.yaml, Absent)
          /\ UNCHANGED <<env, cfg, identity, news, seen>>
  /\ UNCHANGED outside

\* Only a missing metadata.yaml makes Read look at metadata.json; run takes
\* an error for an empty drive.
ReadYaml ==
  /\ stage = "loaded"
  /\ stage' = IF drive.yaml.state = "absent" THEN "noYaml" ELSE "read"
  /\ iso' = ParsedOr(drive.yaml, Absent)
  /\ UNCHANGED <<outside, env, cfg, identity, news, seen>>

ReadJson ==
  /\ stage = "noYaml"
  /\ stage' = "read"
  /\ iso' = ParsedOr(drive.json, Absent)
  /\ UNCHANGED <<outside, env, cfg, identity, news, seen>>

Resolve ==
  /\ stage = "read"
  /\ stage' = "resolved"
  /\ identity' = Override(cfg, iso)
  /\ UNCHANGED <<outside, env, cfg, iso, news, seen>>

\* nats.Connect tries once; its failure ends run.
Connect ==
  /\ stage = "resolved"
  /\ IF identity \in Registered
     THEN stage' = "connected" /\ UNCHANGED <<known, news, seen>>
     ELSE Ended
  /\ UNCHANGED outside

Subscribe ==
  /\ stage = "connected"
  /\ stage' = "subscribed"
  /\ UNCHANGED <<outside, known, news, seen>>

\* A capabilities event that cannot be published is only logged.
SendCapabilities(sent) ==
  IF sent
  THEN announced' = Capabilities(cfg) /\ current' = TRUE
  ELSE UNCHANGED news

Start(sent) ==
  /\ stage = "subscribed"
  /\ stage' = "running"
  /\ SendCapabilities(sent)
  /\ UNCHANGED <<outside, known, seen>>

\* agent.allowed_operations, which may come before Start.
Ask(sent) ==
  /\ stage \in {"subscribed", "running"}
  /\ "agent.allowed_operations" \in cfg.ops
  /\ SendCapabilities(sent)
  /\ UNCHANGED <<outside, stage, known, seen>>

Run ==
  \/ Launch \/ Load \/ ReadYaml \/ ReadJson \/ Resolve
  \/ Connect \/ Subscribe \/ (\E sent \in BOOLEAN : Start(sent))

-----------------------------------------------------------------------------

Init ==
  /\ settings \in Settings /\ drive \in Drives \cup {NoDrive} /\ changes = 0
  /\ stage = "down"
  /\ env = NoLayer /\ cfg = NoConfig /\ iso = Absent /\ identity = NoIdentity
  /\ announced = NoNews /\ current = FALSE
  /\ seen = {}

Next ==
  \/ \E s \in Settings : Edit(s)
  \/ \E d \in Drives \cup {NoDrive} : Mount(d)
  \/ Stop
  \/ Run
  \/ \E sent \in BOOLEAN : Ask(sent)

Spec == Init /\ [][Next]_vars

\* systemd starts the process again (Restart=always) and run goes on.
FairSpec == Spec /\ WF_vars(Run)

-----------------------------------------------------------------------------
(* Properties. *)

TypeOK ==
  /\ settings \in Settings
  /\ drive \in Drives \cup {NoDrive}
  /\ changes \in 0..MaxChanges
  /\ stage \in {"down", "launched", "loaded", "noYaml", "read", "resolved",
                "connected", "subscribed", "running"}
  /\ env \in {NoLayer} \cup {s.env : s \in Settings}
  /\ DOMAIN cfg = DOMAIN Defaults
  /\ iso \in {Absent} \cup {f \in {d.yaml : d \in Drives} \cup {d.json : d \in Drives} :
                              f.state = "ok"}
  /\ DOMAIN identity = {"uuid", "key"}
  /\ DOMAIN announced = {"ops", "commands"}
  /\ current \in BOOLEAN
  /\ seen \subseteq Drives \cup {NoDrive}

\* What can be read on the drive d: each of its files, whichever comes first.
Found(d) ==
  LET present == {f \in {d.yaml, d.json} : f.state # "absent"}
  IN  IF present = {} THEN {Absent} ELSE {ParsedOr(f, Absent) : f \in present}

\* What Read looks for on the drive d.
Preferred(d) == ParsedOr(IF d.yaml.state = "absent" THEN d.json ELSE d.yaml, Absent)

\* Who the agent may be with the configuration c and the metadata f.  The key
\* belongs to the id, unless f has only one of the two: then either key may.
Identities(c, f) ==
  [uuid : {IF f.uuid = "" THEN c.uuid ELSE f.uuid},
   key  : CASE f.uuid # "" /\ f.key # "" -> {f.key}
            [] f.uuid = "" /\ f.key = "" -> {c.key}
            [] OTHER                    -> {c.key, f.key}]

Resolved == stage \in {"resolved", "connected", "subscribed", "running"}

\* However drives are mounted and unmounted while they are read, the agent is
\* what one file, of a drive that was there since the start, makes it: it never
\* has the id of one source with the key of another, and a drive that was there
\* all the time is not missed.  The id that system.info gives is the agent's
\* own (run's identity, Reader.Read, GetInfo's VMID).
IdentityOfOneDrive ==
  Resolved => /\ \E d \in seen : \E f \in Found(d) : identity \in Identities(cfg, f)
              /\ iso.uuid \in {"", identity.uuid}

\* A process started now would come to run.
Sound ==
  /\ settings.readable
  /\ Identities(LoadOf(settings.env, settings.file), Preferred(drive)) \subseteq Registered

\* Whatever failed before, an agent whose file can be read and whose identity
\* NATS accepts runs in the end: a drive that cannot be read does not stop it,
\* and an identity read too early is read again (run's errors, Restart=always).
EventuallyRuns == <>[]Sound => <>[](stage = "running")

(* What comments and tests say. *)

\* config.go, APIKey: "the fallback NATS authentication token when the ISO
\* config drive does not carry an agent_api_key".
KeyFallsBack == Resolved /\ iso.uuid # "" /\ iso.key = "" => identity.key = cfg.key

\* reader_test.go: "expected YAML to take precedence over JSON fallback": what
\* was read is what some drive that was mounted has to say.
YamlTakesPrecedence == Resolved => \E d \in seen : iso = Preferred(d)

\* publisher.go, operationCatalog: "Only operations present in
\* AllowedOperations are published."
OnlyAllowedAnnounced == current => announced.ops \subseteq cfg.ops

=============================================================================
