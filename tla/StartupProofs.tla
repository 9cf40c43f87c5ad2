----------------------------- MODULE StartupProofs -----------------------------
(* Theorems about Startup for any settings, drives and registered identities, *)
(* and for any number of edits, mounts, unmounts and stops.                   *)
EXTENDS Startup, TLAPS

Mounts == Drives \cup {NoDrive}

LEMMA NoDriveFiles == NoDrive.yaml = Absent /\ NoDrive.json = Absent
BY DEF NoDrive

LEMMA AbsentFile == Absent.state = "absent" /\ Absent.uuid = ""
BY DEF Absent

-----------------------------------------------------------------------------

LEMMA LoadedFields ==
  ASSUME NEW e, NEW f
  PROVE  DOMAIN LoadOf(e, f) = DOMAIN Defaults
BY DEF LoadOf

LEMMA EndedTyped ==
  ASSUME TypeOK, Ended, changes' \in 0..MaxChanges, settings' = settings, drive' = drive
  PROVE  TypeOK'
BY DEF TypeOK, Ended, NoConfig, NoIdentity, Defaults

Readable == {f \in {d.yaml : d \in Drives} \cup {d.json : d \in Drives} : f.state = "ok"}

LEMMA ReadTyped ==
  ASSUME NEW d \in Mounts, NEW f \in {d.yaml, d.json}
  PROVE  ParsedOr(f, Absent) \in {Absent} \cup Readable
<1>1. CASE f.state # "ok"
  BY <1>1 DEF ParsedOr
<1>2. CASE f.state = "ok"
  <2>1. d \in Drives
    BY <1>2, AbsentFile, NoDriveFiles DEF Mounts
  <2> QED BY <1>2, <2>1 DEF ParsedOr, Readable
<1> QED BY <1>1, <1>2

LEMMA TypedStep == ASSUME TypeOK, [Next]_vars PROVE TypeOK'
<1> USE DEF TypeOK
<1>1. ASSUME NEW s \in Settings, Edit(s) PROVE TypeOK'
  BY <1>1, BoundsAssumption DEF Edit, Change, known, news
<1>2. ASSUME NEW d \in Mounts, Mount(d) PROVE TypeOK'
  BY <1>2, BoundsAssumption DEF Mount, Mounts, Change, known, news
<1>3. CASE Stop
  BY <1>3, EndedTyped, BoundsAssumption DEF Stop, Change
<1>4. CASE Launch
  BY <1>4 DEF Launch, outside, news
<1>5. CASE Load
  <2>1. CASE settings.readable
    BY <1>5, <2>1, LoadedFields DEF Load, outside, news
  <2>2. CASE ~settings.readable
    BY <1>5, <2>2, EndedTyped DEF Load, outside
  <2> QED BY <2>1, <2>2
<1>6. CASE ReadYaml
  <2>1. iso' \in {Absent} \cup Readable
    BY <1>6, ReadTyped DEF ReadYaml, Mounts
  <2> QED BY <1>6, <2>1 DEF ReadYaml, Readable, outside, news
<1>7. CASE ReadJson
  <2>1. iso' \in {Absent} \cup Readable
    BY <1>7, ReadTyped DEF ReadJson, Mounts
  <2> QED BY <1>7, <2>1 DEF ReadJson, Readable, outside, news
<1>8. CASE Resolve
  BY <1>8 DEF Resolve, Override, outside, news
<1>9. CASE Connect
  <2>1. CASE identity \in Registered
    BY <1>9, <2>1 DEF Connect, outside, known, news
  <2>2. CASE identity \notin Registered
    BY <1>9, <2>2, EndedTyped DEF Connect, outside
  <2> QED BY <2>1, <2>2
<1>10. CASE Subscribe
  BY <1>10 DEF Subscribe, outside, known, news
<1>11. ASSUME NEW sent \in BOOLEAN, Start(sent) \/ Ask(sent) PROVE TypeOK'
  BY <1>11 DEF Start, Ask, SendCapabilities, Capabilities, outside, known, news
<1>12. CASE UNCHANGED vars
  BY <1>12 DEF vars, outside, known, news
<1> QED
  BY <1>1, <1>2, <1>3, <1>4, <1>5, <1>6, <1>7, <1>8, <1>9, <1>10, <1>11, <1>12
  DEF Next, Run, Mounts

\* Settings, drive, stage, configuration, metadata, identity and announcement
\* stay in their types.
THEOREM TypeCorrect == Spec => []TypeOK
<1>1. Init => TypeOK
  <2>1. Init => changes \in 0..MaxChanges
    BY BoundsAssumption DEF Init
  <2>2. Init => DOMAIN cfg = DOMAIN Defaults
    BY DEF Init, NoConfig, Defaults
  <2>3. Init => DOMAIN identity = {"uuid", "key"} /\ DOMAIN announced = {"ops", "commands"}
    BY DEF Init, NoIdentity, NoNews
  <2> QED BY <2>1, <2>2, <2>3 DEF Init, TypeOK
<1> QED BY <1>1, TypedStep, PTL DEF Spec

-----------------------------------------------------------------------------
(* The identity. *)

HasRead == stage = "read" \/ Resolved

ReadInv ==
  /\ stage # "down" => drive \in seen
  /\ stage = "noYaml" => drive.yaml.state = "absent" \/ NoDrive \in seen
  /\ HasRead => iso \in UNION {Found(d) : d \in seen}
  /\ Resolved => identity = Override(cfg, iso)

LEMMA ReadStep == ASSUME TypeOK, ReadInv, [Next]_vars PROVE ReadInv'
<1> USE DEF ReadInv, HasRead, Resolved
<1>1. ASSUME NEW s \in Settings, Edit(s) PROVE ReadInv'
  BY <1>1 DEF Edit, known, news
<1>2. ASSUME NEW d \in Mounts, Mount(d) PROVE ReadInv'
  <2>1. CASE stage = "down"
    BY <1>2, <2>1 DEF Mount, known
  <2>2. CASE stage # "down"
    <3>1. seen' = seen \cup {d} /\ drive' = d /\ UNCHANGED <<stage, cfg, iso, identity>>
      BY <1>2, <2>2 DEF Mount, known
    <3>2. drive \in seen
      BY <2>2
    <3>3. d = NoDrive => d.yaml.state = "absent"
      BY NoDriveFiles, AbsentFile
    <3>4. drive = NoDrive \/ d = NoDrive
      BY <1>2 DEF Mount
    <3>5. drive' \in seen'
      BY <3>1
    <3>6. stage = "noYaml" => drive'.yaml.state = "absent" \/ NoDrive \in seen'
      BY <3>1, <3>2, <3>3, <3>4
    <3>7. HasRead' => iso' \in UNION {Found(x) : x \in seen'}
      BY <3>1
    <3>8. Resolved' => identity' = Override(cfg', iso')
      BY <3>1 DEF Override
    <3> QED BY <3>1, <3>5, <3>6, <3>7, <3>8
  <2> QED BY <2>1, <2>2
<1>3. ASSUME Ended PROVE ReadInv'
  BY <1>3 DEF Ended
<1>4. CASE Launch
  BY <1>4 DEF Launch, outside
<1>5. CASE Load
  BY <1>3, <1>5 DEF Load, outside
<1>6. CASE ReadYaml
  <2>1. drive \in seen /\ drive \in Mounts /\ UNCHANGED <<drive, seen>>
    BY <1>6 DEF ReadYaml, TypeOK, outside, Mounts
  <2>2. CASE drive.yaml.state = "absent"
    <3>1. stage' = "noYaml"
      BY <1>6, <2>2 DEF ReadYaml
    <3> QED BY <2>1, <2>2, <3>1
  <2>3. CASE drive.yaml.state # "absent"
    <3>1. iso' = ParsedOr(drive.yaml, Absent) /\ stage' = "read"
      BY <1>6, <2>3 DEF ReadYaml
    <3>2. iso' \in Found(drive)
      BY <2>3, <3>1 DEF Found
    <3> QED BY <2>1, <3>1, <3>2
  <2> QED BY <2>2, <2>3
<1>7. CASE ReadJson
  <2>1. drive \in seen /\ UNCHANGED <<drive, seen>>
    BY <1>7 DEF ReadJson, outside
  <2>2. iso' = ParsedOr(drive.json, Absent) /\ stage' = "read" /\ stage = "noYaml"
    BY <1>7 DEF ReadJson
  <2>3. CASE drive.json.state # "absent"
    <3>1. iso' \in Found(drive)
      BY <2>2, <2>3 DEF Found
    <3> QED BY <2>1, <2>2, <3>1
  <2>4. CASE drive.json.state = "absent"
    <3>1. iso' = Absent
      BY <2>2, <2>4 DEF ParsedOr
    <3>2. \A d : d.yaml.state = "absent" /\ d.json.state = "absent" => Found(d) = {Absent}
      BY DEF Found
    <3>3. Found(NoDrive) = {Absent}
      BY <3>2, NoDriveFiles, AbsentFile
    <3>4. drive.yaml.state = "absent" => Found(drive) = {Absent}
      BY <2>4, <3>2
    <3> QED BY <2>1, <2>2, <3>1, <3>3, <3>4
  <2> QED BY <2>3, <2>4
<1>8. CASE Resolve
  BY <1>8 DEF Resolve, outside
<1>9. CASE Connect
  BY <1>3, <1>9 DEF Connect, outside, known
<1>10. CASE Subscribe
  BY <1>10 DEF Subscribe, outside, known
<1>11. ASSUME NEW sent \in BOOLEAN, Start(sent) \/ Ask(sent) PROVE ReadInv'
  BY <1>11 DEF Start, Ask, outside, known
<1>12. CASE UNCHANGED vars
  BY <1>12 DEF vars, outside, known
<1>13. CASE Stop
  BY <1>3, <1>13 DEF Stop
<1> QED
  BY <1>1, <1>2, <1>4, <1>5, <1>6, <1>7, <1>8, <1>9, <1>10, <1>11, <1>12, <1>13
  DEF Next, Run, Mounts

\* What Override makes of a configuration and a file is one of the identities
\* that they allow.
LEMMA OverrideAllowed ==
  ASSUME NEW c, NEW m
  PROVE  Override(c, m) \in Identities(c, m)
BY DEF Override, Identities

\* For any settings and drives, with one file, both or none, and however often
\* they are changed while they are read, the agent is who one file of one drive
\* makes it: ids and keys of two sources are not mixed (run, Reader.Read).
THEOREM IdentityOfOneDriveAlways == Spec => []IdentityOfOneDrive
<1>1. Init => ReadInv
  BY DEF Init, ReadInv, HasRead, Resolved
<1>2. ReadInv => IdentityOfOneDrive
  <2> SUFFICES ASSUME ReadInv, Resolved PROVE IdentityOfOneDrive
    BY DEF IdentityOfOneDrive
  <2>1. PICK d \in seen : iso \in Found(d)
    BY DEF ReadInv, HasRead
  <2>2. identity = Override(cfg, iso)
    BY DEF ReadInv
  <2>3. identity \in Identities(cfg, iso)
    BY <2>2, OverrideAllowed
  <2>4. iso.uuid \in {"", identity.uuid}
    BY <2>2 DEF Override
  <2> QED BY <2>1, <2>3, <2>4 DEF IdentityOfOneDrive
<1> QED BY <1>1, <1>2, ReadStep, TypeCorrect, PTL DEF Spec

=============================================================================
