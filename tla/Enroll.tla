------------------------------- MODULE Enroll -------------------------------
(***************************************************************************)
(* Enrolling, listing and forgetting approver devices.  Two processes      *)
(* share the state directory without a common lock:                        *)
(*                                                                         *)
(*   - the daemon (src/server.rs): enroll_start, enroll_finish and         *)
(*     push_register, each under the daemon's lock, on the device list it  *)
(*     read when it started;                                               *)
(*   - the console (src/bin/shoephoned.rs): `enroll` mints a code, `forget`*)
(*     removes a device if it finds nothing listening.                     *)
(*                                                                         *)
(* A handler's writes are steps of their own, so that a crash, a failed    *)
(* write or a console command may come between two of them.  write_atomic  *)
(* replaces a file whole or not at all.                                    *)
(***************************************************************************)
EXTENDS Integers, FiniteSets, Sequences

CONSTANTS
    Names,         \* device names
    Tokens,        \* push tokens
    NoToken, None,
    CodeTTL,       \* EnrollCode::TTL_SECS
    MaxGuesses,    \* EnrollCode::MAX_FAILURES
    EnrollTTL,     \* CEREMONY_TTL
    AllowSynced,   \* Config::allow_synced_credentials
    Found,         \* the device lists an earlier version may have left
    EnrollTime,    \* bound: the wall clock's readings
    MaxCodes,      \* bound: codes minted
    MaxChallenges, \* bound: ceremonies started
    MaxBoots,      \* bound: times the daemon starts
    MaxFaults      \* bound: writes that fail

VARIABLES
    wall,          \* the wall clock
    deviceFile,    \* devices.json
    codeFile,      \* enroll-code.json, or None while there is none
    process,       \* the daemon: "down", "loaded" (not yet bound) or "up"
    devices,       \* Inner::devices
    ceremony,      \* Inner::enroll, or None
    handler,       \* the handler that holds the lock, between two of its writes
    console,       \* the console command in progress
    minted, challenges, boots, faults,
    answered,      \* history: the credentials enroll_finish answered for
    via,           \* history: the code each credential was saved under
    wrong,         \* history: the "wrong code" answers each code has had
    forgotten,     \* history: the credentials `forget` removed
    acked,         \* history: the last token answered for, by credential
    tried,         \* history: the tokens tried since, and not answered for
    cut,           \* history: the codes whose use was saved but not completed
    raced          \* history: the daemon started while `forget` was running

diskVars == <<deviceFile, codeFile>>
memoryVars == <<process, devices, ceremony, handler>>
enrollHistory == <<answered, via, wrong, forgotten, acked, tried, cut, raced>>
enrollBounds == <<minted, challenges, boots, faults>>
enrollVars == <<wall, diskVars, memoryVars, console, enrollBounds, enrollHistory>>

\* A credential is named by the challenge it answers.  0 is the credential of
\* a device enrolled before push secrets existed.
Legacy == 0
Creds == 0..MaxChallenges
Device(cred, name) == [cred |-> cred, name |-> name, token |-> NoToken]
CredsOf(list) == {d.cred : d \in list}

\* A state directory of an earlier version holds one device at most here: all
\* those without a push secret would have the one credential.
ASSUME EnrollAssumption ==
    /\ {CodeTTL, EnrollTTL, MaxCodes, MaxChallenges, MaxBoots, MaxFaults} \subseteq Nat
    /\ MaxGuesses \in Nat \ {0}
    /\ AllowSynced \in BOOLEAN
    /\ None \notin 1..MaxCodes
    /\ Found \subseteq {{}} \cup {{Device(Legacy, name)} : name \in Names}

Idle == [op |-> "idle"]
Code(code, name, failures) ==
    [code |-> code, name |-> name, expires |-> wall + CodeTTL, failures |-> failures]

\* A write that goes through, or one that fails while the bound allows it.
WriteOK == UNCHANGED faults
WriteFails == faults < MaxFaults /\ faults' = faults + 1

----------------------------------------------------------------------------
(* check_code, which enroll_start and enroll_finish begin with.            *)

Locked == process = "up" /\ handler = Idle
CodeOpen == codeFile # None /\ codeFile.expires > wall
CodeMatches(submitted) == CodeOpen /\ codeFile.code = submitted

\* A code that has expired is cleared, a wrong guess is a strike; the write
\* comes later.  With no code at all the call is refused and nothing changes.
CheckCode(submitted) ==
    /\ Locked
    /\ codeFile # None
    /\ ~CodeMatches(submitted)
    /\ handler' = IF CodeOpen THEN [op |-> "strike", file |-> codeFile]
                              ELSE [op |-> "expire"]
    /\ UNCHANGED <<wall, diskVars, process, devices, ceremony, console,
                   enrollBounds, enrollHistory>>

\* The code as it was read, one failure later, or none when that is the last.
Struck(file) ==
    IF file.failures + 1 >= MaxGuesses THEN None
    ELSE [file EXCEPT !.failures = @ + 1]

Strike ==
    /\ handler.op = "strike"
    /\ handler' = Idle
    /\ \/ /\ WriteOK
          /\ codeFile' = Struck(handler.file)
          /\ wrong' = [wrong EXCEPT ![handler.file.code] = @ + 1]
       \/ WriteFails /\ UNCHANGED <<codeFile, wrong>>
    /\ UNCHANGED <<wall, deviceFile, process, devices, ceremony, console, minted,
                   challenges, boots, answered, via, forgotten, acked, tried, cut, raced>>

Expire ==
    /\ handler.op = "expire"
    /\ handler' = Idle
    /\ (WriteOK /\ codeFile' = None) \/ (WriteFails /\ UNCHANGED codeFile)
    /\ UNCHANGED <<wall, deviceFile, process, devices, ceremony, console, minted,
                   challenges, boots, enrollHistory>>

----------------------------------------------------------------------------
(* enroll_start, enroll_finish and push_register.                          *)

\* A new challenge takes the place of any ceremony in progress.
EnrollStart(submitted) ==
    /\ Locked
    /\ CodeMatches(submitted)
    /\ challenges < MaxChallenges
    /\ challenges' = challenges + 1
    /\ ceremony' = [cred |-> challenges + 1, name |-> codeFile.name, started |-> wall]
    /\ UNCHANGED <<wall, diskVars, process, devices, handler, console, minted,
                   boots, faults, enrollHistory>>

\* What enroll_finish asks of the ceremony it took and the credential it got.
NameIsFree(name) == \A d \in devices : d.name # name
Enrollable(cred, synced) ==
    /\ ceremony # None
    /\ ceremony.started + EnrollTTL > wall
    /\ ceremony.cred = cred
    /\ synced => AllowSynced
    /\ NameIsFree(ceremony.name)

\* The ceremony is taken before anything about it is checked.
EnrollFinish(submitted, cred, synced) ==
    /\ Locked
    /\ CodeMatches(submitted)
    /\ ceremony' = None
    /\ handler' = IF Enrollable(cred, synced)
                  THEN [op |-> "save", device |-> Device(cred, ceremony.name),
                        via |-> submitted]
                  ELSE Idle
    /\ UNCHANGED <<wall, diskVars, process, devices, console, enrollBounds,
                   enrollHistory>>

\* The list is saved with the device on it, before the device is live.
DevicesAtSaveEarly(device) == devices \cup {device}   \* wrong: live first
DevicesAtSave(device) == devices
SaveDevice ==
    /\ handler.op = "save"
    /\ devices' = DevicesAtSave(handler.device)
    /\ \/ /\ WriteOK
          /\ deviceFile' = devices \cup {handler.device}
          /\ via' = [via EXCEPT ![handler.device.cred] = handler.via]
          /\ handler' = [op |-> "clear", device |-> handler.device]
       \/ WriteFails /\ handler' = Idle /\ UNCHANGED <<deviceFile, via>>
    /\ UNCHANGED <<wall, codeFile, process, ceremony, console, minted, challenges,
                   boots, answered, wrong, forgotten, acked, tried, cut, raced>>

\* The code is cleared, and only then is the device live and answered for.
CodeLeft == codeFile   \* wrong: the code outlives its use
CodeCleared == None
ClearCode ==
    /\ handler.op = "clear"
    /\ \/ /\ WriteOK
          /\ codeFile' = CodeCleared
          /\ devices' = devices \cup {handler.device}
          /\ answered' = answered \cup {handler.device.cred}
          /\ handler' = Idle
       \/ /\ WriteFails
          /\ handler' = [op |-> "rollback", device |-> handler.device]
          /\ UNCHANGED <<codeFile, devices, answered>>
    /\ UNCHANGED <<wall, deviceFile, process, ceremony, console, minted, challenges,
                   boots, via, wrong, forgotten, acked, tried, cut, raced>>

Rollback ==
    /\ handler.op = "rollback"
    /\ handler' = Idle
    /\ \/ WriteOK /\ deviceFile' = devices /\ UNCHANGED cut
       \/ WriteFails /\ cut' = cut \cup {via[handler.device.cred]} /\ UNCHANGED deviceFile
    /\ UNCHANGED <<wall, codeFile, process, devices, ceremony, console, minted,
                   challenges, boots, answered, via, wrong, forgotten, acked, tried, raced>>

\* The caller presents the device's push secret, which a device enrolled
\* before there was one does not have.  The token is set, then saved.
Registered(device, token) == (devices \ {device}) \cup {[device EXCEPT !.token = token]}
SavedBefore(device, token) == devices   \* wrong: saved before it is set
SavedList(device, token) == Registered(device, token)
PushRegister(device, token) ==
    /\ Locked
    /\ device \in devices
    /\ device.cred # Legacy
    /\ devices' = Registered(device, token)
    /\ \/ /\ WriteOK
          /\ deviceFile' = SavedList(device, token)
          /\ acked' = [acked EXCEPT ![device.cred] = token]
          /\ tried' = [tried EXCEPT ![device.cred] = {}]
       \/ /\ WriteFails
          /\ tried' = [tried EXCEPT ![device.cred] = @ \cup {token}]
          /\ UNCHANGED <<deviceFile, acked>>
    /\ UNCHANGED <<wall, codeFile, process, ceremony, handler, console, minted,
                   challenges, boots, answered, via, wrong, forgotten, cut, raced>>

----------------------------------------------------------------------------
(* The daemon's process and the console.                                   *)

\* Daemon::new reads the devices; `serve` binds the socket afterwards.
Load ==
    /\ process = "down"
    /\ boots < MaxBoots
    /\ process' = "loaded"
    /\ boots' = boots + 1
    /\ devices' = deviceFile
    /\ raced' = (raced \/ console.op \in {"forget", "write"})
    /\ UNCHANGED <<wall, diskVars, ceremony, handler, console, minted, challenges,
                   faults, answered, via, wrong, forgotten, acked, tried, cut>>

Bind ==
    /\ process = "loaded"
    /\ process' = "up"
    /\ UNCHANGED <<wall, diskVars, devices, ceremony, handler, console,
                   enrollBounds, enrollHistory>>

\* The process ends, in the middle of a handler or not.
Stop ==
    /\ process # "down"
    /\ process' = "down"
    /\ devices' = {}
    /\ ceremony' = None
    /\ handler' = Idle
    /\ cut' = cut \cup (IF handler.op \in {"clear", "rollback"}
                        THEN {via[handler.device.cred]} ELSE {})
    /\ UNCHANGED <<wall, diskVars, console, enrollBounds, answered, via, wrong,
                   forgotten, acked, tried, raced>>

\* `enroll` looks the name up and then writes a new code over any other.
ConsoleEnroll(name) ==
    /\ console = Idle
    /\ minted < MaxCodes
    /\ \A d \in deviceFile : d.name # name
    /\ console' = [op |-> "mint", name |-> name]
    /\ UNCHANGED <<wall, diskVars, memoryVars, enrollBounds, enrollHistory>>

ConsoleMint ==
    /\ console.op = "mint"
    /\ console' = Idle
    /\ \/ /\ WriteOK
          /\ minted' = minted + 1
          /\ codeFile' = Code(minted + 1, console.name, 0)
       \/ WriteFails /\ UNCHANGED <<minted, codeFile>>
    /\ UNCHANGED <<wall, deviceFile, memoryVars, challenges, boots, enrollHistory>>

\* `forget` wants nothing listening and exactly one device by that name or
\* handle; forget_device reads the list again and writes it without the device.
Listening == process = "up"
Matching(target) == {d \in deviceFile : d.name = target \/ d.cred = target}
ConsoleForget(target) ==
    /\ console = Idle
    /\ ~Listening
    /\ Cardinality(Matching(target)) = 1
    /\ console' = [op |-> "forget", cred |-> (CHOOSE d \in Matching(target) : TRUE).cred]
    /\ raced' = (raced \/ process = "loaded")
    /\ UNCHANGED <<wall, diskVars, memoryVars, enrollBounds, answered, via, wrong,
                   forgotten, acked, tried, cut>>

ForgetRead ==
    /\ console.op = "forget"
    /\ console' = IF console.cred \notin CredsOf(deviceFile) THEN Idle
                  ELSE [op |-> "write", cred |-> console.cred,
                        kept |-> {d \in deviceFile : d.cred # console.cred}]
    /\ UNCHANGED <<wall, diskVars, memoryVars, enrollBounds, enrollHistory>>

ForgetWrite ==
    /\ console.op = "write"
    /\ console' = Idle
    /\ \/ /\ WriteOK
          /\ deviceFile' = console.kept
          /\ forgotten' = forgotten \cup {console.cred}
       \/ WriteFails /\ UNCHANGED <<deviceFile, forgotten>>
    /\ UNCHANGED <<wall, codeFile, memoryVars, minted, challenges, boots,
                   answered, via, wrong, acked, tried, cut, raced>>

EnrollTick ==
    /\ wall + 1 \in EnrollTime
    /\ wall' = wall + 1
    /\ UNCHANGED <<diskVars, memoryVars, console, enrollBounds, enrollHistory>>

EnrollInit ==
    /\ wall = 0
    /\ deviceFile \in Found
    /\ codeFile = None
    /\ process = "down"
    /\ devices = {}
    /\ ceremony = None
    /\ handler = Idle
    /\ console = Idle
    /\ minted = 0 /\ challenges = 0 /\ boots = 0 /\ faults = 0
    /\ answered = {}
    /\ via = [c \in Creds |-> None]
    /\ wrong = [c \in 1..MaxCodes |-> 0]
    /\ forgotten = {}
    /\ acked = [c \in Creds |-> NoToken]
    /\ tried = [c \in Creds |-> {}]
    /\ cut = {}
    /\ raced = FALSE

\* What is typed in is any code there ever was, or 0 for none of them.
EnrollNext ==
    \/ \E submitted \in 0..minted : CheckCode(submitted) \/ EnrollStart(submitted)
    \/ \E submitted \in 1..minted, cred \in 1..challenges, synced \in BOOLEAN :
          EnrollFinish(submitted, cred, synced)
    \/ Strike \/ Expire \/ SaveDevice \/ ClearCode \/ Rollback
    \/ \E device \in devices, token \in Tokens : PushRegister(device, token)
    \/ Load \/ Bind \/ Stop
    \/ \E name \in Names : ConsoleEnroll(name)
    \/ \E target \in Names \cup Creds : ConsoleForget(target)
    \/ ConsoleMint \/ ForgetRead \/ ForgetWrite
    \/ EnrollTick

EnrollSpec == EnrollInit /\ [][EnrollNext]_enrollVars

----------------------------------------------------------------------------
(* Properties.                                                             *)

\* "a failure partway through cannot leave a live device the disk does not
\* know about" (enroll_finish): a device that is live, or was answered for, is
\* on disk until it is forgotten, whichever write fails and wherever the
\* daemon stops.
DevicesAreDurable == CredsOf(devices) \cup answered \subseteq CredsOf(deviceFile) \cup forgotten

\* forget: a device that was removed stays removed, on disk and in memory,
\* through every save the daemon makes later.
ForgottenStayGone == forgotten \cap (CredsOf(devices) \cup CredsOf(deviceFile)) = {}

\* The two lists of devices agree on who may approve, unless the daemon was
\* started while `forget` ran, which the console's check cannot see.
DeviceListsAgree == raced \/ (DevicesAreDurable /\ ForgottenStayGone)

\* "One name, one device", and one device for a one-time code, over restarts,
\* codes minted over others and ceremonies begun under an earlier code.  A code
\* whose use was saved and then cut short is still good for another name.
OneDevicePerCode ==
    \A c, d \in devices : c # d =>
        /\ c.name # d.name
        /\ c.cred # Legacy /\ via[c.cred] = via[d.cred] => via[c.cred] \in cut

\* check_code: "concurrent guesses must each cost a strike": a code is told
\* wrong at most MAX_FAILURES times, over failed writes, restarts and a
\* console that mints another code between the read and the write.
GuessesAreBounded == \A c \in 1..MaxCodes : wrong[c] <= MaxGuesses

\* What a one-time code is good for: one device, and MAX_FAILURES guesses.
CodesAreOneTime == OneDevicePerCode /\ GuessesAreBounded

\* push_register sets the token before it saves it.  What it answered for
\* is on disk all the same, until a later call, answered for or not, replaces it.
AckedTokensSurvive ==
    ~raced => \A d \in deviceFile :
        acked[d.cred] # NoToken => d.token \in {acked[d.cred]} \cup tried[d.cred]
============================================================================
