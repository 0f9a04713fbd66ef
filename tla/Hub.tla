-------------------------------- MODULE Hub ---------------------------------
(***************************************************************************)
(* Eight parts of the hub that share nothing: part says which of them a    *)
(* behaviour runs, and the others' variables are None throughout.          *)
(***************************************************************************)
EXTENDS Naturals, FiniteSets, Sequences

CONSTANTS
    None, Path,
    Installs, LastVersion, MaxHalts,                         \* Upgrade
    Domains, TunnelJobs,                                     \* Tunnel
    Relays, MaxCodes,                                        \* Relay
    Owners, Guests, PushTokens, PushJobs,                    \* Push
    Events, Nonces, ReminderJobs, Skew, NonceRetention,      \* Reminder
    MaxEvents, ReminderTime,
    Shellies, Adds, Removals, Sweeps, MaxMints,              \* Tank
    Phone, Strangers, LoginJobs, MaxFailures, LockoutSteps,  \* Login
    MaxEntries, ChallengeTTL, MaxChallenges, MaxIssued, LoginTime,
    Rooms, Viewers, TicketTTL, MaxTickets, MaxVer,           \* Streams
    MaxViews, ViewTime

(* There are releases; None is no version. *)
ASSUME UpgradeAssumption == LastVersion \in Nat \ {0} /\ MaxHalts \in Nat /\ None \notin Nat

(* Lockouts do not get shorter (LOCKOUT_STEPS), and None is no counter. *)
ASSUME LoginAssumption ==
    /\ {MaxIssued, LoginTime, ChallengeTTL} \subseteq Nat
    /\ {MaxFailures, MaxChallenges} \subseteq Nat \ {0}
    /\ LockoutSteps \in Seq(Nat) /\ Len(LockoutSteps) > 0
    /\ \A i, k \in 1 .. Len(LockoutSteps) : i <= k => LockoutSteps[i] <= LockoutSteps[k]
    /\ None \notin [failures : Nat, until : Nat, level : Nat]

(* A fresh hub has a code. *)
ASSUME RelayAssumption == MaxCodes \in Nat \ {0}

(* None is no phone and no member. *)
ASSUME PushAssumption == None \notin Owners \cup Guests \cup {"owner", "guest"}

(* A nonce is kept until no copy of its request is recent enough (60 and 300  *)
(* seconds, hq_notifications.py); None is no time and no request.             *)
ASSUME ReminderAssumption ==
    /\ {Skew, NonceRetention, MaxEvents, ReminderTime} \subseteq Nat
    /\ NonceRetention >= 2 * Skew /\ IsFiniteSet(Events)
    /\ None \notin Nat \cup ReminderJobs

(* None is no token. *)
ASSUME TankAssumption == MaxMints \in Nat /\ None \notin Nat

(* MAX_TICKETS is not zero, and None is no device. *)
ASSUME StreamAssumption ==
    /\ {MaxVer, MaxTickets} \subseteq Nat \ {0} /\ {MaxViews, ViewTime, TicketTTL} \subseteq Nat
    /\ None \notin Rooms \cup {"hidden"}
    /\ None \notin [ver : Nat, rooms : {None} \cup SUBSET Rooms, access : {"none", "rooms", "all"}]

VARIABLES part,
    published, known, fresh, swapped, ins, live, rollback, legacy, stray, broken,
    running, hub, db, backups, halts,
    domain, tunnelOn, tunnelApplied, url, tunnelJob, addon, cooling, clean,
    entry, relayApplied, push, reg, entryState, listening, reloads, aims, told,
    new, paired, token, data, pushJob, pushActive, dead, asked, late,
    now, signed, key, nonces, events, reminderJob, lock, let, recorded,
    record, reading, low, scripts, add, removal, minted, sweep, marks,
    answered, deleted, pushed,
    loginNow, enrolled, entries, challenges, issued, loginJob, open, logins, due,
    viewNow, phone, place, loaded, tickets, views, request, outdated, lost,
    ends, shown

Upgrade == INSTANCE Upgrade WITH Quits <- FALSE
Tunnel == INSTANCE Tunnel WITH
    Jobs <- TunnelJobs, Overlap <- FALSE,
    on <- tunnelOn, applied <- tunnelApplied, job <- tunnelJob
Relay == INSTANCE Relay WITH
    Busy <- FALSE, applied <- relayApplied, hub <- entryState
Push == INSTANCE Push WITH
    Tokens <- PushTokens, Jobs <- PushJobs, job <- pushJob, active <- pushActive
Reminder == INSTANCE Reminder WITH
    Jobs <- ReminderJobs, Retention <- NonceRetention, Patience <- 0, MaxTime <- ReminderTime,
    job <- reminderJob
Tank == INSTANCE Tank
Login == INSTANCE Login WITH
    Steps <- LockoutSteps, Jobs <- LoginJobs, TTL <- ChallengeTTL, MaxTime <- LoginTime,
    now <- loginNow, paired <- enrolled, job <- loginJob
Streams == INSTANCE Streams WITH
    Requests <- Viewers, TTL <- TicketTTL, MaxMints <- MaxViews, MaxTime <- ViewTime,
    now <- viewNow, minted <- views, late <- outdated

upgradeVars == <<published, known, fresh, swapped, ins, live, rollback, legacy, stray,
                 broken, running, hub, db, backups, halts>>
tunnelVars == <<domain, tunnelOn, tunnelApplied, url, tunnelJob, addon, cooling, clean>>
relayVars == <<entry, relayApplied, push, reg, entryState, listening, reloads, aims, told>>
pushVars == <<new, paired, token, data, pushJob, pushActive, dead, asked, late>>
reminderVars == <<now, signed, key, nonces, events, reminderJob, lock, let, recorded>>
tankVars == <<record, reading, low, scripts, add, removal, minted, sweep, marks,
              answered, deleted, pushed>>
loginVars == <<loginNow, enrolled, entries, challenges, issued, loginJob, open, logins,
               due>>
streamVars == <<viewNow, phone, place, loaded, tickets, views, request, outdated,
                lost, ends, shown>>
hubVars == <<part, upgradeVars, tunnelVars, relayVars, pushVars, reminderVars,
             tankVars, loginVars, streamVars>>

NoUpgrade ==
    /\ published = None /\ known = None /\ fresh = None /\ swapped = None
    /\ ins = None /\ live = None /\ rollback = None /\ legacy = None
    /\ stray = None /\ broken = None /\ running = None /\ hub = None
    /\ db = None /\ backups = None /\ halts = None
NoTunnel ==
    /\ domain = None /\ tunnelOn = None /\ tunnelApplied = None /\ url = None
    /\ tunnelJob = None /\ addon = None /\ cooling = None /\ clean = None
NoRelay ==
    /\ entry = None /\ relayApplied = None /\ push = None /\ reg = None
    /\ entryState = None /\ listening = None /\ reloads = None /\ aims = None
    /\ told = None
NoPush ==
    /\ new = None /\ paired = None /\ token = None /\ data = None
    /\ pushJob = None /\ pushActive = None /\ dead = None /\ asked = None
    /\ late = None
NoReminder ==
    /\ now = None /\ signed = None /\ key = None /\ nonces = None
    /\ events = None /\ reminderJob = None /\ lock = None /\ let = None
    /\ recorded = None
NoTank ==
    /\ record = None /\ reading = None /\ low = None /\ scripts = None
    /\ add = None /\ removal = None /\ minted = None /\ sweep = None
    /\ marks = None /\ answered = None /\ deleted = None /\ pushed = None
NoLogin ==
    /\ loginNow = None /\ enrolled = None /\ entries = None /\ challenges = None
    /\ issued = None /\ loginJob = None /\ open = None /\ logins = None /\ due = None
NoStreams ==
    /\ viewNow = None /\ phone = None /\ place = None /\ loaded = None
    /\ tickets = None /\ views = None /\ request = None
    /\ outdated = None /\ lost = None /\ ends = None /\ shown = None

HubInit ==
    /\ part \in {"upgrade", "tunnel", "relay", "push", "reminder", "tank", "login", "streams"}
    /\ IF part = "upgrade" THEN Upgrade!Init ELSE NoUpgrade
    /\ IF part = "tunnel" THEN Tunnel!Init ELSE NoTunnel
    /\ IF part = "relay" THEN Relay!Init ELSE NoRelay
    /\ IF part = "push" THEN Push!Init ELSE NoPush
    /\ IF part = "reminder" THEN Reminder!Init ELSE NoReminder
    /\ IF part = "tank" THEN Tank!Init ELSE NoTank
    /\ IF part = "login" THEN Login!Init ELSE NoLogin
    /\ IF part = "streams" THEN Streams!Init ELSE NoStreams

HubNext ==
    /\ UNCHANGED part
    /\ \/ /\ part = "upgrade" /\ Upgrade!Next
          /\ UNCHANGED <<tunnelVars, relayVars, pushVars, reminderVars, tankVars, loginVars, streamVars>>
       \/ /\ part = "tunnel" /\ Tunnel!Next
          /\ UNCHANGED <<upgradeVars, relayVars, pushVars, reminderVars, tankVars, loginVars, streamVars>>
       \/ /\ part = "relay" /\ Relay!Next
          /\ UNCHANGED <<upgradeVars, tunnelVars, pushVars, reminderVars, tankVars, loginVars, streamVars>>
       \/ /\ part = "push" /\ Push!Next
          /\ UNCHANGED <<upgradeVars, tunnelVars, relayVars, reminderVars, tankVars, loginVars, streamVars>>
       \/ /\ part = "reminder" /\ Reminder!Next
          /\ UNCHANGED <<upgradeVars, tunnelVars, relayVars, pushVars, tankVars, loginVars, streamVars>>
       \/ /\ part = "tank" /\ Tank!Next
          /\ UNCHANGED <<upgradeVars, tunnelVars, relayVars, pushVars, reminderVars, loginVars, streamVars>>
       \/ /\ part = "login" /\ Login!Next
          /\ UNCHANGED <<upgradeVars, tunnelVars, relayVars, pushVars, reminderVars, tankVars, streamVars>>
       \/ /\ part = "streams" /\ Streams!Next
          /\ UNCHANGED <<upgradeVars, tunnelVars, relayVars, pushVars, reminderVars, tankVars, loginVars>>

HubSpec == HubInit /\ [][HubNext]_hubVars

(* As the modules state them, each with its module's type invariant, since a  *)
(* behaviour runs one part.                                                   *)

(* The directories, the database and what runs (update_install.py, update.py, *)
(* storage/migrations.py): the hub never runs code it did not install nor a   *)
(* schema it does not know, and an update leaves a way back.                  *)
CodeKept == part = "upgrade" =>
    Upgrade!TypeOK /\ Upgrade!CodeKept /\ Upgrade!WayBack /\ Upgrade!DataKept

(* What the options form saves is what the hub does: the add-on and the         *)
(* advertised URL end as it says (tunnel_control.py), what runs uses the relay  *)
(* that is saved, and no relay is sent another's code (relay_config.py,         *)
(* relay_registration.py).                                                      *)
OptionsFollowed ==
    /\ part = "tunnel" => Tunnel!TypeOK /\ Tunnel!TunnelAsSaved
    /\ part = "relay" => Relay!TypeOK /\ Relay!RelayAsSaved

(* A phone's token and its member's data go with the phone (push.py,           *)
(* auth_api.py, button.py), and the dispatcher drops dead tokens only.         *)
GoneWithPhone == part = "push" => Push!TypeOK /\ Push!GoneWithPhone

(* A reminder HQ signed is sent once (hq_notifications.py, push_api.py). *)
RemindedOnce == part = "reminder" => Reminder!TypeOK /\ Reminder!RemindedOnce

(* A tank that was answered 201 stays registered (tank_api.py), and is reported *)
(* once a day for each reason (push_dispatcher.py).                             *)
TanksKept == part = "tank" => Tank!TypeOK /\ Tank!ProvisionKept /\ Tank!AlertedOnce

(* A challenge brings one token, a lockout is not shortened, and neither the    *)
(* newest challenges nor the newest tickets of a camera's stream are dropped    *)
(* before their time (throttle.py, auth_engine.py, camera_streams.py); and what *)
(* a phone held before it was edited or removed opens no stream after           *)
(* (camera_api.py).                                                             *)
AccessKept ==
    /\ part = "login" => /\ Login!TypeOK /\ Login!LoginOnce
                         /\ Login!LockoutLasts /\ Login!NewestKept
    /\ part = "streams" => /\ Streams!TypeOK /\ Streams!RevokedForGood
                           /\ Streams!NewestHonoured
=============================================================================
