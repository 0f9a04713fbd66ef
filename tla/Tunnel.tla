------------------------------- MODULE Tunnel -------------------------------
(* The Cloudflare tunnel (__init__.py, tunnel_control.py, tunnel.py): the      *)
(* options a person saves, the URL phones are told, and the cloudflared add-on *)
(* that the hub starts and stops through the Supervisor.  Every call to the    *)
(* Supervisor is awaited, so jobs run over one another.  A URL is the domain   *)
(* it is derived from, or Path for one that no domain stands for.              *)
EXTENDS Naturals, FiniteSets

CONSTANTS
    None, Path, Domains, Jobs,
    Overlap       \* options are saved, and the watchdog runs, while other jobs do

VARIABLES
    domain, on,          \* the entry's options
    applied,             \* tunnel_options_applied: the domain last taken in
    url,                 \* hub_config["tunnel_url"]
    job,                 \* listeners, reconciles, restores and watchdog cycles
    addon,               \* None when it is not installed, or [running, boot]
    cooling,             \* _last_edge_restart is within its cooldown
    clean                \* history: the last jobs went well, and nobody but the
                         \* hub touched the add-on or the URL since

options == <<domain, on>>
vars == <<domain, on, applied, url, job, addon, cooling, clean>>

Urls == {None, Path} \cup Domains
Addons == {None} \cup [running : BOOLEAN, boot : {"auto", "manual"}]
Idle == [step |-> "idle", on |-> FALSE, running |-> FALSE, dom |-> None]

At(j, step) == job[j].step = step
Goes(j, step) == job' = [job EXCEPT ![j].step = step]
Ends(j) == job' = [job EXCEPT ![j] = Idle]
Calm == \A j \in Jobs : At(j, "idle")
Free(j) == At(j, "idle") /\ (Overlap \/ Calm)

-----------------------------------------------------------------------------
(* Options. *)

(* async_step_init saves, and the update listener is called. *)
Save(j) ==
    /\ Free(j)
    /\ \E d \in {None} \cup Domains, b \in BOOLEAN :
         /\ d = None => ~b
         /\ <<d, b>> # options /\ domain' = d /\ on' = b
    /\ clean' = FALSE /\ Goes(j, "listen")
    /\ UNCHANGED <<applied, url, addon, cooling>>

(* Reconciling starts by reading the options. *)
Reconcile(j) ==
    IF domain = None THEN Ends(j) ELSE job' = [job EXCEPT ![j] = [Idle EXCEPT !.step = "list", !.on = on]]

(* _async_options_updated: a domain is advertised; one that was cleared is not *)
(* any more, and the add-on gets its boot mode back.                           *)
Listen(j) ==
    /\ At(j, "listen")
    /\ CASE domain # None /\ url # domain ->
              job' = [job EXCEPT ![j].step = "advertise", ![j].dom = domain] /\ UNCHANGED applied
         [] domain # None /\ url = domain -> applied' = domain /\ Reconcile(j)
         [] domain = None /\ applied # None /\ url = applied ->
              job' = [job EXCEPT ![j].step = "withdraw", ![j].dom = applied] /\ UNCHANGED applied
         [] OTHER ->
              /\ applied' = None
              /\ IF applied = None THEN Ends(j) ELSE Goes(j, "restore")
    /\ UNCHANGED <<options, url, addon, cooling, clean>>

(* _async_sync_tunnel_url, after its write; a hub whose write fails while it *)
(* sets up does not come up.                                                 *)
Advertise(j) ==
    /\ job[j].step \in {"advertise", "sync"}
    /\ \/ url' = job[j].dom /\ applied' = domain /\ Reconcile(j)
       \/ At(j, "advertise") /\ UNCHANGED <<url, applied>> /\ Ends(j)
    /\ UNCHANGED <<options, addon, cooling, clean>>

Withdraw(j) ==
    /\ At(j, "withdraw")
    /\ \/ url' = None /\ applied' = domain /\ Goes(j, "restore")
       \/ UNCHANGED <<url, applied>> /\ Ends(j)
    /\ UNCHANGED <<options, addon, cooling, clean>>

(* The set_tunnel_url service; a bare origin is the options' domain as well. *)
SetUrl(j) ==
    /\ Free(j)
    /\ \E u \in {Path} \cup Domains :
         /\ url' = u /\ applied' = domain
         /\ IF u = Path \/ u = domain THEN UNCHANGED options /\ UNCHANGED job
            ELSE domain' = u /\ on' = (domain = None \/ on) /\ Goes(j, "listen")
    /\ clean' = FALSE
    /\ UNCHANGED <<addon, cooling>>

-----------------------------------------------------------------------------
(* _async_reconcile_tunnel, call by call. *)

(* TunnelControlError: the add-on is left as it is. *)
Fails(j) ==
    /\ job[j].step \in {"list", "info", "auto", "start", "stop", "manual", "restore",
                        "probe", "restart"}
    /\ clean' = FALSE /\ Ends(j)
    /\ UNCHANGED <<options, applied, url, addon, cooling>>

Discover(j) ==
    /\ At(j, "list") /\ IF addon = None THEN Ends(j) ELSE Goes(j, "info")
    /\ UNCHANGED <<options, applied, url, addon, cooling, clean>>

(* Fault: an add-on that is stopped is left as it is. *)
StateStoppedIsOff(j) ==
    /\ At(j, "info") /\ addon # None
    /\ LET next == CASE job[j].on /\ (~addon.running \/ addon.boot # "auto") -> "auto"
                     [] ~job[j].on /\ addon.running -> "stop"
                     [] OTHER -> "idle"
       IN  /\ IF next = "idle" THEN Ends(j)
              ELSE job' = [job EXCEPT ![j].step = next, ![j].running = addon.running]
           /\ clean' = (clean \/ (next = "idle" /\ job[j].on = on))
    /\ UNCHANGED <<options, applied, url, addon, cooling>>

(* async_state, and what the options ask of it.  Enabling sets the boot mode *)
(* first, disabling stops first.                                             *)
State(j) ==
    /\ At(j, "info") /\ addon # None
    /\ LET next == CASE job[j].on /\ (~addon.running \/ addon.boot # "auto") -> "auto"
                     [] ~job[j].on /\ addon.running -> "stop"
                     [] ~job[j].on /\ ~addon.running /\ addon.boot # "manual" -> "manual"
                     [] OTHER -> "idle"
       IN  /\ IF next = "idle" THEN Ends(j)
              ELSE job' = [job EXCEPT ![j].step = next, ![j].running = addon.running]
           /\ clean' = (clean \/ (next = "idle" /\ job[j].on = on))
    /\ UNCHANGED <<options, applied, url, addon, cooling>>

(* A call that the Supervisor carries out on the add-on; the last one ends it. *)
Call(j, step, new, next) ==
    /\ At(j, step) /\ addon # None
    /\ addon' = new
    /\ IF next = "idle" THEN Ends(j) /\ clean' = (clean \/ job[j].on = on)
       ELSE Goes(j, next) /\ UNCHANGED clean
    /\ UNCHANGED <<options, applied, url, cooling>>

SetAuto(j) ==
    Call(j, "auto", [addon EXCEPT !.boot = "auto"], IF job[j].running THEN "idle" ELSE "start")
StartAddon(j) == Call(j, "start", [addon EXCEPT !.running = TRUE], "idle")
StopAddon(j) == Call(j, "stop", [addon EXCEPT !.running = FALSE], "manual")
SetManual(j) == Call(j, "manual", [addon EXCEPT !.boot = "manual"], "idle")

(* _async_restore_tunnel_boot: the add-on is not started. *)
Restore(j) ==
    /\ At(j, "restore") /\ Ends(j)
    /\ addon' = IF addon = None THEN None ELSE [addon EXCEPT !.boot = "auto"]
    /\ clean' = (clean \/ domain = None)
    /\ UNCHANGED <<options, applied, url, cooling>>

-----------------------------------------------------------------------------
(* The watchdog: an add-on that runs but has lost Cloudflare is restarted,  *)
(* once in a cooldown.  The options and the add-on's state are read before  *)
(* the probe, which takes up to ten seconds.                                *)
Watch(j) ==
    /\ Free(j) /\ domain # None /\ on /\ url # None
    /\ addon # None /\ addon.running
    /\ Goes(j, "probe")
    /\ UNCHANGED <<options, applied, url, addon, cooling, clean>>

Probe(j) ==
    /\ At(j, "probe")
    /\ \/ Ends(j)                            \* up, or nothing answered
       \/ ~cooling /\ Goes(j, "restart")     \* the edge says that it is down
    /\ UNCHANGED <<options, applied, url, addon, cooling, clean>>

RestartAddon(j) ==
    /\ At(j, "restart") /\ addon # None
    /\ addon' = [addon EXCEPT !.running = TRUE] /\ cooling' = TRUE /\ Ends(j)
    /\ UNCHANGED <<options, applied, url, clean>>

Cooled ==
    /\ cooling /\ cooling' = FALSE
    /\ UNCHANGED <<options, applied, url, job, addon, clean>>

-----------------------------------------------------------------------------
(* The world: a person installs, removes, starts or stops the add-on, and  *)
(* the host reboots, with the hub or the hub alone.  A start of the hub    *)
(* syncs the URL and reconciles.                                           *)
Meddle ==
    /\ Calm /\ clean' = FALSE
    /\ addon' \in Addons \ {addon}
    /\ UNCHANGED <<options, applied, url, job, cooling>>

Boot(j) ==
    /\ (Overlap \/ Calm)
    /\ \/ addon' = IF addon = None THEN None ELSE [addon EXCEPT !.running = (addon.boot = "auto")]
       \/ UNCHANGED addon
    /\ cooling' = FALSE /\ clean' = FALSE
    /\ IF domain # None /\ url # domain
       THEN /\ job' = [k \in Jobs |-> IF k = j THEN [Idle EXCEPT !.step = "sync", !.dom = domain]
                                      ELSE Idle]
            /\ applied' = None
       ELSE /\ job' = [k \in Jobs |-> IF k = j /\ domain # None
                                      THEN [Idle EXCEPT !.step = "list", !.on = on] ELSE Idle]
            /\ applied' = domain
    /\ UNCHANGED <<options, url>>

Init ==
    /\ domain = None /\ on = FALSE /\ applied = None /\ url = None
    /\ job = [j \in Jobs |-> Idle] /\ cooling = FALSE /\ clean = FALSE
    /\ addon \in Addons

Next ==
    \/ Cooled \/ Meddle
    \/ \E j \in Jobs :
         \/ Save(j) \/ Listen(j) \/ Advertise(j) \/ Withdraw(j) \/ SetUrl(j)
         \/ Fails(j) \/ Discover(j) \/ State(j) \/ SetAuto(j) \/ StartAddon(j)
         \/ StopAddon(j) \/ SetManual(j) \/ Restore(j)
         \/ Watch(j) \/ Probe(j) \/ RestartAddon(j) \/ Boot(j)

Spec == Init /\ [][Next]_vars
-----------------------------------------------------------------------------
TypeOK ==
    /\ domain \in {None} \cup Domains /\ applied \in {None} \cup Domains /\ url \in Urls
    /\ {on, cooling, clean} \subseteq BOOLEAN /\ addon \in Addons
    /\ \A j \in Jobs : job[j].dom \in {None} \cup Domains /\ {job[j].on, job[j].running} \subseteq BOOLEAN

(* Once the jobs are done and went well: a tunnel that is switched on runs and *)
(* starts with the host, one that is switched off does neither, an add-on the  *)
(* hub gave up is not left to manual start, and phones are told of the domain  *)
(* that is set, or of what set_tunnel_url gave them instead.                   *)
TunnelAsSaved ==
    (Calm /\ clean) =>
        /\ domain # None => url \in {Path, domain}
        /\ addon # None =>
             IF domain = None THEN addon.boot = "auto"
             ELSE addon.running = on /\ addon.boot = (IF on THEN "auto" ELSE "manual")

=============================================================================
