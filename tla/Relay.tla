------------------------------- MODULE Relay --------------------------------
(* The push relay (relay_config.py, relay_registration.py, config_flow.py and  *)
(* its part of __init__.py): the origin and the activation code that a person  *)
(* submits, the reload that takes them in, and the registrar and dispatcher    *)
(* that use them.  A code is the number of its submission.                     *)
EXTENDS Naturals, Sequences

CONSTANTS
    None, Relays,
    MaxCodes,     \* bound: codes submitted
    Busy          \* a person submits while the hub is being set up, too

VARIABLES
    entry,        \* [relay, code, req]: the options and the data; code 0 is none
    applied,      \* relay_config_applied
    push, reg,    \* the relay of the dispatcher; the registrar
    hub,          \* how far set-up or unload is
    listening,    \* the update listener is registered
    reloads,      \* reloads that wait for the entry's lock
    aims,         \* history: the relay each code was submitted for
    told          \* history: the codes each relay was sent

runtime == <<applied, push, reg>>
history == <<aims, told>>
vars == <<entry, runtime, hub, listening, reloads, history>>

Phases == {"down", "starting", "identity", "late", "up", "unloading", "failed"}
Last == Len(aims)

(* quiesce_relay_runtime *)
Quiesce == push' = None /\ reg' = None

-----------------------------------------------------------------------------
(* A change of the entry and the listener that Home Assistant calls with it. *)

(* relay_reload_required *)
ReloadRequired(new) ==
    new.relay # applied.relay \/ (new.code # 0 /\ new.req # applied.req)

(* _async_options_updated: a reload with a code, a roll-back without one. *)
Update(new) ==
    LET heard == listening /\ applied # None /\ ReloadRequired(new)
    IN  /\ entry' = IF heard /\ new.code = 0 THEN [new EXCEPT !.relay = applied.relay] ELSE new
        /\ reloads' = IF heard /\ new.code # 0 THEN reloads + 1 ELSE reloads

MaySubmit == Last < MaxCodes /\ (Busy \/ hub \notin {"identity", "late"})

Submitted(r) ==
    /\ MaySubmit
    /\ aims' = Append(aims, r)
    /\ Update([relay |-> r, code |-> Last + 1, req |-> Last + 1])

(* Fault: what runs is left to the reload. *)
SubmitRunning(r) ==
    /\ Submitted(r)
    /\ UNCHANGED <<runtime, hub, listening, told>>

(* async_step_init: another relay, or the same one with a new code. *)
Submit(r) ==
    /\ Submitted(r) /\ Quiesce
    /\ UNCHANGED <<applied, hub, listening, told>>

-----------------------------------------------------------------------------
(* The registrar, in the background from the moment it is started. *)

(* A proof with the code is posted; no answer is an answer too. *)
Post ==
    /\ reg # None /\ reg.step = "try"
    /\ reg' = [reg EXCEPT !.step = "sent"]
    /\ told' = told \cup {<<reg.relay, reg.code>>}
    /\ UNCHANGED <<entry, applied, push, hub, listening, reloads, aims>>

Sent == reg # None /\ reg.step = "sent"

Retry ==
    /\ Sent /\ reg' = [reg EXCEPT !.step = "try"]
    /\ UNCHANGED <<entry, applied, push, hub, listening, reloads, history>>

(* on_success takes the code out of the entry, whichever is there. *)
Accepted ==
    /\ Sent /\ reg' = [reg EXCEPT !.step = "done", !.code = 0]
    /\ Update([entry EXCEPT !.code = 0, !.req = 0])
    /\ UNCHANGED <<applied, push, hub, listening, history>>

Refused ==
    /\ Sent /\ reg' = [reg EXCEPT !.step = "done", !.code = 0]
    /\ UNCHANGED <<entry, applied, push, hub, listening, reloads, history>>

-----------------------------------------------------------------------------
(* Set-up and unload. *)

Snapshot == [relay |-> entry.relay, req |-> entry.req]

(* A boot, a retry, or the reload whose turn it is. *)
Start ==
    /\ hub = "down" /\ hub' = "starting" /\ applied' = Snapshot
    /\ reloads' = IF reloads = 0 THEN 0 ELSE reloads - 1
    /\ UNCHANGED <<entry, push, reg, listening, history>>

(* _async_start_push up to its await; without a TLS identity there is no push. *)
StartPush ==
    /\ hub = "starting"
    /\ \/ applied' = Snapshot /\ hub' = IF entry.relay = None THEN "late" ELSE "identity"
       \/ UNCHANGED applied /\ hub' = "late"
    /\ UNCHANGED <<entry, push, reg, listening, reloads, history>>

(* The key is there: the relay is the one read before, the code is read now. *)
GoPush ==
    /\ hub = "identity" /\ hub' = "late"
    /\ \/ /\ push' = applied.relay
          /\ reg' = [relay |-> applied.relay, code |-> entry.code, step |-> "try"]
       \/ UNCHANGED <<push, reg>>      \* PushIdentityError, OSError
    /\ UNCHANGED <<entry, applied, listening, reloads, history>>

Up ==
    /\ hub = "late" /\ hub' = "up" /\ listening' = TRUE
    /\ UNCHANGED <<entry, runtime, reloads, history>>

SetupFails ==
    /\ hub \in {"starting", "identity", "late"} /\ hub' = "down" /\ Quiesce
    /\ UNCHANGED <<entry, applied, listening, reloads, history>>

(* async_reload_relay_runtime; a platform that does not unload ends it there. *)
Reload ==
    /\ hub = "up" /\ reloads > 0 /\ reloads' = reloads - 1
    /\ hub' \in {"unloading", "failed"} /\ Quiesce
    /\ UNCHANGED <<entry, applied, listening, history>>

Unloaded ==
    /\ hub = "unloading" /\ hub' = "down" /\ listening' = FALSE /\ applied' = None
    /\ UNCHANGED <<entry, push, reg, reloads, history>>

(* A reload of a hub that failed to unload is refused. *)
ReloadRefused ==
    /\ hub = "failed" /\ reloads > 0 /\ reloads' = reloads - 1 /\ Quiesce
    /\ UNCHANGED <<entry, applied, hub, listening, history>>

Restart ==
    /\ hub # "down" /\ hub' = "down" /\ listening' = FALSE /\ reloads' = 0
    /\ applied' = None /\ Quiesce
    /\ UNCHANGED <<entry, history>>

(* A fresh hub has its first code, without a request id; one that was migrated *)
(* has the relay it had, or none.                                              *)
Init ==
    /\ hub = "down" /\ listening = FALSE /\ reloads = 0
    /\ applied = None /\ push = None /\ reg = None /\ told = {}
    /\ \E r \in Relays :
         \/ entry = [relay |-> r, code |-> 1, req |-> 0] /\ aims = <<r>>
         \/ \E s \in {None, r} : entry = [relay |-> s, code |-> 0, req |-> 0] /\ aims = <<>>

Next ==
    \/ \E r \in Relays : Submit(r)
    \/ Post \/ Retry \/ Accepted \/ Refused
    \/ Start \/ StartPush \/ GoPush \/ Up \/ SetupFails
    \/ Reload \/ Unloaded \/ ReloadRefused \/ Restart

Spec == Init /\ [][Next]_vars
-----------------------------------------------------------------------------
TypeOK ==
    /\ entry.relay \in {None} \cup Relays /\ {entry.code, entry.req} \subseteq 0 .. MaxCodes
    /\ hub \in Phases /\ listening \in BOOLEAN /\ reloads \in 0 .. MaxCodes
    /\ push \in {None} \cup Relays /\ aims \in Seq(Relays)
    /\ told \subseteq Relays \X (0 .. MaxCodes)
    /\ applied # None => applied.req \in 0 .. MaxCodes
    /\ reg # None => reg.relay \in Relays /\ reg.step \in {"try", "sent", "done"}

(* What runs uses the relay that is saved, no relay is sent a code that was  *)
(* submitted for another one, and the last code stays in the entry until the *)
(* relay it is for was sent it.                                              *)
RelayAsSaved ==
    /\ push \in {None, entry.relay} /\ (reg # None => reg.relay = entry.relay)
    /\ \A t \in told : t[2] # 0 => aims[t[2]] = t[1]
    /\ (entry.code = 0 /\ aims # <<>>) => <<aims[Last], Last>> \in told
=============================================================================
