-------------------------------- MODULE Push --------------------------------
(* Push tokens and a member's own data (push.py, push_api.py, user_settings.py *)
(* and the handlers of auth_api.py and button.py through which a phone leaves),  *)
(* and the dispatcher that sends to the tokens and drops the dead ones           *)
(* (push_dispatcher.py).  A phone is a device id: it is paired once.             *)
EXTENDS FiniteSets

CONSTANTS None, Owners, Guests, Tokens, Jobs

VARIABLES
    new, paired,    \* phones that may pair, and that are paired
    token,          \* the push_tokens table
    data,           \* the members, by key, with favorites or settings
    job,            \* requests and batches
    active,         \* PushDispatcher._active
    dead,           \* tokens of an app that was uninstalled
    asked,          \* history: the token a phone was told is registered
    late            \* history: phones that asked for something while they were
                    \* leaving, or registered while their dead token was dropped

vars == <<new, paired, token, data, job, active, dead, asked, late>>

Phones == Owners \cup Guests
Members == {"owner", "guest"}
MemberOf(p) == IF p \in Owners THEN "owner" ELSE "guest"
Idle == [step |-> "idle", phone |-> None, key |-> None, who |-> {}, toks |-> {}, all |-> FALSE]

At(j, step) == job[j].step = step
Goes(j, new_) == job' = [job EXCEPT ![j] = new_]
Ends(j) == Goes(j, Idle)
Asks(p) == \E j \in Jobs : job[j].phone = p /\ job[j].step \in {"register", "member", "write"}
Busy == {p \in Phones : Asks(p)}

-----------------------------------------------------------------------------
(* What a paired phone asks for: the check, and then the write. *)

Enroll(p) ==
    /\ p \in new /\ (p \in Owners => paired \cap Owners = {})
    /\ new' = new \ {p} /\ paired' = paired \cup {p}
    /\ UNCHANGED <<token, data, job, active, dead, asked, late>>

Register(j, p, t) ==
    /\ At(j, "idle") /\ p \in paired /\ t \notin dead
    /\ Goes(j, [Idle EXCEPT !.step = "register", !.phone = p, !.toks = {t}])
    /\ UNCHANGED <<new, paired, token, data, active, dead, asked, late>>

Store(j) ==
    /\ At(j, "register") /\ Ends(j)
    /\ LET p == job[j].phone
       IN  \E t \in job[j].toks :
             /\ token' = [token EXCEPT ![p] = t] /\ asked' = [asked EXCEPT ![p] = t]
             /\ late' = IF \E k \in Jobs : At(k, "drop") /\ p \in job[k].who
                        THEN late \cup {p} ELSE late
    /\ UNCHANGED <<new, paired, data, active, dead>>

Unregister(p) ==
    /\ p \in paired /\ token[p] # None
    /\ token' = [token EXCEPT ![p] = None] /\ asked' = [asked EXCEPT ![p] = None]
    /\ UNCHANGED <<new, paired, data, job, active, dead, late>>

(* The settings, or the favorites, of the phone's member. *)
Save(j, p) ==
    /\ At(j, "idle") /\ p \in paired
    /\ Goes(j, [Idle EXCEPT !.step = "member", !.phone = p])
    /\ UNCHANGED <<new, paired, token, data, active, dead, asked, late>>

(* member_id_for: a phone that has gone is its own member. *)
FindMember(j) ==
    /\ At(j, "member")
    /\ LET p == job[j].phone
       IN  Goes(j, [job[j] EXCEPT !.step = "write", !.key = IF p \in paired THEN MemberOf(p) ELSE p])
    /\ UNCHANGED <<new, paired, token, data, active, dead, asked, late>>

Write(j) ==
    /\ At(j, "write") /\ data' = data \cup {job[j].key} /\ Ends(j)
    /\ UNCHANGED <<new, paired, token, active, dead, asked, late>>

-----------------------------------------------------------------------------
(* A phone leaves. *)

(* unpair-self, and the owner's delete. *)
Leave(j, p) ==
    /\ At(j, "idle") /\ p \in paired /\ paired' = paired \ {p}
    /\ late' = late \cup (Busy \cap {p})
    /\ Goes(j, [Idle EXCEPT !.step = "unregister", !.who = {p}, !.key = MemberOf(p)])
    /\ UNCHANGED <<new, token, data, active, dead, asked>>

UnregisterAll(j) ==
    /\ At(j, "unregister")
    /\ token' = [p \in Phones |-> IF p \in job[j].who THEN None ELSE token[p]]
    /\ IF job[j].key = None THEN Ends(j) ELSE Goes(j, [job[j] EXCEPT !.step = "count"])
    /\ UNCHANGED <<new, paired, data, active, dead, asked, late>>

(* member_device_count, and then the deletes. *)
Count(j) ==
    /\ At(j, "count")
    /\ IF \E p \in paired : MemberOf(p) = job[j].key THEN Ends(j)
       ELSE Goes(j, [job[j] EXCEPT !.step = "forget"])
    /\ UNCHANGED <<new, paired, token, data, active, dead, asked, late>>

Forget(j) ==
    /\ At(j, "forget") /\ data' = data \ {job[j].key} /\ Ends(j)
    /\ UNCHANGED <<new, paired, token, active, dead, asked, late>>

(* Owner recovery: the phone that is replaced is looked up first. *)
Recover(j, p) ==
    /\ At(j, "idle") /\ p \in new \cap Owners /\ new' = new \ {p}
    /\ Goes(j, [Idle EXCEPT !.step = "swap", !.phone = p, !.who = paired \cap Owners])
    /\ UNCHANGED <<paired, token, data, active, dead, asked, late>>

Swaps(j, replaced) ==
    LET old == paired \cap Owners
    IN  /\ At(j, "swap")
        /\ IF old = {} THEN Ends(j) /\ UNCHANGED <<paired, late>>
           ELSE /\ paired' = (paired \ old) \cup {job[j].phone}
                /\ late' = late \cup (Busy \cap old) \cup (old \ job[j].who)
                /\ Goes(j, [Idle EXCEPT !.step = "unregister", !.who = replaced])
        /\ UNCHANGED <<new, token, data, active, dead, asked>>

(* Fault: the admin is looked up once it is the new one. *)
SwapFirst(j) == Swaps(j, {job[j].phone})
Swap(j) == Swaps(j, job[j].who)

(* Regenerate, in three steps, and the factory reset, in one. *)
Regenerate(j) ==
    /\ At(j, "idle") /\ paired' = {} /\ late' = late \cup (Busy \cap paired)
    /\ Goes(j, [Idle EXCEPT !.step = "tokens"])
    /\ UNCHANGED <<new, token, data, active, dead, asked>>

ClearTokens(j) ==
    /\ At(j, "tokens") /\ token' = [p \in Phones |-> None]
    /\ asked' = [p \in Phones |-> IF p \in paired THEN None ELSE asked[p]]
    /\ Goes(j, [job[j] EXCEPT !.step = "settings"])
    /\ UNCHANGED <<new, paired, data, active, dead, late>>

ClearSettings(j) ==
    /\ At(j, "settings") /\ data' = {} /\ Ends(j)
    /\ UNCHANGED <<new, paired, token, active, dead, asked, late>>

FactoryReset ==
    /\ paired' = {} /\ token' = [p \in Phones |-> None] /\ data' = {}
    /\ late' = late \cup (Busy \cap paired)
    /\ UNCHANGED <<new, job, active, dead, asked>>

-----------------------------------------------------------------------------
(* The dispatcher. *)

Uninstall(t) ==
    /\ t \notin dead /\ dead' = dead \cup {t}
    /\ UNCHANGED <<new, paired, token, data, job, active, asked, late>>

(* A batch reads the tokens, selects its audience when they are there, and is *)
(* posted.  A push for the owner goes to nobody else.                         *)
Batch(j) ==
    /\ active /\ At(j, "idle")
    /\ \E all \in BOOLEAN :
         Goes(j, [Idle EXCEPT !.step = "select", !.all = all, !.who = {p \in Phones : token[p] # None},
                              !.toks = {token[p] : p \in Phones} \ {None}])
    /\ UNCHANGED <<new, paired, token, data, active, dead, asked, late>>

Select(j) ==
    /\ At(j, "select")
    /\ LET to == {p \in job[j].who : job[j].all \/ p \in paired \cap Owners}
       IN  IF to = {} THEN Ends(j) ELSE Goes(j, [job[j] EXCEPT !.step = "posted", !.who = to])
    /\ UNCHANGED <<new, paired, token, data, active, dead, asked, late>>

(* The relay took it, and says which of its tokens are dead. *)
Answer(j) ==
    /\ At(j, "posted")
    /\ LET rejected == job[j].toks \cap dead
       IN  IF rejected = {} THEN Ends(j)
           ELSE \/ Goes(j, [job[j] EXCEPT !.step = "clean", !.toks = rejected])
                \/ Ends(j)
    /\ UNCHANGED <<new, paired, token, data, active, dead, asked, late>>

(* Fault: the phones the batch was for, whatever token they have by now. *)
CleanBatch(j) ==
    /\ At(j, "clean") /\ Goes(j, [job[j] EXCEPT !.step = "drop"])
    /\ UNCHANGED <<new, paired, token, data, active, dead, asked, late>>

(* _remove_tokens: the phones that have a dead token now ... *)
Clean(j) ==
    /\ At(j, "clean")
    /\ Goes(j, [job[j] EXCEPT !.step = "drop", !.who = {p \in Phones : token[p] \in job[j].toks}])
    /\ UNCHANGED <<new, paired, token, data, active, dead, asked, late>>

(* ... lose the one they have when it is their turn. *)
Drop(j) ==
    /\ At(j, "drop")
    /\ IF job[j].who = {} THEN Ends(j) /\ UNCHANGED token
       ELSE \E p \in job[j].who :
              /\ token' = [token EXCEPT ![p] = None]
              /\ Goes(j, [job[j] EXCEPT !.who = @ \ {p}])
    /\ UNCHANGED <<new, paired, data, active, dead, asked, late>>

(* async_stop cancels its tasks; a thread that removes tokens goes on. *)
StopOrStart ==
    /\ active' = ~active
    /\ job' = [j \in Jobs |-> IF active /\ job[j].step \in {"select", "posted"} THEN Idle ELSE job[j]]
    /\ UNCHANGED <<new, paired, token, data, dead, asked, late>>

Init ==
    /\ new = Phones /\ paired = {} /\ token = [p \in Phones |-> None] /\ data = {}
    /\ job = [j \in Jobs |-> Idle] /\ active = TRUE /\ dead = {}
    /\ asked = [p \in Phones |-> None] /\ late = {}

Next ==
    \/ \E p \in Phones : Enroll(p) \/ Unregister(p)
    \/ \E t \in Tokens : Uninstall(t)
    \/ FactoryReset \/ StopOrStart
    \/ \E j \in Jobs :
         \/ \E p \in Phones : Save(j, p) \/ Leave(j, p) \/ Recover(j, p)
         \/ \E p \in Phones, t \in Tokens : Register(j, p, t)
         \/ Store(j) \/ FindMember(j) \/ Write(j) \/ UnregisterAll(j) \/ Count(j) \/ Forget(j)
         \/ Swap(j) \/ Regenerate(j) \/ ClearTokens(j) \/ ClearSettings(j)
         \/ Batch(j) \/ Select(j) \/ Answer(j) \/ Clean(j) \/ Drop(j)

Spec == Init /\ [][Next]_vars
-----------------------------------------------------------------------------
TypeOK ==
    /\ new \subseteq Phones /\ paired \subseteq Phones \ new /\ late \subseteq Phones
    /\ {token[p] : p \in Phones} \subseteq {None} \cup Tokens
    /\ {asked[p] : p \in Phones} \subseteq {None} \cup Tokens
    /\ data \subseteq Members \cup Phones /\ active \in BOOLEAN /\ dead \subseteq Tokens
    /\ \A j \in Jobs :
         /\ job[j].key \in {None} \cup Members \cup Phones
         /\ job[j].who \subseteq Phones /\ job[j].toks \subseteq Tokens

Removes(j, p) ==
    \/ At(j, "tokens")
    \/ job[j].step \in {"swap", "unregister"} /\ p \in job[j].who

Forgets(j, m) ==
    \/ job[j].step \in {"tokens", "settings"}
    \/ job[j].step \in {"unregister", "count", "forget"} /\ job[j].key = m

(* A phone's token and its member's data go with the phone, and until then the *)
(* token it was told is registered stays, unless the app behind it is gone.    *)
(* Only a phone that asked for something while it was leaving, or registered   *)
(* while its dead token was being dropped, has it otherwise.                   *)
GoneWithPhone ==
    /\ \A p \in Phones \ late :
         IF p \in paired THEN asked[p] \in dead \cup {token[p], None}
         ELSE token[p] # None => \E j \in Jobs : Removes(j, p)
    /\ \A m \in data :
         \/ \E p \in paired : MemberOf(p) = m
         \/ \E j \in Jobs : Forgets(j, m)
         \/ \E p \in late : m \in {p, MemberOf(p)}
=============================================================================
