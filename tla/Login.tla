-------------------------------- MODULE Login --------------------------------
(* A phone's log-in by challenge and signature (auth_engine.py) over the counter *)
(* of failures with its lockouts (throttle.py). The phone is enrolled once, is   *)
(* edited and goes; other names are of nobody. Every name is asked for from one  *)
(* address, so a name stands for its throttle key.                               *)
EXTENDS Integers, FiniteSets, Sequences

CONSTANTS
    None, Phone, Strangers, Jobs,
    MaxFailures, Steps,      \* MAX_FAILURES, LOCKOUT_STEPS in ticks
    MaxEntries,              \* MAX_ENTRIES
    TTL, MaxChallenges,      \* CHALLENGE_TTL, MAX_CHALLENGES_PER_DEVICE
    MaxIssued, MaxTime       \* bounds

VARIABLES
    now,
    paired,                  \* the phone's row; its version does not matter here
    entries,                 \* FailureThrottle._entries, by key
    challenges,              \* of the phone: [id, until], the oldest has the least id
    issued,                  \* how many challenges there have been
    job,                     \* requests on executor threads
    open,                    \* history: live challenges of this process nobody answered
    logins,                  \* history: how many tokens a challenge brought
    due                      \* history: of a key, the end of its lockout, or 0

history == <<open, logins, due>>
vars == <<now, paired, entries, challenges, issued, job, history>>

Names == {Phone} \cup Strangers
Idle == [step |-> "idle", name |-> None, id |-> 0]
At(j, step) == job[j].step = step
Goes(j, step) == job' = [job EXCEPT ![j].step = step]
Ends(j) == job' = [job EXCEPT ![j] = Idle]
Fresh == {c \in challenges : c.until > now}

-----------------------------------------------------------------------------
(* FailureThrottle. *)

(* check *)
Locked(n) == entries[n] # None /\ entries[n].until > now

Level(e) == IF e = None THEN 0 ELSE e.level
LastStep == Len(Steps) - 1
Smaller(a, b) == IF a < b THEN a ELSE b

(* record_failure; the lockout is the step of the level, counted from 0. *)
Counted(e) ==
    LET failures == (IF e = None THEN 0 ELSE e.failures) + 1
        step == Smaller(Level(e), LastStep)
    IN  IF failures >= MaxFailures
        THEN [failures |-> 0, until |-> now + Steps[step + 1], level |-> Smaller(step + 1, LastStep)]
        ELSE [failures |-> failures, until |-> IF e = None THEN 0 ELSE e.until, level |-> Level(e)]

Held == {m \in Names : entries[m] # None}
Excess(n) == IF n \in Held THEN 0 ELSE Cardinality(Held) + 1 - MaxEntries
AnyOf(keys, k) == {out \in SUBSET keys : Cardinality(out) = Smaller(k, Cardinality(keys))}

(* Fault: the table makes room by any key, locked out or not. *)
EvictsAny(n) == IF Excess(n) <= 0 THEN {{}} ELSE AnyOf(Held, Excess(n))

(* _prune: keys that are not locked out make room; the table may be over its *)
(* limit when there are none.                                               *)
Evicts(n) == IF Excess(n) <= 0 THEN {{}} ELSE AnyOf({m \in Held : ~Locked(m)}, Excess(n))

Failed(n) ==
    \E out \in Evicts(n) :
        /\ entries' = [m \in Names |-> IF m = n THEN Counted(entries[n])
                                       ELSE IF m \in out THEN None ELSE entries[m]]
        /\ due' = [due EXCEPT ![n] = LET until == Counted(entries[n]).until
                                     IN  IF until > now /\ until > @ THEN until ELSE @]

(* clear *)
Cleared(n) == entries' = [entries EXCEPT ![n] = None] /\ due' = [due EXCEPT ![n] = 0]

-----------------------------------------------------------------------------
(* create_challenge *)

Ask(j, n) ==
    /\ At(j, "idle") /\ ~Locked(n)
    /\ n = Phone => issued < MaxIssued
    /\ IF n = Phone /\ paired
       THEN job' = [job EXCEPT ![j] = [Idle EXCEPT !.step = "issue", !.name = n]]
       ELSE job' = [job EXCEPT ![j] = [Idle EXCEPT !.step = "unknown", !.name = n]]
    /\ UNCHANGED <<now, paired, entries, challenges, issued, history>>

Unknown(j) ==
    /\ At(j, "unknown") /\ Failed(job[j].name) /\ Ends(j)
    /\ UNCHANGED <<now, paired, challenges, issued, open, logins>>

(* The oldest go when the phone has too many. *)
Newest(cs) == {c \in cs : Cardinality({d \in cs : d.id > c.id}) < MaxChallenges - 1}

Issue(j) ==
    /\ At(j, "issue") /\ issued < MaxIssued /\ Ends(j)
    /\ issued' = issued + 1
    /\ LET new == [id |-> issued + 1, until |-> now + TTL]
       IN  challenges' = Newest(Fresh) \cup {new} /\ open' = open \cup {new}
    /\ UNCHANGED <<now, paired, entries, logins, due>>

-----------------------------------------------------------------------------
(* redeem_challenge *)

Redeem(j, n, id) ==
    /\ At(j, "idle") /\ ~Locked(n)
    /\ job' = [job EXCEPT ![j] = [step |-> "redeem", name |-> n, id |-> id]]
    /\ UNCHANGED <<now, paired, entries, challenges, issued, history>>

(* The challenge is taken, under the lock, whoever names it. One that is not    *)
(* there, or is another device's, costs nothing.                                *)
Pop(j) ==
    /\ At(j, "redeem")
    /\ challenges' = {c \in Fresh : c.id # job[j].id}
    /\ open' = {c \in open : c.id # job[j].id}
    /\ IF job[j].name = Phone /\ (\E c \in Fresh : c.id = job[j].id)
       THEN Goes(j, "verify") ELSE Ends(j)
    /\ UNCHANGED <<now, paired, entries, issued, logins, due>>

(* The phone has signed, or somebody without its key has. *)
Verify(j, good) ==
    /\ At(j, "verify") /\ Ends(j)
    /\ IF paired /\ good
       THEN Cleared(Phone) /\ logins' = [logins EXCEPT ![job[j].id] = @ + 1]
       ELSE Failed(Phone) /\ UNCHANGED logins
    /\ UNCHANGED <<now, paired, challenges, issued, open>>

-----------------------------------------------------------------------------
(* unenroll, wipe and replace_admin: _clear_throttle. Nobody gets the name again. *)
Unpair ==
    /\ paired /\ paired' = FALSE /\ Cleared(Phone)
    /\ UNCHANGED <<now, challenges, issued, job, open, logins>>

Tick ==
    /\ now < MaxTime /\ now' = now + 1
    /\ open' = {c \in open : c.until > now'}
    /\ due' = [n \in Names |-> IF due[n] > now' THEN due[n] ELSE 0]
    /\ UNCHANGED <<paired, entries, challenges, issued, job, logins>>

(* All of it is in memory. *)
Restart ==
    /\ entries' = [n \in Names |-> None] /\ challenges' = {}
    /\ job' = [j \in Jobs |-> Idle] /\ due' = [n \in Names |-> 0] /\ open' = {}
    /\ UNCHANGED <<now, paired, issued, logins>>

Init ==
    /\ now = 0 /\ paired = TRUE
    /\ entries = [n \in Names |-> None] /\ challenges = {} /\ issued = 0
    /\ job = [j \in Jobs |-> Idle] /\ open = {}
    /\ logins = [id \in 1 .. MaxIssued |-> 0] /\ due = [n \in Names |-> 0]

Next ==
    \/ Tick \/ Unpair \/ Restart
    \/ \E j \in Jobs :
         \/ Unknown(j) \/ Issue(j) \/ Pop(j)
         \/ \E n \in Names : Ask(j, n)
         \/ \E n \in Names, id \in 1 .. issued : Redeem(j, n, id)
         \/ \E good \in BOOLEAN : Verify(j, good)

Spec == Init /\ [][Next]_vars

-----------------------------------------------------------------------------
TypeOK ==
    /\ now \in 0 .. MaxTime /\ issued \in 0 .. MaxIssued /\ paired \in BOOLEAN
    /\ \A n \in Names : entries[n] # None =>
         entries[n].failures \in 0 .. (MaxFailures - 1) /\ entries[n].level \in 0 .. LastStep
    /\ Cardinality(challenges) <= MaxChallenges
    /\ \A j \in Jobs : job[j].step \in {"idle", "unknown", "issue", "redeem", "verify"}

(* A challenge brings one token at most, however many requests answer it        *)
(* (redeem_challenge).                                                          *)
LoginOnce == \A id \in DOMAIN logins : logins[id] <= 1

(* A lockout lasts: neither failures that were under way when it began nor      *)
(* those of other keys, at the table's limit, shorten it (throttle.py:85).      *)
LockoutLasts ==
    \A n \in Names : due[n] > now => entries[n] # None /\ entries[n].until >= due[n]

(* The newest challenges are there until their time is over or they are         *)
(* answered, so an app that asks again over a flaky link can log in             *)
(* (create_challenge).                                                          *)
NewestKept ==
    \A c \in open : c.until > now /\ c.id + MaxChallenges > issued =>
        c \in challenges
=============================================================================
