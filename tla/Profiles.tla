------------------------------ MODULE Profiles ------------------------------
(***************************************************************************)
(* The user profiles of the dashboard: ProfileStore and ProfileOverlay     *)
(* (dashboard/v2/profiles.py) and the routes that call them                *)
(* (dashboard/v2/api.py).  A profile is a directory with overrides.yaml,   *)
(* an audit log and a lock file; a marker names the active one.            *)
(*                                                                         *)
(* The routes of one dashboard run one after the other, but the directory  *)
(* is shared by every dashboard process that is started on it: each has    *)
(* one request at a time, whose file operations are steps, and may die     *)
(* between two of them.  Only set_override takes the lock: create copies   *)
(* and empties files, and delete removes them one by one, beside writers.  *)
(* flock is on the file that the path named when it was opened, so a lock  *)
(* file that was removed does not exclude a writer that has made another.  *)
(*                                                                         *)
(* An override is a key of one bot with a value; a value is Bad when the   *)
(* factory of the bot's strategy refuses it.  The preferences, which are   *)
(* written as a whole, are left out.                                       *)
(***************************************************************************)
EXTENDS Naturals, Sequences, SequencesExt

CONSTANTS
    Procs, Names,
    Default, User,  \* the profile that cannot be deleted, current_user's own
    Keys, Values, Bad,
    None, NoName,
    MaxWrites, MaxCreates  \* bounds of the model

ASSUME ProfilesAssumption ==
    /\ Default \in Names /\ User \in Names /\ NoName \notin Names
    /\ Bad \subseteq Values /\ None \notin Values
    /\ MaxWrites \in Nat /\ MaxCreates \in Nat

VARIABLES
    dir,        \* incarnation of each profile's directory, 0 if there is none
    files,      \* which of its files there are
    inode,      \* its lock file, 0 if there is none
    overrides,  \* overrides.yaml of each profile, Empty if there is none
    history,    \* history.jsonl of each profile, with the state it began with
    marker,     \* .active
    req,        \* the request of each process and how far it is
    lock,       \* holders of flock, as <<lock file, process>>
    writes, creates,
    blurred     \* history: profiles whose files an unlocked step has touched

diskVars == <<dir, files, inode, overrides, history, marker>>
profileVars == <<diskVars, req, lock, writes, creates, blurred>>

Override == [Keys -> Values \cup {None}]
Empty == [k \in Keys |-> None]
Files == {"overrides", "history"}
Idle == [pc |-> "idle", name |-> NoName, from |-> NoName, dir |-> 0, inode |-> 0,
         key |-> None, value |-> None, read |-> Empty, left |-> {}]
AuditRow == [key : Keys, before : Values \cup {None}, after : Values]

\* The first construction: the default profile and the user's own.
ProfilesInit ==
    /\ dir = [p \in Names |-> IF p \in {Default, User} THEN 1 ELSE 0]
    /\ files = [p \in Names |-> IF p \in {Default, User} THEN Files ELSE {}]
    /\ inode = [p \in Names |-> 0]
    /\ overrides = [p \in Names |-> Empty]
    /\ history = [p \in Names |-> [base |-> Empty, rows |-> <<>>]]
    /\ marker = NoName
    /\ req = [q \in Procs |-> Idle] /\ lock = {}
    /\ writes = 0 /\ creates = 0 /\ blurred = {}

Exists(p) == dir[p] # 0
Answered(q) == req' = [req EXCEPT ![q] = Idle]
Goto(q, pc) == req' = [req EXCEPT ![q].pc = pc]
Held(q) == lock \cap {<<req[q].inode, q>>}
\* The path of the lock names another file than the one the writer has opened.
Unlocked(q) == inode[req[q].name] # req[q].inode
\* The directory is another one than the request began with.
Gone(q) == dir[req[q].name] # req[q].dir
InCritical(p) == {q \in Procs : req[q].name = p /\
                                req[q].pc \in {"read", "truncate", "write", "append"}}
-----------------------------------------------------------------------------
(* set_override, as put_override calls it. *)

\* _require, touch and open of the lock file; 404 without the profile.
OpenLock(q, p, k, v) ==
    /\ req[q].pc = "idle" /\ Exists(p) /\ writes < MaxWrites
    /\ writes' = writes + 1
    /\ inode' = [inode EXCEPT ![p] = IF @ = 0 THEN writes + 1 ELSE @]
    /\ req' = [req EXCEPT ![q] = [Idle EXCEPT !.pc = "lock", !.name = p,
                                 !.inode = inode'[p], !.key = k, !.value = v]]
    /\ UNCHANGED <<dir, files, overrides, history, marker, lock, creates, blurred>>

AcquireShared(q) ==
    /\ req[q].pc = "lock"
    /\ lock' = lock \cup {<<req[q].inode, q>>}
    /\ Goto(q, "read")
    /\ UNCHANGED <<diskVars, writes, creates, blurred>>

Acquire(q) ==
    /\ req[q].pc = "lock"
    /\ \A h \in lock : h[1] # req[q].inode
    /\ lock' = lock \cup {<<req[q].inode, q>>}
    /\ Goto(q, "read")
    /\ UNCHANGED <<diskVars, writes, creates, blurred>>

\* The directory is gone: the finally clause, and an error.
Fail(q) ==
    /\ req[q].pc \in {"read", "truncate", "write", "append"} /\ ~Exists(req[q].name)
    /\ lock' = lock \ Held(q)
    /\ Answered(q)
    /\ UNCHANGED <<diskVars, writes, creates, blurred>>

\* A writer that others do not see does not have the profile to itself.
Blur(q) == blurred' = IF Unlocked(q) THEN blurred \cup {req[q].name} ELSE blurred
Makes(p, f) == files' = [files EXCEPT ![p] = @ \cup {f}]

Read(q) ==
    /\ req[q].pc = "read" /\ Exists(req[q].name)
    /\ req' = [req EXCEPT ![q].pc = "truncate", ![q].read = overrides[req[q].name]]
    /\ UNCHANGED <<diskVars, lock, writes, creates, blurred>>

\* write_text opens with "w", which empties the file,
Truncate(q) ==
    /\ req[q].pc = "truncate" /\ Exists(req[q].name)
    /\ overrides' = [overrides EXCEPT ![req[q].name] = Empty]
    /\ Makes(req[q].name, "overrides") /\ Goto(q, "write") /\ Blur(q)
    /\ UNCHANGED <<dir, inode, history, marker, lock, writes, creates>>

\* and writes what was read with the one key set.
Write(q) ==
    /\ req[q].pc = "write" /\ Exists(req[q].name)
    /\ overrides' = [overrides EXCEPT ![req[q].name] =
                        [req[q].read EXCEPT ![req[q].key] = req[q].value]]
    /\ Goto(q, "append") /\ Makes(req[q].name, "overrides") /\ Blur(q)
    /\ UNCHANGED <<dir, inode, history, marker, lock, writes, creates>>

AppendRow(q) ==
    /\ req[q].pc = "append" /\ Exists(req[q].name)
    /\ history' = [history EXCEPT ![req[q].name].rows =
                     Append(@, [key |-> req[q].key, after |-> req[q].value,
                                before |-> req[q].read[req[q].key]])]
    /\ lock' = lock \ Held(q)
    /\ Makes(req[q].name, "history") /\ Goto(q, "apply") /\ Blur(q)
    /\ UNCHANGED <<dir, inode, overrides, marker, writes, creates>>

\* _effective_spec: 200, or 400 when the overlay of the bot is not valid, with
\* the value stored all the same.
Apply(q) ==
    /\ req[q].pc = "apply"
    /\ Answered(q)
    /\ UNCHANGED <<diskVars, lock, writes, creates, blurred>>
-----------------------------------------------------------------------------
(* The other operations, none of which takes the lock. *)

\* create: the directory,
MakeDir(q, p, from) ==
    /\ req[q].pc = "idle" /\ ~Exists(p) /\ Exists(from) /\ creates < MaxCreates
    /\ creates' = creates + 1
    /\ dir' = [dir EXCEPT ![p] = creates + 2]
    /\ files' = [files EXCEPT ![p] = {}] /\ inode' = [inode EXCEPT ![p] = 0]
    /\ overrides' = [overrides EXCEPT ![p] = Empty]
    /\ history' = [history EXCEPT ![p] = [base |-> Empty, rows |-> <<>>]]
    /\ req' = [req EXCEPT ![q] = [Idle EXCEPT !.pc = "fork", !.name = p, !.dir = creates + 2,
                                              !.from = from]]
    /\ blurred' = IF InCritical(p) = {} THEN blurred \ {p} ELSE blurred \cup {p}
    /\ UNCHANGED <<marker, lock, writes>>

\* what the source's overrides are by now, in whatever state a writer has them,
ReadSource(q) ==
    /\ req[q].pc = "fork"
    /\ req' = [req EXCEPT ![q].read = overrides[req[q].from], ![q].pc =
                 IF "overrides" \in files[req[q].from] THEN "copy" ELSE "seed"]
    /\ UNCHANGED <<diskVars, lock, writes, creates, blurred>>

\* their copy, over what a writer may have put there since the directory is,
Copy(q) ==
    /\ req[q].pc = "copy" /\ Exists(req[q].name)
    /\ Goto(q, "seed") /\ Makes(req[q].name, "overrides")
    /\ overrides' = [overrides EXCEPT ![req[q].name] = req[q].read]
    /\ history' = [history EXCEPT ![req[q].name].base = req[q].read]
    /\ blurred' = IF \/ InCritical(req[q].name) # {} \/ Gone(q)
                     \/ history[req[q].name].rows # <<>>
                  THEN blurred \cup {req[q].name} ELSE blurred
    /\ UNCHANGED <<dir, inode, marker, lock, writes, creates>>

\* and an empty history, in place of the row of a writer that was faster.
Seed(q) ==
    /\ req[q].pc = "seed" /\ Exists(req[q].name)
    /\ Answered(q) /\ Makes(req[q].name, "history")
    /\ history' = [history EXCEPT ![req[q].name].rows = <<>>]
    /\ blurred' = IF history[req[q].name].rows # <<>>
                  THEN blurred \cup {req[q].name} ELSE blurred
    /\ UNCHANGED <<dir, inode, overrides, marker, lock, writes, creates>>

\* The directory is gone: an error.
ForkFails(q) ==
    /\ req[q].pc \in {"copy", "seed"} /\ ~Exists(req[q].name)
    /\ Answered(q)
    /\ UNCHANGED <<diskVars, lock, writes, creates, blurred>>

\* delete: rmtree lists the directory,
Entries(p) == files[p] \cup (IF inode[p] # 0 THEN {"lock"} ELSE {})

Scan(q, p) ==
    /\ req[q].pc = "idle" /\ p # Default /\ Exists(p)
    /\ req' = [req EXCEPT ![q] = [Idle EXCEPT !.pc = "delete", !.name = p, !.dir = dir[p],
                                              !.left = Entries(p)]]
    /\ UNCHANGED <<diskVars, lock, writes, creates, blurred>>

\* removes what it has listed, in any order,
Unlink(q, f) ==
    LET p == req[q].name
    IN /\ req[q].pc = "delete" /\ f \in req[q].left
       /\ ~Gone(q) /\ f \in Entries(p)
       /\ req' = [req EXCEPT ![q].left = @ \ {f}]
       /\ files' = [files EXCEPT ![p] = @ \ {f}]
       /\ inode' = [inode EXCEPT ![p] = IF f = "lock" THEN 0 ELSE @]
       /\ overrides' = [overrides EXCEPT ![p] = IF f = "overrides" THEN Empty ELSE @]
       /\ history' = [history EXCEPT ![p].rows = IF f = "history" THEN <<>> ELSE @]
       /\ blurred' = blurred \cup {p}
       /\ UNCHANGED <<dir, marker, lock, writes, creates>>

\* with an error if somebody else has removed it,
UnlinkFails(q, f) ==
    /\ req[q].pc = "delete" /\ f \in req[q].left
    /\ Gone(q) \/ f \notin Entries(req[q].name)
    /\ Answered(q)
    /\ UNCHANGED <<diskVars, lock, writes, creates, blurred>>

\* and then the directory, with an error if it is not empty, or gone.
RemoveDir(q) ==
    LET p == req[q].name
    IN /\ req[q].pc = "delete" /\ req[q].left = {}
       /\ Answered(q)
       /\ dir' = [dir EXCEPT ![p] = IF Entries(p) = {} THEN 0 ELSE @]
       /\ UNCHANGED <<files, inode, overrides, history, marker, lock, writes, creates,
                      blurred>>

\* An overlay that every factory accepts.
Valid(over) == \A k \in Keys : over[k] \notin Bad

Active == IF marker # NoName /\ Exists(marker) THEN marker ELSE User

\* activate_profile, up to set_active: without an error when the overrides of
\* the active profile and of the new one can be read and are valid.
Activatable(p) == /\ Exists(p) /\ Exists(Active)
                  /\ Valid(overrides[Active]) /\ Valid(overrides[p])

Compare(q, p) ==
    /\ req[q].pc = "idle" /\ Activatable(p)
    /\ req' = [req EXCEPT ![q] = [Idle EXCEPT !.pc = "activate", !.name = p]]
    /\ UNCHANGED <<diskVars, lock, writes, creates, blurred>>

\* set_active: _require, and the marker.
SetActive(q) ==
    /\ req[q].pc = "activate"
    /\ marker' = IF Exists(req[q].name) THEN req[q].name ELSE marker
    /\ Answered(q)
    /\ UNCHANGED <<dir, files, inode, overrides, history, lock, writes, creates, blurred>>

\* The process dies; the system releases its lock.
Crash(q) ==
    /\ req[q].pc # "idle"
    /\ lock' = lock \ Held(q)
    /\ Answered(q)
    /\ blurred' = IF req[q].pc \in {"write", "append"} THEN blurred \cup {req[q].name}
                  ELSE blurred
    /\ UNCHANGED <<diskVars, writes, creates>>

ProfilesNext ==
    \/ \E q \in Procs :
        \/ \E p \in Names, k \in Keys, v \in Values : OpenLock(q, p, k, v)
        \/ Acquire(q) \/ Fail(q) \/ Read(q) \/ Truncate(q) \/ Write(q)
        \/ AppendRow(q) \/ Apply(q)
        \/ \E p, from \in Names : MakeDir(q, p, from)
        \/ ReadSource(q) \/ Copy(q) \/ Seed(q) \/ ForkFails(q)
        \/ (\E p \in Names : Scan(q, p)) \/ RemoveDir(q)
        \/ \E f \in Files \cup {"lock"} : Unlink(q, f) \/ UnlinkFails(q, f)
        \/ \E p \in Names : Compare(q, p)
        \/ SetActive(q) \/ Crash(q)

ProfilesSpec == ProfilesInit /\ [][ProfilesNext]_profileVars
-----------------------------------------------------------------------------
ProfilesTypeOK ==
    /\ dir \in [Names -> Nat] /\ files \in [Names -> SUBSET Files]
    /\ inode \in [Names -> Nat] /\ overrides \in [Names -> Override]
    /\ history \in [Names -> [base : Override, rows : Seq(AuditRow)]]
    /\ marker \in Names \cup {NoName}
    /\ req \in [Procs -> [pc : {"idle", "lock", "read", "truncate", "write", "append",
                                "apply", "fork", "copy", "seed", "delete",
                                "activate"},
                          name : Names \cup {NoName}, from : Names \cup {NoName},
                          dir : Nat, inode : Nat,
                          key : Keys \cup {None}, value : Values \cup {None},
                          read : Override, left : SUBSET (Files \cup {"lock"})]]
    /\ lock \subseteq Nat \X Procs
    /\ writes \in 0..MaxWrites /\ creates \in 0..MaxCreates
    /\ blurred \subseteq Names

\* The value that the rows up to the n-th give a key.
Tells(h, n, k, v) ==
    \/ /\ \A i \in 1..n : h.rows[i].key # k
       /\ h.base[k] = v
    \/ \E i \in 1..n : /\ h.rows[i].key = k /\ h.rows[i].after = v
                       /\ \A j \in (i + 1)..n : h.rows[j].key # k

(***************************************************************************)
(* "Set one override key + append an audit row ... serializes against      *)
(* other writers" (profiles.py 175-222): however the writers of a profile  *)
(* interleave with each other, with its delete and with a new create, the  *)
(* audit log explains its overrides.  Between writers, each key has the    *)
(* value of its last row, or the one the profile was forked with, and each *)
(* row names the value that it replaced; so no update is lost and none is  *)
(* unrecorded.  The exceptions are what blurred records, until the profile *)
(* is created anew: a writer died between emptying the file and its row; a *)
(* delete has begun to remove the files, and may have died half way;       *)
(* create, which does not take the lock, copied over an override or        *)
(* emptied a log that had a row; a writer held a lock file that had been   *)
(* removed, or a create worked on in the profile's next directory.         *)
(***************************************************************************)
AuditTellsOverrides ==
    \A p \in Names : Exists(p) /\ p \notin blurred =>
        LET h == history[p]
        IN /\ \A i \in 1..Len(h.rows) : Tells(h, i - 1, h.rows[i].key, h.rows[i].before)
           /\ (\A q \in InCritical(p) : req[q].pc \in {"read", "truncate"}) =>
                \A k \in Keys : Tells(h, Len(h.rows), k, overrides[p][k])
=============================================================================
