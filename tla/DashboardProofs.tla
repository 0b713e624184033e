--------------------------- MODULE DashboardProofs ---------------------------
(***************************************************************************)
(* Theorems about the two concurrent parts of the dashboard, for any       *)
(* number of processes, profiles, keys, clients and events: the audit log  *)
(* of a profile explains its overrides (Profiles), a closed socket is left *)
(* alone, and each client gets its events in order (Broadcast).            *)
(***************************************************************************)
EXTENDS Profiles, Broadcast, WellFoundedInduction, TLAPS

Critical == {"read", "truncate", "write", "append"}
Writing == {"write", "append"}

In(q, p) == req[q].name = p /\ req[q].pc \in Critical

Request == [pc : {"idle", "lock", "read", "truncate", "write", "append", "apply",
                  "fork", "copy", "seed", "delete", "activate"},
            name : Names \cup {NoName}, from : Names \cup {NoName}, dir : Nat,
            inode : Nat, key : Keys \cup {None}, value : Values \cup {None},
            read : Override, left : SUBSET (Files \cup {"lock"})]

FilesTyped ==
    /\ dir \in [Names -> Nat] /\ files \in [Names -> SUBSET Files]
    /\ inode \in [Names -> Nat] /\ overrides \in [Names -> Override]
    /\ history \in [Names -> [base : Override, rows : Seq(AuditRow)]]
    /\ creates \in Nat /\ writes \in Nat

RequestsTyped ==
    /\ req \in [Procs -> Request]
    /\ \A q \in Procs :
        /\ req[q].pc \in Critical \cup {"lock"} =>
             /\ req[q].name \in Names /\ req[q].key \in Keys /\ req[q].value \in Values
             /\ req[q].inode # 0
        /\ req[q].pc \in {"fork", "copy", "seed", "delete"} =>
             req[q].name \in Names
        /\ req[q].pc = "fork" => req[q].from \in Names

\* Each writer holds the lock file it opened, and a new one has a new number.
LocksHeld ==
    /\ \A q \in Procs : req[q].pc \in Critical => <<req[q].inode, q>> \in lock
    /\ \A i \in Nat, q, r \in Procs :
          <<i, q>> \in lock /\ <<i, r>> \in lock => q = r
    /\ \A p \in Names : inode[p] <= writes
    /\ \A q \in Procs : req[q].inode <= writes

\* Each row tells the value it replaced.
RowsAgree(p) ==
    \A i \in 1..Len(history[p].rows) :
        Tells(history[p], i - 1, history[p].rows[i].key, history[p].rows[i].before)

LastRow(p) == Len(history[p].rows)

\* While nobody has begun to write, the log tells what is in the file,
FileAgrees(p) ==
    (\A q \in Procs : In(q, p) => req[q].pc \notin Writing) =>
        \A k \in Keys : Tells(history[p], LastRow(p), k, overrides[p][k])

\* a writer that has begun has read what the log tells,
WriterAgrees(p) ==
    \A q \in Procs : In(q, p) /\ req[q].pc \in Writing =>
        /\ req[q].inode = inode[p]
        /\ \A k \in Keys : Tells(history[p], LastRow(p), k, req[q].read[k])
        /\ req[q].pc = "append" =>
             overrides[p] = [req[q].read EXCEPT ![req[q].key] = req[q].value]

\* and what a reader has read is still there.
ReaderAgrees(p) ==
    \A q \in Procs : In(q, p) /\ req[q].pc = "truncate" /\ req[q].inode = inode[p] =>
        req[q].read = overrides[p]

Explained(p) ==
    Exists(p) /\ p \notin blurred =>
        RowsAgree(p) /\ FileAgrees(p) /\ WriterAgrees(p) /\ ReaderAgrees(p)

ProfilesInv ==
    FilesTyped /\ RequestsTyped /\ LocksHeld /\ \A p \in Names : Explained(p)

(***************************************************************************)
(* What a log tells depends on the rows it is asked about.                 *)
(***************************************************************************)
LEMMA TellsByPrefix ==
    ASSUME NEW g, NEW h, NEW n \in Nat, g.base = h.base,
           \A i \in 1..n : g.rows[i] = h.rows[i], NEW k, NEW v, Tells(h, n, k, v)
    PROVE  Tells(g, n, k, v)
BY DEF Tells

(***************************************************************************)
(* One more row tells its own key, and leaves the others as they were.     *)
(***************************************************************************)
LEMMA TellsTheLastRow ==
    ASSUME NEW h, NEW n \in Nat
    PROVE  Tells(h, n + 1, h.rows[n + 1].key, h.rows[n + 1].after)
BY DEF Tells

LEMMA TellsPastARow ==
    ASSUME NEW h, NEW n \in Nat, NEW k, NEW v, h.rows[n + 1].key # k, Tells(h, n, k, v)
    PROVE  Tells(h, n + 1, k, v)
BY DEF Tells

(***************************************************************************)
(* Two writers that opened the same lock file are one writer.              *)
(***************************************************************************)
LEMMA OneWriter ==
    ASSUME RequestsTyped, LocksHeld, NEW q \in Procs, NEW r \in Procs,
           req[q].pc \in Critical, req[r].pc \in Critical, req[q].inode = req[r].inode
    PROVE  q = r
<1>1. req[q].inode \in Nat
    BY DEF RequestsTyped, Request
<1>2. <<req[q].inode, q>> \in lock /\ <<req[q].inode, r>> \in lock
    BY DEF LocksHeld
<1> QED
    BY <1>1, <1>2 DEF LocksHeld

\* The files of p and the requests that write it stay, but for some that come
\* to the critical section or leave it before they have written.
Apart(p) ==
    /\ dir'[p] = dir[p] /\ overrides'[p] = overrides[p] /\ history'[p] = history[p]
    /\ inode'[p] = inode[p]
    /\ p \notin blurred' => p \notin blurred
    /\ p \notin blurred' => \A r \in Procs :
        /\ In(r, p)' => req'[r].pc = "read" \/ req'[r] = req[r]
        /\ In(r, p) /\ req[r].pc \in Writing => req'[r] = req[r]

(***************************************************************************)
(* A step apart from a profile leaves it explained.                        *)
(***************************************************************************)
LEMMA ApartKeeps ==
    ASSUME NEW p \in Names, Explained(p), Apart(p)
    PROVE  Explained(p)'
<1> SUFFICES ASSUME Exists(p)', p \notin blurred'
             PROVE  (RowsAgree(p) /\ FileAgrees(p) /\ WriterAgrees(p) /\ ReaderAgrees(p))'
    BY DEF Explained
<1>1. RowsAgree(p) /\ FileAgrees(p) /\ WriterAgrees(p) /\ ReaderAgrees(p)
    BY DEF Explained, Apart, Exists
<1>2. RowsAgree(p)'
    BY <1>1 DEF RowsAgree, Apart
<1>3. FileAgrees(p)'
    BY <1>1 DEF FileAgrees, LastRow, Apart, In, Writing, Critical
<1>4. WriterAgrees(p)'
    BY <1>1 DEF WriterAgrees, LastRow, Apart, In, Writing, Critical
<1>5. ReaderAgrees(p)'
    BY <1>1 DEF ReaderAgrees, Apart, In, Critical
<1> QED
    BY <1>2, <1>3, <1>4, <1>5

(***************************************************************************)
(* A request that goes on stays well typed, and the others are untouched.  *)
(***************************************************************************)
LEMMA RequestStep ==
    ASSUME RequestsTyped, NEW q \in Procs, NEW x \in Request,
           req' = [req EXCEPT ![q] = x],
           x.pc \in Critical \cup {"lock"} =>
               /\ x.name \in Names /\ x.key \in Keys /\ x.value \in Values
               /\ x.inode # 0,
           x.pc \in {"fork", "copy", "seed", "delete"} => x.name \in Names,
           x.pc = "fork" => x.from \in Names
    PROVE  RequestsTyped' /\ req'[q] = x /\ \A r \in Procs : r # q => req'[r] = req[r]
BY DEF RequestsTyped

LEMMA IdleIsARequest == Idle \in Request /\ Idle.pc = "idle" /\ Idle.inode = 0
BY DEF Idle, Request, Override, Empty

(***************************************************************************)
(* The steps that only move the request of q.                              *)
(***************************************************************************)
LEMMA RequestMoves ==
    ASSUME FilesTyped, RequestsTyped, NEW q \in Procs,
           \/ Acquire(q) \/ Fail(q) \/ Read(q) \/ Apply(q)
           \/ ReadSource(q) \/ ForkFails(q) \/ RemoveDir(q) \/ Crash(q)
           \/ (\E f \in Files \cup {"lock"} : UnlinkFails(q, f))
           \/ (\E p \in Names : Scan(q, p) \/ Compare(q, p)) \/ SetActive(q)
    PROVE  /\ FilesTyped' /\ RequestsTyped'
           /\ req'[q].inode \in {0, req[q].inode}
           /\ \A r \in Procs : r # q => req'[r] = req[r]
           /\ UNCHANGED <<files, inode, overrides, history, writes, creates>>
<1>1. UNCHANGED <<files, inode, overrides, history, writes, creates>>
    BY DEF Acquire, Fail, Read, Apply, ReadSource, ForkFails, RemoveDir,
           Crash, UnlinkFails, Scan, Compare, SetActive, diskVars
<1>2. FilesTyped'
  <2>1. dir' = dir \/ RemoveDir(q)
      BY DEF Acquire, Fail, Read, Apply, ReadSource, ForkFails, Crash,
             UnlinkFails, Scan, Compare, SetActive, diskVars
  <2>2. dir' \in [Names -> Nat]
      BY <2>1 DEF RemoveDir, FilesTyped
  <2> QED
      BY <1>1, <2>2 DEF FilesTyped
<1>3. req[q] \in Request
    BY DEF RequestsTyped
<1>5. CASE Acquire(q)
  <2> DEFINE x == [req[q] EXCEPT !.pc = "read"]
  <2>1. x \in Request /\ x.pc = "read" /\ x.name = req[q].name /\ x.key = req[q].key
        /\ x.value = req[q].value /\ x.inode = req[q].inode
      BY <1>3 DEF Request
  <2>2. req' = [req EXCEPT ![q] = x] /\ req[q].pc = "lock"
      BY <1>5 DEF Acquire, Goto
  <2> HIDE DEF x
  <2> QED
      BY <1>1, <1>2, <2>1, <2>2, RequestStep DEF RequestsTyped
<1>6. CASE Read(q)
  <2> DEFINE x == [req[q] EXCEPT !.pc = "truncate", !.read = overrides[req[q].name]]
  <2>1. req[q].name \in Names
      BY <1>6 DEF Read, RequestsTyped, Critical
  <2>2. x \in Request /\ x.pc = "truncate" /\ x.name = req[q].name /\ x.key = req[q].key
        /\ x.value = req[q].value /\ x.inode = req[q].inode
      BY <1>3, <2>1 DEF Request, FilesTyped
  <2>3. req' = [req EXCEPT ![q] = x] /\ req[q].pc = "read"
      BY <1>6 DEF Read
  <2> HIDE DEF x
  <2> QED
      BY <1>1, <1>2, <2>2, <2>3, RequestStep DEF RequestsTyped, Critical
<1>7. CASE \/ Fail(q) \/ Apply(q) \/ SetActive(q) \/ Crash(q) \/ ForkFails(q)
           \/ RemoveDir(q) \/ \E f \in Files \cup {"lock"} : UnlinkFails(q, f)
  <2>1. req' = [req EXCEPT ![q] = Idle]
      BY <1>7 DEF Fail, Apply, SetActive, Crash, ForkFails, RemoveDir, UnlinkFails,
                 Answered
  <2>2. Idle.pc \notin Critical \cup {"lock", "fork", "copy", "seed", "delete"}
      BY IdleIsARequest DEF Critical
  <2> QED
      BY <1>1, <1>2, <2>1, <2>2, IdleIsARequest, RequestStep
<1>9. CASE ReadSource(q)
  <2>1. req[q].pc = "fork" /\ req[q].from \in Names /\ req[q].name \in Names
      BY <1>9 DEF ReadSource, RequestsTyped
  <2>2. PICK c \in {"copy", "seed"} :
            req' = [req EXCEPT ![q].read = overrides[req[q].from], ![q].pc = c]
      BY <1>9 DEF ReadSource
  <2> DEFINE x == [req[q] EXCEPT !.read = overrides[req[q].from], !.pc = c]
  <2>3. x \in Request /\ x.pc = c /\ x.name = req[q].name /\ x.inode = req[q].inode
      BY <1>3, <2>1 DEF Request, FilesTyped
  <2>4. req' = [req EXCEPT ![q] = x]
      BY <2>2
  <2> HIDE DEF x
  <2>5. x.pc \notin Critical \cup {"lock", "fork"}
      BY <2>2, <2>3 DEF Critical
  <2> QED
      BY <1>1, <1>2, <2>1, <2>3, <2>4, <2>5, RequestStep
<1>10. CASE \E p \in Names : Compare(q, p)
  <2>1. PICK p \in Names : Compare(q, p)
      BY <1>10
  <2> DEFINE x == [Idle EXCEPT !.pc = "activate", !.name = p]
  <2>2. x \in Request /\ x.pc = "activate" /\ x.inode = 0
      BY IdleIsARequest DEF Request, Idle
  <2>3. req' = [req EXCEPT ![q] = x]
      BY <2>1 DEF Compare
  <2> HIDE DEF x
  <2>4. x.pc \notin Critical \cup {"lock", "fork", "copy", "seed", "delete"}
      BY <2>2 DEF Critical
  <2> QED
      BY <1>1, <1>2, <2>2, <2>3, <2>4, RequestStep
<1>11. CASE \E p \in Names : Scan(q, p)
  <2>1. PICK p \in Names : Scan(q, p)
      BY <1>11
  <2> DEFINE x == [Idle EXCEPT !.pc = "delete", !.name = p, !.dir = dir[p],
                               !.left = Entries(p)]
  <2>2. Entries(p) \in SUBSET (Files \cup {"lock"})
      BY DEF Entries, FilesTyped
  <2>3. x \in Request /\ x.pc = "delete" /\ x.name = p /\ x.inode = 0
      BY <2>2, IdleIsARequest DEF Request, FilesTyped, Idle
  <2>4. req' = [req EXCEPT ![q] = x]
      BY <2>1 DEF Scan
  <2> HIDE DEF x
  <2>5. x.pc \notin Critical \cup {"lock", "fork"}
      BY <2>3 DEF Critical
  <2> QED
      BY <1>1, <1>2, <2>3, <2>4, <2>5, RequestStep
<1> QED
    BY <1>5, <1>6, <1>7, <1>9, <1>10, <1>11

(***************************************************************************)
(* A writer that goes on with what it has read.                            *)
(***************************************************************************)
LEMMA WriterMoves ==
    ASSUME RequestsTyped, NEW q \in Procs, req[q].pc \in Critical,
           NEW c \in {"write", "append", "apply"}, Goto(q, c)
    PROVE  /\ RequestsTyped'
           /\ req'[q] = [req[q] EXCEPT !.pc = c]
           /\ req'[q].pc = c /\ req'[q].name = req[q].name
           /\ req'[q].inode = req[q].inode
           /\ req'[q].read = req[q].read /\ req'[q].key = req[q].key
           /\ req'[q].value = req[q].value
           /\ \A r \in Procs : r # q => req'[r] = req[r]
<1> DEFINE x == [req[q] EXCEPT !.pc = c]
<1>1. x \in Request /\ x.pc = c /\ x.name = req[q].name /\ x.key = req[q].key
      /\ x.value = req[q].value /\ x.inode = req[q].inode /\ x.read = req[q].read
    BY DEF Request, RequestsTyped
<1>2. req' = [req EXCEPT ![q] = x]
    BY DEF Goto
<1>3. /\ req[q].name \in Names /\ req[q].key \in Keys /\ req[q].value \in Values
      /\ req[q].inode # 0
    BY DEF RequestsTyped
<1>4. x = [req[q] EXCEPT !.pc = c]
    OBVIOUS
<1> HIDE DEF x
<1> QED
    BY <1>1, <1>2, <1>3, <1>4, RequestStep

(***************************************************************************)
(* Requests outside of the critical section.                               *)
(***************************************************************************)
LEMMA OutsideKeeps ==
    ASSUME ProfilesInv, NEW q \in Procs,
           \/ Apply(q) \/ ReadSource(q) \/ ForkFails(q) \/ RemoveDir(q)
           \/ (\E f \in Files \cup {"lock"} : UnlinkFails(q, f))
           \/ (\E p \in Names : Scan(q, p) \/ Compare(q, p)) \/ SetActive(q)
    PROVE  ProfilesInv'
<1>1. /\ FilesTyped' /\ RequestsTyped'
      /\ req'[q].inode \in {0, req[q].inode}
      /\ \A r \in Procs : r # q => req'[r] = req[r]
      /\ UNCHANGED <<files, inode, overrides, history, writes, creates>>
    BY RequestMoves DEF ProfilesInv
<1>2. UNCHANGED <<lock, blurred>>
    BY DEF Apply, ReadSource, ForkFails, RemoveDir, UnlinkFails, Scan, Compare,
           SetActive
<1>3. req \in [Procs -> Request] /\ writes \in Nat
    BY DEF ProfilesInv, RequestsTyped, FilesTyped
<1>4. req[q].pc \notin Critical /\ req'[q].pc \notin Critical
  <2>2. CASE Apply(q) \/ SetActive(q) \/ ForkFails(q) \/ RemoveDir(q)
             \/ \E f \in Files \cup {"lock"} : UnlinkFails(q, f)
      BY <1>3, <2>2, IdleIsARequest
      DEF Apply, SetActive, ForkFails, RemoveDir, UnlinkFails, Answered, Critical
  <2>3. CASE ReadSource(q)
    <3>1. PICK c \in {"copy", "seed"} :
              req' = [req EXCEPT ![q].read = overrides[req[q].from], ![q].pc = c]
        BY <2>3 DEF ReadSource
    <3>2. req[q].pc = "fork" /\ req'[q].pc = c
        BY <1>3, <2>3, <3>1 DEF ReadSource, Request
    <3> QED
        BY <3>1, <3>2 DEF Critical
  <2>4. CASE \E p \in Names : Compare(q, p)
    <3>1. PICK p \in Names : Compare(q, p)
        BY <2>4
    <3>2. req'[q] = [Idle EXCEPT !.pc = "activate", !.name = p]
        BY <1>3, <3>1 DEF Compare
    <3>3. [Idle EXCEPT !.pc = "activate", !.name = p].pc = "activate"
        BY IdleIsARequest DEF Request
    <3>4. req[q].pc = "idle"
        BY <3>1 DEF Compare
    <3> QED
        BY <3>2, <3>3, <3>4 DEF Critical
  <2>5. CASE \E p \in Names : Scan(q, p)
    <3>1. PICK p \in Names : Scan(q, p)
        BY <2>5
    <3>2. req'[q] = [Idle EXCEPT !.pc = "delete", !.name = p, !.dir = dir[p],
                                 !.left = Entries(p)]
        BY <1>3, <3>1 DEF Scan
    <3>3. [Idle EXCEPT !.pc = "delete", !.name = p, !.dir = dir[p],
                       !.left = Entries(p)].pc = "delete"
        BY IdleIsARequest DEF Request
    <3>4. req[q].pc = "idle"
        BY <3>1 DEF Scan
    <3> QED
        BY <3>2, <3>3, <3>4 DEF Critical
  <2> QED
      BY <2>2, <2>3, <2>4, <2>5
<1>5. LocksHeld'
  <2>1. req'[q].inode <= writes
      BY <1>1, <1>3 DEF ProfilesInv, LocksHeld
  <2> QED
      BY <1>1, <1>2, <1>4, <2>1 DEF ProfilesInv, LocksHeld
<1>6. ASSUME NEW p \in Names
      PROVE  Explained(p)'
  <2>1. CASE dir'[p] = dir[p]
    <3>1. Apart(p)
        BY <1>1, <1>2, <1>4, <2>1 DEF Apart, In, Writing, Critical
    <3> QED
        BY <3>1, ApartKeeps DEF ProfilesInv
  <2>2. CASE dir'[p] # dir[p]
    <3>1. RemoveDir(q)
        BY <2>2 DEF Apply, ReadSource, ForkFails, UnlinkFails, Scan, Compare,
                    SetActive, diskVars
    <3>2. dir'[p] = 0
        BY <2>2, <3>1 DEF RemoveDir, ProfilesInv, FilesTyped
    <3> QED
        BY <3>2 DEF Explained, Exists
  <2> QED
      BY <2>1, <2>2
<1> QED
    BY <1>1, <1>5, <1>6 DEF ProfilesInv

(***************************************************************************)
(* A new lock file has a number that nobody has opened before.             *)
(***************************************************************************)
LEMMA OpenKeeps ==
    ASSUME ProfilesInv, NEW q \in Procs, NEW p \in Names, NEW k \in Keys, NEW v \in Values,
           OpenLock(q, p, k, v)
    PROVE  ProfilesInv'
<1>1. /\ writes \in Nat /\ writes' = writes + 1 /\ req[q].pc = "idle"
      /\ inode' = [inode EXCEPT ![p] = IF @ = 0 THEN writes + 1 ELSE @]
      /\ UNCHANGED <<dir, files, overrides, history, lock, creates, blurred>>
    BY DEF OpenLock, ProfilesInv, FilesTyped
<1>2. PICK i : i = inode'[p]
    OBVIOUS
<1>3. /\ inode' \in [Names -> Nat] /\ i \in Nat /\ i # 0 /\ i <= writes + 1
      /\ i = inode[p] \/ (inode[p] = 0 /\ i = writes + 1)
      /\ \A n \in Names : n # p => inode'[n] = inode[n]
  <2>1. inode \in [Names -> Nat] /\ inode[p] \in Nat /\ inode[p] <= writes
      BY DEF ProfilesInv, FilesTyped, LocksHeld
  <2> QED
      BY <1>1, <1>2, <2>1
<1>4. FilesTyped'
    BY <1>1, <1>3 DEF ProfilesInv, FilesTyped
<1> DEFINE x == [Idle EXCEPT !.pc = "lock", !.name = p, !.inode = i, !.key = k,
                             !.value = v]
<1>5. x \in Request /\ x.pc = "lock" /\ x.name = p /\ x.key = k /\ x.value = v
      /\ x.inode = i
    BY <1>3, IdleIsARequest DEF Request
<1>6. req' = [req EXCEPT ![q] = x]
    BY <1>2 DEF OpenLock
<1> HIDE DEF x
<1>7. RequestsTyped' /\ req'[q] = x /\ \A r \in Procs : r # q => req'[r] = req[r]
    BY <1>3, <1>5, <1>6, RequestStep DEF ProfilesInv
<1>8. req[q].pc \notin Critical /\ req'[q].pc \notin Critical
    BY <1>1, <1>5, <1>7 DEF Critical
<1>9. \A r \in Procs : req[r].inode \in Nat /\ req[r].inode <= writes
    BY DEF ProfilesInv, RequestsTyped, Request, LocksHeld
<1>10. LocksHeld'
  <2>1. \A n \in Names : inode'[n] <= writes'
    <3>1. \A n \in Names : inode[n] \in Nat /\ inode[n] <= writes
        BY DEF ProfilesInv, FilesTyped, LocksHeld
    <3> QED
        BY <1>1, <1>2, <1>3, <3>1
  <2>2. \A r \in Procs : req'[r].inode <= writes'
      BY <1>1, <1>3, <1>5, <1>7, <1>9
  <2> QED
      BY <1>1, <1>7, <1>8, <2>1, <2>2 DEF ProfilesInv, LocksHeld
<1>11. ASSUME NEW n \in Names
       PROVE  Explained(n)'
  <2>1. CASE inode'[n] = inode[n]
    <3>1. Apart(n)
        BY <1>1, <1>7, <1>8, <2>1 DEF Apart, In, Writing, Critical
    <3> QED
        BY <3>1, ApartKeeps DEF ProfilesInv
  <2>2. CASE inode'[n] # inode[n]
    <3>1. inode[n] = 0 /\ inode'[n] = writes + 1
        BY <1>1, <1>2, <1>3, <2>2
    <3> SUFFICES ASSUME Exists(n), n \notin blurred
                 PROVE  (/\ RowsAgree(n) /\ FileAgrees(n)
                         /\ WriterAgrees(n) /\ ReaderAgrees(n))'
        BY <1>1 DEF Explained, Exists
    <3>2. RowsAgree(n) /\ FileAgrees(n) /\ WriterAgrees(n)
        BY DEF ProfilesInv, Explained
    <3>3. \A r \in Procs : (In(r, n)' <=> In(r, n)) /\ (In(r, n) => req'[r] = req[r])
        BY <1>7, <1>8 DEF In
    <3>4. \A r \in Procs : In(r, n) => req[r].pc \notin Writing
      <4>1. \A r \in Procs : In(r, n) => req[r].inode # 0
          BY DEF In, ProfilesInv, RequestsTyped
      <4> QED
          BY <3>1, <3>2, <4>1 DEF WriterAgrees
    <3>5. RowsAgree(n)'
        BY <1>1, <3>2 DEF RowsAgree
    <3>6. FileAgrees(n)'
        BY <1>1, <3>2, <3>3 DEF FileAgrees, LastRow
    <3>7. WriterAgrees(n)'
        BY <3>3, <3>4 DEF WriterAgrees
    <3>8. ReaderAgrees(n)'
      <4>1. \A r \in Procs : In(r, n) => req[r].inode # writes + 1
          BY <1>1, <1>9
      <4> QED
          BY <3>1, <3>3, <4>1 DEF ReaderAgrees
    <3> QED
        BY <3>5, <3>6, <3>7, <3>8
  <2> QED
      BY <2>1, <2>2
<1> QED
    BY <1>4, <1>7, <1>10, <1>11 DEF ProfilesInv

(***************************************************************************)
(* The lock is taken when nobody holds it for that directory.              *)
(***************************************************************************)
LEMMA AcquireKeeps ==
    ASSUME ProfilesInv, NEW q \in Procs, Acquire(q)
    PROVE  ProfilesInv'
<1>1. /\ FilesTyped' /\ RequestsTyped'
      /\ \A r \in Procs : r # q => req'[r] = req[r]
      /\ UNCHANGED <<dir, inode, overrides, history, writes, blurred>>
    BY RequestMoves DEF ProfilesInv, Acquire, diskVars
<1>2. req[q] \in Request /\ req[q].pc = "lock" /\ req' = [req EXCEPT ![q].pc = "read"]
    BY DEF ProfilesInv, RequestsTyped, Acquire, Goto
<1>3. req'[q].pc = "read" /\ req'[q].name = req[q].name /\ req'[q].inode = req[q].inode
    BY <1>2 DEF ProfilesInv, RequestsTyped, Request
<1>4. LocksHeld'
  <2>1. /\ lock' = lock \cup {<<req[q].inode, q>>}
        /\ \A h \in lock : h[1] # req[q].inode
      BY DEF Acquire
  <2>2. \A r \in Procs :
            req'[r].pc \in Critical => <<req'[r].inode, r>> \in lock'
      BY <1>1, <1>3, <2>1 DEF ProfilesInv, LocksHeld
  <2>3. ASSUME NEW d \in Nat, NEW r \in Procs, NEW t \in Procs,
               <<d, r>> \in lock', <<d, t>> \in lock'
        PROVE  r = t
    <3>1. CASE <<d, r>> \in lock /\ <<d, t>> \in lock
        BY <3>1 DEF ProfilesInv, LocksHeld
    <3>2. CASE <<d, r>> \notin lock
      <4>1. d = req[q].inode /\ r = q
          BY <2>1, <2>3, <3>2
      <4>2. <<d, t>> \notin lock
          BY <2>1, <4>1
      <4> QED
          BY <2>1, <2>3, <4>1, <4>2
    <3>3. CASE <<d, t>> \notin lock
      <4>1. d = req[q].inode /\ t = q
          BY <2>1, <2>3, <3>3
      <4>2. <<d, r>> \notin lock
          BY <2>1, <4>1
      <4> QED
          BY <2>1, <2>3, <4>1, <4>2
    <3> QED
        BY <3>1, <3>2, <3>3
  <2>4. (\A p \in Names : inode'[p] <= writes') /\ \A r \in Procs : req'[r].inode <= writes'
      BY <1>1, <1>3 DEF ProfilesInv, LocksHeld
  <2> QED
      BY <2>2, <2>3, <2>4 DEF LocksHeld
<1>5. \A p \in Names : Apart(p)
    BY <1>1, <1>2, <1>3 DEF Apart, In, Writing
<1> QED
    BY <1>1, <1>4, <1>5, ApartKeeps DEF ProfilesInv

(***************************************************************************)
(* A request that fails or whose process dies: the profile is gone, or     *)
(* nothing was written, or it counts as blurred.                           *)
(***************************************************************************)
LEMMA BreakOffKeeps ==
    ASSUME ProfilesInv, NEW q \in Procs, Fail(q) \/ Crash(q)
    PROVE  ProfilesInv'
<1>1. /\ FilesTyped' /\ RequestsTyped'
      /\ \A r \in Procs : r # q => req'[r] = req[r]
      /\ UNCHANGED <<dir, inode, overrides, history, writes>>
    BY RequestMoves DEF ProfilesInv, Fail, Crash, diskVars
<1>2. req'[q] = Idle /\ lock' = lock \ Held(q)
    BY DEF ProfilesInv, RequestsTyped, Fail, Crash, Answered
<1>3. req'[q].pc \notin Critical /\ req'[q].inode = 0
    BY <1>2, IdleIsARequest DEF Critical
<1>4. LocksHeld'
  <2>1. req'[q].inode <= writes
      BY <1>3 DEF ProfilesInv, FilesTyped
  <2> QED
      BY <1>1, <1>2, <1>3, <2>1 DEF ProfilesInv, LocksHeld, Held
<1>5. ASSUME NEW p \in Names
      PROVE  Explained(p)'
  <2>1. CASE In(q, p) /\ req[q].pc \in Writing /\ p \notin blurred'
    <3>1. Fail(q)
        BY <2>1 DEF Crash, In, Writing
    <3> QED
        BY <1>1, <2>1, <3>1 DEF Fail, In, Exists, Explained
  <2>2. CASE ~(In(q, p) /\ req[q].pc \in Writing) \/ p \in blurred'
    <3>1. blurred \subseteq blurred'
        BY DEF Fail, Crash
    <3>2. Apart(p)
        BY <1>1, <1>3, <2>2, <3>1 DEF Apart, In
    <3> QED
        BY <3>2, ApartKeeps DEF ProfilesInv
  <2> QED
      BY <2>1, <2>2
<1> QED
    BY <1>1, <1>4, <1>5 DEF ProfilesInv

(***************************************************************************)
(* Reading under the lock.                                                 *)
(***************************************************************************)
LEMMA ReadKeeps ==
    ASSUME ProfilesInv, NEW q \in Procs, Read(q)
    PROVE  ProfilesInv'
<1>1. /\ FilesTyped' /\ RequestsTyped'
      /\ \A r \in Procs : r # q => req'[r] = req[r]
      /\ UNCHANGED <<dir, inode, overrides, history, lock, writes, blurred>>
    BY RequestMoves DEF ProfilesInv, Read, diskVars
<1>2. req[q] \in Request /\ req[q].pc = "read"
    BY DEF ProfilesInv, RequestsTyped, Read
<1>3. PICK o : o = overrides[req[q].name]
    OBVIOUS
<1>4. req' = [req EXCEPT ![q].pc = "truncate", ![q].read = o]
    BY <1>3 DEF Read
<1>5. /\ req'[q].pc = "truncate" /\ req'[q].name = req[q].name
      /\ req'[q].inode = req[q].inode /\ req'[q].read = o
    BY <1>2, <1>4 DEF ProfilesInv, RequestsTyped, Request
<1>6. LocksHeld'
    BY <1>1, <1>2, <1>5 DEF ProfilesInv, LocksHeld, Critical
<1>7. ASSUME NEW p \in Names
      PROVE  Explained(p)'
  <2>1. CASE p # req[q].name
    <3>1. Apart(p)
        BY <1>1, <1>5, <2>1 DEF Apart, In
    <3> QED
        BY <3>1, ApartKeeps DEF ProfilesInv
  <2>2. CASE p = req[q].name
    <3> SUFFICES ASSUME Exists(p)', p \notin blurred'
                 PROVE  (/\ RowsAgree(p) /\ FileAgrees(p)
                         /\ WriterAgrees(p) /\ ReaderAgrees(p))'
        BY DEF Explained
    <3>1. RowsAgree(p) /\ FileAgrees(p) /\ WriterAgrees(p) /\ ReaderAgrees(p)
        BY <1>1 DEF ProfilesInv, Explained, Exists
    <3>2. RowsAgree(p)'
        BY <1>1, <3>1 DEF RowsAgree
    <3>3. \A r \in Procs : /\ In(r, p)' <=> In(r, p)
                           /\ req'[r].pc \in Writing <=> req[r].pc \in Writing
        BY <1>1, <1>2, <1>5 DEF In, Writing, Critical
    <3>4. FileAgrees(p)'
        BY <1>1, <3>1, <3>3 DEF FileAgrees, LastRow
    <3>5. WriterAgrees(p)'
        BY <1>1, <1>5, <3>1, <3>3 DEF WriterAgrees, LastRow, Writing
    <3>6. ReaderAgrees(p)'
        BY <1>1, <1>3, <1>5, <2>2, <3>1, <3>3 DEF ReaderAgrees
    <3> QED
        BY <3>2, <3>4, <3>5, <3>6
  <2> QED
      BY <2>1, <2>2
<1> QED
    BY <1>1, <1>6, <1>7 DEF ProfilesInv

(***************************************************************************)
(* In a profile that is not blurred a writer has the section to itself.    *)
(***************************************************************************)
LEMMA WriterIsAlone ==
    ASSUME ProfilesInv, NEW q \in Procs, req[q].pc \in Critical, ~Unlocked(q),
           Exists(req[q].name), req[q].name \notin blurred, NEW r \in Procs, r # q,
           In(r, req[q].name)
    PROVE  req[r].pc \notin Writing /\ req[r].inode # inode[req[q].name]
<1>1. req[q].name \in Names /\ req[q].inode = inode[req[q].name]
    BY DEF ProfilesInv, RequestsTyped, Unlocked
<1>2. req[r].inode # req[q].inode
    BY OneWriter DEF ProfilesInv, In
<1>3. WriterAgrees(req[q].name)
    BY <1>1 DEF ProfilesInv, Explained
<1> QED
    BY <1>1, <1>2, <1>3 DEF WriterAgrees

\* A row appended to the lines of a file leaves the others of its fields alone.
LEMMA RowAppended ==
    ASSUME NEW B, NEW R, NEW f \in [base : B, rows : R], NEW row
    PROVE  [f EXCEPT !.rows = Append(@, row)] = [base |-> f.base, rows |-> Append(f.rows, row)]
    OBVIOUS

(***************************************************************************)
(* What the three steps of a writer have in common: the other profiles,    *)
(* and this one if its directory is another by now.                        *)
(***************************************************************************)
LEMMA WriterElsewhere ==
    ASSUME ProfilesInv, NEW q \in Procs, Truncate(q) \/ Write(q) \/ AppendRow(q)
    PROVE  /\ FilesTyped' /\ RequestsTyped' /\ LocksHeld'
           /\ \A p \in Names : p # req[q].name \/ p \in blurred' => Explained(p)'
           /\ req[q].name \notin blurred' => ~Unlocked(q) /\ req[q].name \notin blurred
<1>1. PICK c \in {"write", "append", "apply"} : Goto(q, c)
    BY DEF Truncate, Write, AppendRow
<1>2. req[q].pc \in Critical /\ Blur(q) /\ UNCHANGED <<dir, inode, writes>>
      /\ lock' \in {lock, lock \ Held(q)} /\ (req[q].pc # "append" => lock' = lock)
    BY DEF Truncate, Write, AppendRow, Critical
<1>3. RequestsTyped' /\ req'[q].pc = c /\ req'[q].name = req[q].name
      /\ req'[q].inode = req[q].inode /\ \A r \in Procs : r # q => req'[r] = req[r]
    BY <1>1, <1>2, WriterMoves DEF ProfilesInv
<1>4. req[q].name \in Names /\ req[q].key \in Keys /\ req[q].value \in Values
      /\ req[q].read \in Override
    BY <1>2 DEF ProfilesInv, RequestsTyped, Request
<1>5. \A p \in Names : p # req[q].name =>
          overrides'[p] = overrides[p] /\ history'[p] = history[p]
    BY <1>4 DEF Truncate, Write, AppendRow, ProfilesInv, FilesTyped
<1>6. FilesTyped'
  <2>1. CASE Truncate(q)
      BY <1>4, <2>1 DEF Truncate, Makes, Files, ProfilesInv, FilesTyped, Override, Empty
  <2>2. CASE Write(q)
      BY <1>4, <2>2 DEF Write, Makes, Files, ProfilesInv, FilesTyped, Override
  <2>3. CASE AppendRow(q)
    <3> DEFINE n == req[q].name
               row == [key |-> req[q].key, after |-> req[q].value,
                       before |-> req[q].read[req[q].key]]
    <3>1. row \in AuditRow
        BY <1>4 DEF AuditRow, Override
    <3>2. history[n] \in [base : Override, rows : Seq(AuditRow)]
        BY <1>4 DEF ProfilesInv, FilesTyped
    <3> DEFINE h == [history[n] EXCEPT !.rows = Append(@, row)]
    <3>3. history' = [history EXCEPT ![n] = h]
        BY <2>3 DEF AppendRow, ProfilesInv, FilesTyped
    <3> HIDE DEF row
    <3>4. Append(history[n].rows, row) \in Seq(AuditRow)
        BY <3>1, <3>2
    <3>5. h = [base |-> history[n].base, rows |-> Append(history[n].rows, row)]
      <4>1. PICK f \in [base : Override, rows : Seq(AuditRow)] : f = history[n]
          BY <3>2
      <4>2. [f EXCEPT !.rows = Append(@, row)] = [base |-> f.base, rows |-> Append(f.rows, row)]
          BY RowAppended
      <4> QED
          BY <4>1, <4>2
    <3>6. h \in [base : Override, rows : Seq(AuditRow)]
        BY <3>2, <3>4, <3>5
    <3>7. UNCHANGED <<dir, inode, overrides, writes, creates>> /\ n \in Names
        BY <1>4, <2>3 DEF AppendRow
    <3>8. files' \in [Names -> SUBSET Files]
        BY <1>4, <2>3 DEF AppendRow, Makes, Files, ProfilesInv, FilesTyped
    <3> HIDE DEF h, n
    <3> QED
        BY <3>3, <3>6, <3>7, <3>8 DEF ProfilesInv, FilesTyped
  <2> QED
      BY <2>1, <2>2, <2>3
<1>7. LocksHeld'
  <2>1. CASE lock' = lock
      BY <1>2, <1>3, <2>1 DEF ProfilesInv, LocksHeld
  <2>2. CASE AppendRow(q)
    <3>1. req'[q].pc = "apply" /\ lock' = lock \ Held(q)
        BY <2>2, <1>2, WriterMoves DEF AppendRow, ProfilesInv
    <3> QED
        BY <1>2, <1>3, <3>1 DEF ProfilesInv, LocksHeld, Held, Critical
  <2> QED
      BY <1>2, <2>1, <2>2 DEF Truncate, Write
<1>8. \A p \in Names : p # req[q].name => Explained(p)'
  <2>1. ASSUME NEW p \in Names, p # req[q].name
        PROVE  Apart(p)
      BY <1>2, <1>3, <1>5, <2>1 DEF Apart, In, Blur
  <2> QED
      BY <2>1, ApartKeeps DEF ProfilesInv
<1>9. req[q].name \notin blurred' => ~Unlocked(q) /\ req[q].name \notin blurred
    BY <1>2 DEF Blur
<1> QED
    BY <1>3, <1>6, <1>7, <1>8, <1>9 DEF Explained

(***************************************************************************)
(* write_text begins: the file is empty, and what the log tells is what    *)
(* the writer has read.                                                    *)
(***************************************************************************)
LEMMA TruncateKeeps ==
    ASSUME ProfilesInv, NEW q \in Procs, Truncate(q)
    PROVE  ProfilesInv'
<1> SUFFICES ASSUME NEW p \in Names, p = req[q].name
             PROVE  ProfilesInv'
    BY DEF Truncate, ProfilesInv, RequestsTyped, Critical
<1>1. /\ FilesTyped' /\ RequestsTyped' /\ LocksHeld'
      /\ \A n \in Names : n # p \/ n \in blurred' => Explained(n)'
      /\ p \notin blurred' => ~Unlocked(q) /\ p \notin blurred
    BY WriterElsewhere
<1>2. /\ req[q].pc = "truncate" /\ Exists(p) /\ Goto(q, "write")
      /\ UNCHANGED <<dir, inode, history>>
    BY DEF Truncate
<1>3. p \in Names
    OBVIOUS
<1>4. /\ req'[q].pc = "write" /\ req'[q].name = p /\ req'[q].inode = req[q].inode
      /\ req'[q].read = req[q].read /\ \A r \in Procs : r # q => req'[r] = req[r]
    BY <1>2, WriterMoves DEF ProfilesInv, Critical
<1>5. ASSUME p \notin blurred'
      PROVE  Explained(p)'
  <2>1. ~Unlocked(q) /\ p \notin blurred /\ req[q].inode = inode[p]
      BY <1>1, <1>5 DEF Unlocked
  <2>2. RowsAgree(p) /\ FileAgrees(p) /\ WriterAgrees(p) /\ ReaderAgrees(p)
      BY <1>2, <1>3, <2>1 DEF ProfilesInv, Explained
  <2>3. \A r \in Procs : r # q /\ In(r, p) =>
            req[r].pc \notin Writing /\ req[r].inode # inode[p]
      BY <1>2, <2>1, WriterIsAlone DEF Critical
  <2>4. In(q, p) /\ In(q, p)' /\ \A r \in Procs : r # q => (In(r, p)' <=> In(r, p))
      BY <1>2, <1>4 DEF In, Critical
  <2>5. \A k \in Keys : Tells(history[p], LastRow(p), k, req[q].read[k])
    <3>1. \A k \in Keys : Tells(history[p], LastRow(p), k, overrides[p][k])
        BY <1>2, <2>2, <2>3 DEF FileAgrees, Writing
    <3>2. req[q].read = overrides[p]
        BY <1>2, <2>1, <2>2, <2>4 DEF ReaderAgrees
    <3> QED
        BY <3>1, <3>2
  <2>6. RowsAgree(p)'
      BY <1>2, <1>4, <2>2 DEF RowsAgree
  <2>7. FileAgrees(p)'
      BY <1>4, <2>4 DEF FileAgrees, Writing
  <2>8. WriterAgrees(p)'
      BY <1>2, <1>4, <2>1, <2>3, <2>4, <2>5 DEF WriterAgrees, LastRow
  <2>9. ReaderAgrees(p)'
      BY <1>2, <1>4, <2>3, <2>4 DEF ReaderAgrees
  <2> QED
      BY <2>6, <2>7, <2>8, <2>9 DEF Explained
<1> QED
    BY <1>1, <1>5 DEF ProfilesInv

(***************************************************************************)
(* The new file.                                                           *)
(***************************************************************************)
LEMMA WriteKeeps ==
    ASSUME ProfilesInv, NEW q \in Procs, Write(q)
    PROVE  ProfilesInv'
<1> SUFFICES ASSUME NEW p \in Names, p = req[q].name
             PROVE  ProfilesInv'
    BY DEF Write, ProfilesInv, RequestsTyped, Critical
<1>1. /\ FilesTyped' /\ RequestsTyped' /\ LocksHeld'
      /\ \A n \in Names : n # p \/ n \in blurred' => Explained(n)'
      /\ p \notin blurred' => ~Unlocked(q) /\ p \notin blurred
    BY WriterElsewhere
<1>2. /\ req[q].pc = "write" /\ Exists(p) /\ Goto(q, "append")
      /\ UNCHANGED <<dir, inode, history>>
    BY DEF Write
<1>3. p \in Names
    OBVIOUS
<1>4. /\ req'[q].pc = "append" /\ req'[q].name = p /\ req'[q].inode = req[q].inode
      /\ req'[q].read = req[q].read /\ req'[q].key = req[q].key
      /\ req'[q].value = req[q].value /\ \A r \in Procs : r # q => req'[r] = req[r]
    BY <1>2, WriterMoves DEF ProfilesInv, Critical
<1>5. overrides'[p] = [req[q].read EXCEPT ![req[q].key] = req[q].value]
    BY <1>3 DEF Write, ProfilesInv, FilesTyped
<1>6. ASSUME p \notin blurred'
      PROVE  Explained(p)'
  <2>1. ~Unlocked(q) /\ p \notin blurred
      BY <1>1, <1>6
  <2>2. RowsAgree(p) /\ WriterAgrees(p)
      BY <1>2, <1>3, <2>1 DEF ProfilesInv, Explained
  <2>3. \A r \in Procs : r # q /\ In(r, p) =>
            req[r].pc \notin Writing /\ req[r].inode # inode[p]
      BY <1>2, <2>1, WriterIsAlone DEF Critical
  <2>4. In(q, p) /\ In(q, p)' /\ \A r \in Procs : r # q => (In(r, p)' <=> In(r, p))
      BY <1>2, <1>4 DEF In, Critical
  <2>5. RowsAgree(p)'
      BY <1>2, <1>4, <2>2 DEF RowsAgree
  <2>6. FileAgrees(p)'
      BY <1>4, <2>4 DEF FileAgrees, Writing
  <2>7. WriterAgrees(p)'
      BY <1>2, <1>4, <1>5, <2>2, <2>3, <2>4 DEF WriterAgrees, LastRow, Writing
  <2>8. ReaderAgrees(p)'
      BY <1>2, <1>4, <2>3, <2>4 DEF ReaderAgrees
  <2> QED
      BY <2>5, <2>6, <2>7, <2>8 DEF Explained
<1> QED
    BY <1>1, <1>6 DEF ProfilesInv

(***************************************************************************)
(* The row of the log, with which it tells the new file.                   *)
(***************************************************************************)
LEMMA AppendKeeps ==
    ASSUME ProfilesInv, NEW q \in Procs, AppendRow(q)
    PROVE  ProfilesInv'
<1> SUFFICES ASSUME NEW p \in Names, p = req[q].name
             PROVE  ProfilesInv'
    BY DEF AppendRow, ProfilesInv, RequestsTyped, Critical
<1> DEFINE n == LastRow(p)
           g == history'[p]
           h == history[p]
<1>1. /\ FilesTyped' /\ RequestsTyped' /\ LocksHeld'
      /\ \A m \in Names : m # p \/ m \in blurred' => Explained(m)'
      /\ p \notin blurred' => ~Unlocked(q) /\ p \notin blurred
    BY WriterElsewhere
<1>2. /\ req[q].pc = "append" /\ Exists(p) /\ Goto(q, "apply")
      /\ UNCHANGED <<dir, inode, overrides>>
    BY DEF AppendRow
<1>3. p \in Names /\ req[q].key \in Keys
    BY <1>2 DEF ProfilesInv, RequestsTyped, Critical
<1>4. /\ req'[q].pc = "apply" /\ \A r \in Procs : r # q => req'[r] = req[r]
    BY <1>2, WriterMoves DEF ProfilesInv, Critical
<1>5. /\ n \in Nat /\ LastRow(p)' = n + 1
      /\ g.base = h.base /\ \A i \in 1..n : g.rows[i] = h.rows[i]
      /\ g.rows[n + 1].key = req[q].key /\ g.rows[n + 1].after = req[q].value
      /\ g.rows[n + 1].before = req[q].read[req[q].key]
  <2>1. PICK row : row = [key |-> req[q].key, after |-> req[q].value,
                          before |-> req[q].read[req[q].key]]
      OBVIOUS
  <2>2. h \in [base : Override, rows : Seq(AuditRow)] /\ g \in [base : Override, rows : Seq(AuditRow)]
      BY <1>1, <1>3 DEF ProfilesInv, FilesTyped
  <2>3. g.base = h.base /\ g.rows = Append(h.rows, row)
      BY <1>3, <2>1, <2>2 DEF AppendRow, ProfilesInv, FilesTyped
  <2>4. row.key = req[q].key /\ row.after = req[q].value
        /\ row.before = req[q].read[req[q].key]
      BY <2>1
  <2>5. req'[q].name = p
      BY <1>2, WriterMoves DEF ProfilesInv, Critical
  <2>6. LastRow(p)' = Len(g.rows) /\ n = Len(h.rows)
      BY DEF LastRow
  <2>7. h.rows \in Seq(AuditRow)
      BY <2>2
  <2> HIDE DEF g, h, n
  <2>8. Len(g.rows) = Len(h.rows) + 1 /\ g.rows[Len(h.rows) + 1] = row
        /\ Len(h.rows) \in Nat /\ \A i \in 1..Len(h.rows) : g.rows[i] = h.rows[i]
      BY <2>3, <2>7
  <2> QED
      BY <2>3, <2>4, <2>6, <2>8
<1>6. ASSUME p \notin blurred'
      PROVE  Explained(p)'
  <2>1. ~Unlocked(q) /\ p \notin blurred
      BY <1>1, <1>6
  <2>2. RowsAgree(p) /\ WriterAgrees(p)
      BY <1>2, <1>3, <2>1 DEF ProfilesInv, Explained
  <2>3. \A r \in Procs : r # q /\ In(r, p) =>
            req[r].pc \notin Writing /\ req[r].inode # inode[p]
      BY <1>2, <2>1, WriterIsAlone DEF Critical
  <2>4. In(q, p) /\ ~In(q, p)' /\ \A r \in Procs : r # q => (In(r, p)' <=> In(r, p))
      BY <1>2, <1>4 DEF In, Critical
  <2>5. /\ \A k \in Keys : Tells(h, n, k, req[q].read[k])
        /\ overrides[p] = [req[q].read EXCEPT ![req[q].key] = req[q].value]
      BY <1>2, <2>2, <2>4 DEF WriterAgrees, Writing
  <2>6. req[q].read \in Override
      BY <1>2 DEF ProfilesInv, RequestsTyped, Request
  <2>7. \A i \in 1..n : Tells(h, i - 1, h.rows[i].key, h.rows[i].before)
      BY <2>2 DEF RowsAgree, LastRow
  <2> HIDE DEF g, h, n
  <2>8. ASSUME NEW i \in 1..(n + 1)
        PROVE  Tells(g, i - 1, g.rows[i].key, g.rows[i].before)
    <3>1. CASE i \in 1..n
      <4>1. i - 1 \in Nat /\ \A j \in 1..(i - 1) : g.rows[j] = h.rows[j]
          BY <1>5, <3>1
      <4>2. Tells(h, i - 1, h.rows[i].key, h.rows[i].before)
          BY <2>7, <3>1
      <4>3. g.rows[i] = h.rows[i]
          BY <1>5, <3>1
      <4> QED
          BY <1>5, <4>1, <4>2, <4>3, TellsByPrefix
    <3>2. CASE i = n + 1
      <4>1. Tells(g, n, req[q].key, req[q].read[req[q].key])
          BY <1>3, <1>5, <2>5, TellsByPrefix
      <4>2. i - 1 = n
          BY <1>5, <3>2
      <4> QED
          BY <1>5, <3>2, <4>1, <4>2
    <3> QED
        BY <1>5, <3>1, <3>2
  <2>9. ASSUME NEW k \in Keys
        PROVE  Tells(g, n + 1, k, overrides'[p][k])
    <3>1. CASE k = req[q].key
      <4>1. overrides'[p][k] = req[q].value
          BY <1>2, <1>3, <2>5, <2>6, <3>1 DEF Override
      <4> QED
          BY <1>5, <3>1, <4>1, TellsTheLastRow
    <3>2. CASE k # req[q].key
      <4>1. overrides'[p][k] = req[q].read[k]
          BY <1>2, <2>5, <2>6, <3>2 DEF Override
      <4>2. Tells(g, n, k, req[q].read[k])
          BY <1>5, <2>5, TellsByPrefix
      <4> QED
          BY <1>5, <3>2, <4>1, <4>2, TellsPastARow
    <3> QED
        BY <3>1, <3>2
  <2>10. RowsAgree(p)'
      BY <1>5, <2>8 DEF RowsAgree, LastRow, g
  <2>11. FileAgrees(p)'
      BY <1>5, <2>9 DEF FileAgrees, g
  <2>12. WriterAgrees(p)'
      BY <1>2, <1>4, <2>3, <2>4 DEF WriterAgrees
  <2>13. ReaderAgrees(p)'
      BY <1>2, <1>4, <2>3, <2>4 DEF ReaderAgrees
  <2> QED
      BY <2>10, <2>11, <2>12, <2>13 DEF Explained
<1> QED
    BY <1>1, <1>6 DEF ProfilesInv

(***************************************************************************)
(* A new profile has no rows and no overrides.                             *)
(***************************************************************************)
LEMMA MakeDirKeeps ==
    ASSUME ProfilesInv, NEW q \in Procs, NEW p \in Names, NEW from \in Names,
           MakeDir(q, p, from)
    PROVE  ProfilesInv'
<1> DEFINE x == [Idle EXCEPT !.pc = "fork", !.name = p, !.dir = creates + 2,
                             !.from = from]
<1>1. /\ creates \in Nat /\ creates' = creates + 1 /\ lock' = lock /\ writes' = writes
      /\ req[q].pc = "idle" /\ req' = [req EXCEPT ![q] = x]
    BY DEF MakeDir, ProfilesInv, FilesTyped
<1>2. x \in Request /\ x.pc = "fork" /\ x.name = p /\ x.from = from /\ x.inode = 0
  <2>1. creates + 2 \in Nat
      BY <1>1
  <2> QED
      BY <2>1, IdleIsARequest DEF Request, Idle
<1> HIDE DEF x
<1>3. RequestsTyped' /\ req'[q] = x /\ \A r \in Procs : r # q => req'[r] = req[r]
    BY <1>1, <1>2, RequestStep DEF ProfilesInv, Critical
<1>4. dir' = [dir EXCEPT ![p] = creates + 2] /\ overrides' = [overrides EXCEPT ![p] = Empty]
      /\ files' = [files EXCEPT ![p] = {}] /\ inode' = [inode EXCEPT ![p] = 0]
      /\ history' = [history EXCEPT ![p] = [base |-> Empty, rows |-> <<>>]]
      /\ blurred' = IF InCritical(p) = {} THEN blurred \ {p} ELSE blurred \cup {p}
    BY DEF MakeDir
<1>5. Empty \in Override /\ [base |-> Empty, rows |-> <<>>] \in [base : Override, rows : Seq(AuditRow)]
    BY DEF Empty, Override
<1>6. FilesTyped'
    BY <1>1, <1>4, <1>5 DEF ProfilesInv, FilesTyped
<1>7. LocksHeld'
  <2>1. (\A n \in Names : inode'[n] <= writes') /\ \A r \in Procs : req'[r].inode <= writes'
      BY <1>1, <1>2, <1>3, <1>4 DEF ProfilesInv, FilesTyped, LocksHeld
  <2> QED
      BY <1>1, <1>2, <1>3, <2>1 DEF ProfilesInv, LocksHeld, Critical
<1>8. ASSUME NEW n \in Names, n # p
      PROVE  Explained(n)'
  <2>1. Apart(n)
      BY <1>1, <1>2, <1>3, <1>4, <1>8 DEF Apart, In, Critical, ProfilesInv, FilesTyped
  <2> QED
      BY <2>1, ApartKeeps DEF ProfilesInv
<1>9. ASSUME p \notin blurred'
      PROVE  Explained(p)'
  <2>1. InCritical(p) = {}
      BY <1>4, <1>9
  <2>2. \A r \in Procs : ~In(r, p)
      BY <2>1 DEF In, Critical, InCritical
  <2>3. \A r \in Procs : ~In(r, p)'
      BY <1>2, <1>3, <2>2 DEF In, Critical
  <2>4. history'[p].rows = <<>> /\ history'[p].base = Empty /\ overrides'[p] = Empty
      BY <1>4 DEF ProfilesInv, FilesTyped
  <2>5. RowsAgree(p)'
      BY <2>4 DEF RowsAgree
  <2>6. FileAgrees(p)'
      BY <2>4 DEF FileAgrees, LastRow, Tells
  <2>7. WriterAgrees(p)' /\ ReaderAgrees(p)'
      BY <2>3 DEF WriterAgrees, ReaderAgrees
  <2> QED
      BY <2>5, <2>6, <2>7 DEF Explained
<1>10. Explained(p)'
    BY <1>9 DEF Explained
<1> QED
    BY <1>3, <1>6, <1>7, <1>8, <1>10 DEF ProfilesInv

(***************************************************************************)
(* A fork starts with what it has copied.                                  *)
(***************************************************************************)
LEMMA CopyKeeps ==
    ASSUME ProfilesInv, NEW q \in Procs, Copy(q)
    PROVE  ProfilesInv'
<1> SUFFICES ASSUME NEW p \in Names, p = req[q].name, NEW o \in Override,
                    o = req[q].read
             PROVE  ProfilesInv'
    BY DEF Copy, ProfilesInv, RequestsTyped, Request
<1>1. /\ req[q].pc = "copy" /\ Goto(q, "seed") /\ Makes(p, "overrides")
      /\ overrides' = [overrides EXCEPT ![p] = o]
      /\ history' = [history EXCEPT ![p].base = o]
      /\ blurred' = IF InCritical(p) # {} \/ Gone(q) \/ history[p].rows # <<>>
                    THEN blurred \cup {p} ELSE blurred
      /\ UNCHANGED <<dir, inode, lock, writes, creates>>
    BY DEF Copy
<1> DEFINE x == [req[q] EXCEPT !.pc = "seed"]
<1>2. x \in Request /\ x.pc = "seed" /\ x.name = p /\ x.inode = req[q].inode
    BY DEF ProfilesInv, RequestsTyped, Request
<1>3. req' = [req EXCEPT ![q] = x]
    BY <1>1 DEF Goto
<1> HIDE DEF x
<1>4. RequestsTyped' /\ req'[q] = x /\ \A r \in Procs : r # q => req'[r] = req[r]
    BY <1>2, <1>3, RequestStep DEF ProfilesInv, Critical
<1>5. LocksHeld'
    BY <1>1, <1>2, <1>4 DEF ProfilesInv, LocksHeld, Critical
<1>6. history[p] \in [base : Override, rows : Seq(AuditRow)]
    BY DEF ProfilesInv, FilesTyped
<1>7. history' = [history EXCEPT ![p] = [base |-> o, rows |-> history[p].rows]]
  <2>1. [history[p] EXCEPT !.base = o] = [base |-> o, rows |-> history[p].rows]
      BY <1>6
  <2>2. history' = [history EXCEPT ![p] = [history[p] EXCEPT !.base = o]]
      BY <1>1 DEF ProfilesInv, FilesTyped
  <2> QED
      BY <2>1, <2>2
<1>8. FilesTyped'
  <2>1. PICK h \in [base : Override, rows : Seq(AuditRow)] :
            history' = [history EXCEPT ![p] = h]
      BY <1>6, <1>7
  <2>2. files' \in [Names -> SUBSET Files]
      BY <1>1 DEF Makes, Files, ProfilesInv, FilesTyped
  <2>3. UNCHANGED <<dir, inode, writes, creates>> /\ overrides' = [overrides EXCEPT ![p] = o]
      BY <1>1
  <2> QED
      BY <2>1, <2>2, <2>3 DEF ProfilesInv, FilesTyped
<1>9. \A r \in Procs, n \in Names : In(r, n)' <=> In(r, n)
    BY <1>1, <1>2, <1>4 DEF In, Critical
<1>10. ASSUME NEW n \in Names, n # p
       PROVE  Explained(n)'
  <2>1. Apart(n)
      BY <1>1, <1>2, <1>4, <1>7, <1>9, <1>10
      DEF Apart, In, Critical, Writing, ProfilesInv, FilesTyped
  <2> QED
      BY <2>1, ApartKeeps DEF ProfilesInv
<1>11. ASSUME p \notin blurred'
       PROVE  Explained(p)'
  <2>1. history[p].rows = <<>> /\ \A r \in Procs : ~In(r, p)'
      BY <1>1, <1>9, <1>11 DEF In, Critical, InCritical
  <2>2. history'[p].rows = <<>> /\ history'[p].base = o /\ overrides'[p] = o
      BY <1>1, <1>7, <2>1 DEF ProfilesInv, FilesTyped
  <2>3. RowsAgree(p)'
      BY <2>2 DEF RowsAgree
  <2>4. FileAgrees(p)'
      BY <2>2 DEF FileAgrees, LastRow, Tells
  <2>5. WriterAgrees(p)' /\ ReaderAgrees(p)'
      BY <2>1 DEF WriterAgrees, ReaderAgrees
  <2> QED
      BY <2>3, <2>4, <2>5 DEF Explained
<1> QED
    BY <1>4, <1>5, <1>8, <1>10, <1>11 DEF ProfilesInv, Explained

(***************************************************************************)
(* Files that are emptied or removed: a log that had no row stays as it    *)
(* is, and else the profile is blurred.                                    *)
(***************************************************************************)
LEMMA EmptiedKeeps ==
    ASSUME ProfilesInv, NEW q \in Procs, NEW p \in Names, NEW x \in Request,
           req[q].pc \notin Critical, req' = [req EXCEPT ![q] = x],
           x.pc \in {"idle", "delete"}, x.name \in Names \/ x.pc = "idle",
           x.inode \in {0, req[q].inode},
           files' \in [Names -> SUBSET Files], inode' \in [Names -> Nat],
           overrides' \in [Names -> Override], inode'[p] \in {0, inode[p]},
           history' = [history EXCEPT ![p].rows = <<>>] \/ history' = history,
           \A n \in Names : n # p => inode'[n] = inode[n] /\ overrides'[n] = overrides[n],
           \/ p \in blurred'
           \/ /\ history[p].rows = <<>> /\ inode'[p] = inode[p]
              /\ overrides'[p] = overrides[p],
           blurred \subseteq blurred', UNCHANGED <<dir, lock, writes, creates>>
    PROVE  ProfilesInv'
<1>1. RequestsTyped' /\ req'[q] = x /\ \A r \in Procs : r # q => req'[r] = req[r]
    BY RequestStep DEF ProfilesInv, Critical
<1>2. x.pc \notin Critical
    BY DEF Critical
<1>3. LocksHeld'
  <2>1. \A n \in Names : inode'[n] <= writes'
    <3>1. ASSUME NEW n \in Names
          PROVE  inode'[n] \in {0, inode[n]}
        OBVIOUS
    <3>2. writes \in Nat /\ writes' = writes /\ \A n \in Names : inode[n] <= writes
        BY DEF ProfilesInv, FilesTyped, LocksHeld
    <3> QED
        BY <3>1, <3>2
  <2>2. \A r \in Procs : req'[r].inode <= writes'
      BY <1>1 DEF ProfilesInv, FilesTyped, LocksHeld
  <2> QED
      BY <1>1, <1>2, <2>1, <2>2 DEF ProfilesInv, LocksHeld
<1>4. history[p] \in [base : Override, rows : Seq(AuditRow)]
    BY DEF ProfilesInv, FilesTyped
<1>5. \/ history' = [history EXCEPT ![p] = [base |-> history[p].base, rows |-> <<>>]]
      \/ history' = history
    BY <1>4 DEF ProfilesInv, FilesTyped
<1>6. FilesTyped'
  <2>1. [base |-> history[p].base, rows |-> <<>>] \in [base : Override, rows : Seq(AuditRow)]
      BY <1>4
  <2> QED
      BY <1>5, <2>1 DEF ProfilesInv, FilesTyped
<1>7. \A n \in Names : n # p => history'[n] = history[n]
    BY <1>5 DEF ProfilesInv, FilesTyped
<1>8. history[p].rows = <<>> => history'[p] = history[p]
    BY <1>4, <1>5 DEF ProfilesInv, FilesTyped
<1>9. ASSUME NEW n \in Names
      PROVE  Explained(n)'
  <2>1. CASE n = p /\ p \in blurred'
      BY <2>1 DEF Explained
  <2>2. CASE n # p \/ p \notin blurred'
    <3>1. history'[n] = history[n] /\ inode'[n] = inode[n] /\ overrides'[n] = overrides[n]
        BY <1>7, <1>8, <2>2
    <3>2. Apart(n)
        BY <1>1, <1>2, <3>1 DEF Apart, In, Writing, Critical
    <3> QED
        BY <3>2, ApartKeeps DEF ProfilesInv
  <2> QED
      BY <2>1, <2>2
<1> QED
    BY <1>1, <1>3, <1>6, <1>9 DEF ProfilesInv

LEMMA SeedKeeps ==
    ASSUME ProfilesInv, NEW q \in Procs, Seed(q)
    PROVE  ProfilesInv'
<1> SUFFICES ASSUME NEW p \in Names, p = req[q].name
             PROVE  ProfilesInv'
    BY DEF Seed, ProfilesInv, RequestsTyped
<1>1. /\ req[q].pc = "seed" /\ req' = [req EXCEPT ![q] = Idle]
      /\ history' = [history EXCEPT ![p].rows = <<>>]
      /\ p \in blurred' \/ history[p].rows = <<>>
      /\ blurred \subseteq blurred'
      /\ UNCHANGED <<dir, inode, overrides, lock, writes, creates>>
    BY DEF Seed, Answered
<1>2. files' \in [Names -> SUBSET Files]
    BY DEF Seed, Makes, Files, ProfilesInv, FilesTyped
<1>3. inode \in [Names -> Nat] /\ overrides \in [Names -> Override]
    BY DEF ProfilesInv, FilesTyped
<1>4. req[q].pc \notin Critical
    BY <1>1 DEF Critical
<1> QED
    BY <1>1, <1>2, <1>3, <1>4, IdleIsARequest, EmptiedKeeps

LEMMA UnlinkKeeps ==
    ASSUME ProfilesInv, NEW q \in Procs, NEW f, Unlink(q, f)
    PROVE  ProfilesInv'
<1> SUFFICES ASSUME NEW p \in Names, p = req[q].name
             PROVE  ProfilesInv'
    BY DEF Unlink, ProfilesInv, RequestsTyped
<1> DEFINE x == [req[q] EXCEPT !.left = @ \ {f}]
<1>1. req[q] \in Request /\ req[q].pc = "delete"
    BY DEF Unlink, ProfilesInv, RequestsTyped
<1>2. x \in Request /\ x.pc = "delete" /\ x.name = p /\ x.inode = req[q].inode
    BY <1>1 DEF Request
<1>3. req' = [req EXCEPT ![q] = x]
    BY DEF Unlink
<1> HIDE DEF x
<1>4. Empty \in Override
    BY DEF Empty, Override
<1>5. /\ files' \in [Names -> SUBSET Files] /\ inode' \in [Names -> Nat]
      /\ overrides' \in [Names -> Override] /\ inode'[p] \in {0, inode[p]}
      /\ \A n \in Names : n # p => inode'[n] = inode[n] /\ overrides'[n] = overrides[n]
    BY <1>4 DEF Unlink, ProfilesInv, FilesTyped
<1>6. history' = [history EXCEPT ![p].rows = <<>>] \/ history' = history
  <2>1. CASE f = "history"
      BY <2>1 DEF Unlink
  <2>2. CASE f # "history"
    <3>1. history[p] \in [base : Override, rows : Seq(AuditRow)]
        BY DEF ProfilesInv, FilesTyped
    <3>2. history' = [history EXCEPT ![p].rows = history[p].rows]
        BY <2>2 DEF Unlink
    <3> QED
        BY <3>1, <3>2 DEF ProfilesInv, FilesTyped
  <2> QED
      BY <2>1, <2>2
<1>7. p \in blurred' /\ blurred \subseteq blurred' /\ UNCHANGED <<dir, lock, writes, creates>>
    BY DEF Unlink
<1>8. req[q].pc \notin Critical
    BY <1>1 DEF Critical
<1> QED
    BY <1>2, <1>3, <1>5, <1>6, <1>7, <1>8, EmptiedKeeps

(***************************************************************************)
(* The first start.                                                        *)
(***************************************************************************)
LEMMA ProfilesInitially == ProfilesInit => ProfilesInv
<1> SUFFICES ASSUME ProfilesInit PROVE ProfilesInv
    OBVIOUS
<1>1. Empty \in Override /\ [base |-> Empty, rows |-> <<>>] \in [base : Override, rows : Seq(AuditRow)]
    BY DEF Empty, Override
<1>2. FilesTyped
    BY <1>1 DEF ProfilesInit, FilesTyped, Files
<1>3. (\A q \in Procs : req[q] = Idle) /\ writes = 0 /\ \A p \in Names : inode[p] = 0
    BY DEF ProfilesInit
<1>4. RequestsTyped
    BY IdleIsARequest, <1>3 DEF ProfilesInit, RequestsTyped, Critical
<1>5. LocksHeld
    BY IdleIsARequest, <1>3 DEF ProfilesInit, LocksHeld, Critical
<1>6. ASSUME NEW p \in Names
      PROVE  Explained(p)
  <2>1. history[p].rows = <<>> /\ history[p].base = Empty /\ overrides[p] = Empty
      BY DEF ProfilesInit
  <2>2. \A q \in Procs : ~In(q, p)
      BY <1>3, IdleIsARequest DEF In, Critical
  <2>3. RowsAgree(p)
      BY <2>1 DEF RowsAgree
  <2>4. FileAgrees(p)
      BY <2>1 DEF FileAgrees, LastRow, Tells
  <2>5. WriterAgrees(p) /\ ReaderAgrees(p)
      BY <2>2 DEF WriterAgrees, ReaderAgrees
  <2> QED
      BY <2>3, <2>4, <2>5 DEF Explained
<1> QED
    BY <1>2, <1>4, <1>5, <1>6 DEF ProfilesInv

(***************************************************************************)
(* Whatever any number of processes write, fork, delete and create again,  *)
(* file by file, and wherever they die, the log of a profile explains its  *)
(* overrides, but for the profiles that blurred names: where a writer died *)
(* half way, a delete has begun to remove files, create's copy or its      *)
(* empty log replaced what a writer had put there, or a lock file or a     *)
(* directory was removed under the request that had opened it.             *)
(***************************************************************************)
THEOREM AuditExplains == ProfilesSpec => []AuditTellsOverrides
<1>1. ASSUME ProfilesInv, [ProfilesNext]_profileVars
      PROVE  ProfilesInv'
  <2>1. CASE UNCHANGED profileVars
    <3>1. UNCHANGED <<dir, files, inode, overrides, history, req, lock, writes, creates,
                      blurred>>
        BY <2>1 DEF profileVars, diskVars
    <3>2. \A p \in Names : Apart(p)
        BY <3>1 DEF Apart, In
    <3> QED
        BY <1>1, <3>1, <3>2, ApartKeeps
        DEF ProfilesInv, FilesTyped, RequestsTyped, LocksHeld
  <2>2. ASSUME NEW q \in Procs,
               \/ Apply(q) \/ ReadSource(q) \/ ForkFails(q)
               \/ RemoveDir(q) \/ (\E f \in Files \cup {"lock"} : UnlinkFails(q, f))
               \/ (\E p \in Names : Scan(q, p) \/ Compare(q, p)) \/ SetActive(q)
        PROVE  ProfilesInv'
      BY <1>1, <2>2, OutsideKeeps
  <2>3. ASSUME NEW q \in Procs, Fail(q) \/ Crash(q)
        PROVE  ProfilesInv'
      BY <1>1, <2>3, BreakOffKeeps
  <2>4. ASSUME NEW q \in Procs, \E p, from \in Names : MakeDir(q, p, from)
        PROVE  ProfilesInv'
      BY <1>1, <2>4, MakeDirKeeps
  <2> QED
      BY <1>1, <2>1, <2>2, <2>3, <2>4, OpenKeeps, AcquireKeeps, ReadKeeps, TruncateKeeps,
         WriteKeeps, AppendKeeps, CopyKeeps, SeedKeeps, UnlinkKeeps DEF ProfilesNext
<1>2. ASSUME ProfilesInv
      PROVE  AuditTellsOverrides
  <2>1. ASSUME NEW p \in Names, Exists(p), p \notin blurred
        PROVE  /\ RowsAgree(p)
               /\ (\A q \in InCritical(p) : req[q].pc \in {"read", "truncate"}) =>
                    \A k \in Keys : Tells(history[p], LastRow(p), k, overrides[p][k])
    <3>1. RowsAgree(p) /\ FileAgrees(p)
        BY <1>2, <2>1 DEF ProfilesInv, Explained
    <3>2. \A q \in Procs : In(q, p) <=> q \in InCritical(p)
        BY DEF In, InCritical, Critical
    <3> QED
        BY <3>1, <3>2 DEF FileAgrees, Writing
  <2> QED
      BY <2>1 DEF AuditTellsOverrides, RowsAgree, LastRow
<1> QED
    BY <1>1, <1>2, ProfilesInitially, PTL DEF ProfilesSpec
-----------------------------------------------------------------------------
(* Broadcast *)

Registered == {c \in Clients : conn[c] # "new"}

\* What a fan-out task still has to do, and whom it may drop.
FanFits(f) ==
    /\ f = [pc |-> f.pc, todo |-> f.todo]
    /\ f.pc \in {"none", "scheduled", "dropping", "closing"}
    /\ f.todo \in Seq(Registered)
    /\ f.pc = "closing" \/ f.pc = "dropping" => f.todo # <<>>

\* Only registered clients are sent to or dropped,
KnownInv ==
    /\ conn \in [Clients -> {"new", "open", "gone"}]
    /\ clients \in Seq(Registered) /\ cancelled \subseteq Registered
    /\ tasks \in Seq(Event) /\ alerts \in 0..MaxEvents
    /\ fan = [e \in Event |-> fan[e]]
    /\ \A e \in Event : FanFits(fan[e])

\* a client that has not come has no drain task, and one whose socket was
\* closed has a drain task that has ended.
DrainsInv ==
    /\ drain \in [Clients -> {"none", "get", "send", "close", "done"}]
    /\ DOMAIN sending = Clients /\ DOMAIN sent = Clients
    /\ \A c \in Clients : conn[c] = "new" => drain[c] = "none"
    /\ \A c \in Clients : c \in wsClosed => drain[c] = "done"

BusInv == KnownInv /\ DrainsInv

(***************************************************************************)
(* Every set of numbers that is not empty has a least one.                 *)
(***************************************************************************)
LEMMA LeastOfSome ==
    ASSUME NEW S, S \subseteq Nat, S # {}
    PROVE  Min(S) \in S /\ \A n \in S : Min(S) <= n
<1> DEFINE R == {p \in Nat \X Nat : p[1] < p[2]}
<1>0. IsWellFoundedOn(R, Nat)
    BY NatLessThanWellFounded DEF OpToRel
<1> HIDE DEF R
<1>1. PICK n \in S : \A m \in S : <<m, n>> \notin R
    BY <1>0, WFMin
<1>2. ASSUME NEW m \in S
      PROVE  n =< m
  <2>1. m \in Nat /\ n \in Nat
      OBVIOUS
  <2>2. m < n => <<m, n>> \in R
      BY <2>1 DEF R
  <2> QED
      BY <1>1, <2>1, <2>2
<1> QED
    BY <1>2 DEF Min

(***************************************************************************)
(* A sequence without one of its elements: those after it move up.         *)
(***************************************************************************)
LEMMA RemovedOne ==
    ASSUME NEW S, NEW s \in Seq(S), NEW e, \E i \in 1..Len(s) : s[i] = e
    PROVE  \E k \in 1..Len(s) :
             /\ RemoveFirst(s, e) \in Seq(S) /\ Len(RemoveFirst(s, e)) = Len(s) - 1
             /\ \A i \in 1..Len(RemoveFirst(s, e)) :
                    RemoveFirst(s, e)[i] = IF i < k THEN s[i] ELSE s[i + 1]
<1> DEFINE I == {i \in 1..Len(s) : s[i] = e}
           k == Min(I)
           r == RemoveFirst(s, e)
<1>1. I # {} /\ I \subseteq Nat
    OBVIOUS
<1> HIDE DEF I
<1>2. k \in I
    BY <1>1, LeastOfSome
<1>3. k \in 1..Len(s)
    BY <1>2 DEF I
<1>4. SelectInSeq(s, LAMBDA v : v = e) = k
    BY <1>1 DEF SelectInSeq, I
<1>5. r = SubSeq(s, 1, k - 1) \o SubSeq(s, k + 1, Len(s))
    BY <1>4 DEF RemoveFirst, RemoveAt
<1> HIDE DEF k, r
<1>6. /\ r \in Seq(S) /\ Len(r) = Len(s) - 1
      /\ \A i \in 1..Len(r) : r[i] = IF i < k THEN s[i] ELSE s[i + 1]
  <2>1. /\ SubSeq(s, 1, k - 1) \in Seq(S) /\ Len(SubSeq(s, 1, k - 1)) = k - 1
        /\ \A i \in 1..(k - 1) : SubSeq(s, 1, k - 1)[i] = s[i]
      BY <1>3
  <2>2. /\ SubSeq(s, k + 1, Len(s)) \in Seq(S)
        /\ Len(SubSeq(s, k + 1, Len(s))) = Len(s) - k
        /\ \A i \in 1..(Len(s) - k) : SubSeq(s, k + 1, Len(s))[i] = s[i + k]
      BY <1>3
  <2>3. PICK a : a = SubSeq(s, 1, k - 1)
      OBVIOUS
  <2>4. PICK b : b = SubSeq(s, k + 1, Len(s))
      OBVIOUS
  <2>5. /\ a \in Seq(S) /\ Len(a) = k - 1 /\ b \in Seq(S) /\ Len(b) = Len(s) - k
        /\ \A i \in 1..(k - 1) : a[i] = s[i]
        /\ \A i \in 1..(Len(s) - k) : b[i] = s[i + k]
        /\ r = a \o b /\ k \in Nat /\ Len(s) \in Nat
      BY <1>3, <1>5, <2>1, <2>2, <2>3, <2>4
  <2>6. r \in Seq(S) /\ Len(r) = Len(s) - 1
    <3>1. r \in Seq(S)
        BY <2>5
    <3>2. Len(r) = Len(a) + Len(b)
      <4>1. a \in Seq(S) /\ b \in Seq(S) /\ r = a \o b
          BY <2>5
      <4> QED
          BY <4>1
    <3>3. (k - 1) + (Len(s) - k) = Len(s) - 1
        BY <2>5
    <3> QED
        BY <2>5, <3>1, <3>2, <3>3
  <2>7. /\ \A i \in 1..Len(a) : r[i] = a[i]
        /\ \A i \in (Len(a) + 1)..(Len(a) + Len(b)) : r[i] = b[i - Len(a)]
      BY <2>5
  <2>8. ASSUME NEW i \in 1..Len(r)
        PROVE  r[i] = IF i < k THEN s[i] ELSE s[i + 1]
    <3>1. CASE i < k
        BY <1>3, <2>5, <2>6, <2>7, <3>1
    <3>2. CASE ~(i < k)
      <4>1. i \in (Len(a) + 1)..(Len(a) + Len(b)) /\ i - (k - 1) \in 1..(Len(s) - k)
          BY <1>3, <2>5, <2>6, <3>2
      <4>2. r[i] = b[i - (k - 1)] /\ b[i - (k - 1)] = s[(i - (k - 1)) + k]
          BY <2>5, <2>7, <4>1
      <4>3. (i - (k - 1)) + k = i + 1
          BY <2>5
      <4> QED
          BY <3>2, <4>2, <4>3
    <3> QED
        BY <3>1, <3>2
  <2> QED
      BY <2>6, <2>8
<1> QED
    BY <1>3, <1>6 DEF r

LEMMA RemovedStaysTyped ==
    ASSUME NEW S, NEW s \in Seq(S), NEW e
    PROVE  RemoveFirst(s, e) \in Seq(S)
<1>1. CASE \E i \in 1..Len(s) : s[i] = e
    BY <1>1, RemovedOne
<1>2. CASE ~(\E i \in 1..Len(s) : s[i] = e)
    BY <1>2 DEF RemoveFirst
<1> QED
    BY <1>1, <1>2

(***************************************************************************)
(* A turn of a fan-out task puts and drops among the clients it was given. *)
(***************************************************************************)
LEMMA DeliverKeeps ==
    ASSUME KnownInv, NEW e \in Event, NEW todo \in Seq(Registered), Deliver(e, todo)
    PROVE  /\ clients' \in Seq(Registered) /\ cancelled' \subseteq Registered
           /\ fan' = [d \in Event |-> fan'[d]] /\ FanFits(fan'[e])
           /\ \A d \in Event : d # e => fan'[d] = fan[d]
<1> DEFINE blocked == {i \in DOMAIN todo : Wants(todo[i], e) /\ Full(todo[i])}
           stop == IF blocked = {} THEN Len(todo) + 1 ELSE Min(blocked)
           rest == SubSeq(todo, stop, Len(todo))
<1>1. CASE blocked = {}
  <2>1. fan' = [fan EXCEPT ![e] = NoFan] /\ UNCHANGED <<clients, cancelled>>
      BY <1>1 DEF Deliver
  <2>2. FanFits(NoFan)
      BY DEF FanFits, NoFan
  <2> QED
      BY <2>1, <2>2 DEF KnownInv
<1>2. CASE blocked # {}
  <2>1. /\ fan' = [fan EXCEPT ![e] = [pc |-> "dropping", todo |-> rest]]
        /\ clients' = RemoveFirst(clients, todo[stop])
        /\ cancelled' = cancelled \cup {todo[stop]}
      BY <1>2 DEF Deliver
  <2>2. blocked \subseteq 1..Len(todo) /\ Len(todo) \in Nat /\ blocked \subseteq Nat
      OBVIOUS
  <2>3. stop = Min(blocked)
      BY <1>2
  <2> HIDE DEF stop, blocked
  <2>3a. stop \in blocked
      BY <1>2, <2>2, <2>3, LeastOfSome
  <2>4. stop \in 1..Len(todo)
      BY <2>2, <2>3a
  <2>5. todo[stop] \in Registered
      BY <2>4
  <2>6. rest \in Seq(Registered) /\ rest # <<>>
    <3>1. rest \in Seq(Registered) /\ Len(rest) = Len(todo) - stop + 1
        BY <2>2, <2>4
    <3> HIDE DEF rest
    <3> QED
        BY <2>2, <2>4, <3>1
  <2> HIDE DEF rest
  <2>7. FanFits([pc |-> "dropping", todo |-> rest])
      BY <2>6 DEF FanFits
  <2>8. clients' \in Seq(Registered)
      BY <2>1, RemovedStaysTyped DEF KnownInv
  <2>9. cancelled' \subseteq Registered
      BY <2>1, <2>5 DEF KnownInv
  <2> QED
      BY <2>1, <2>7, <2>8, <2>9 DEF KnownInv
<1> QED
    BY <1>1, <1>2

(***************************************************************************)
(* The steps of the bus.                                                   *)
(***************************************************************************)
LEMMA FanOutKeeps ==
    ASSUME BusInv, Alert \/ Start \/ \E e \in Event : CloseVictim(e) \/ Resume(e)
    PROVE  BusInv' /\ UNCHANGED <<sending, sent>>
<1>1. UNCHANGED <<conn, drain, sending, sent>> /\ Registered' = Registered
    BY DEF Alert, Start, CloseVictim, Resume, clientVars, Registered
<1>2. CASE Alert
  <2>1. alerts' \in Event
      BY <1>2, BroadcastAssumption DEF Alert, BusInv, KnownInv, Event
  <2>2. tasks' \in Seq(Event) /\ alerts' \in 0..MaxEvents
      BY <1>2, <2>1 DEF Alert, BusInv, KnownInv, Event
  <2>3. PICK a \in Event : fan' = [fan EXCEPT ![a].pc = "scheduled"]
      BY <1>2, <2>1 DEF Alert
  <2>4. PICK f : f = [pc |-> "scheduled", todo |-> fan[a].todo]
      OBVIOUS
  <2>4a. [fan[a] EXCEPT !.pc = "scheduled"] = f /\ FanFits(f)
      BY <2>4 DEF BusInv, KnownInv, FanFits
  <2>5. fan' = [fan EXCEPT ![a] = f]
      BY <2>3, <2>4a
  <2>5a. fan' = [d \in Event |-> fan'[d]] /\ \A d \in Event : FanFits(fan'[d])
      BY <2>4a, <2>5 DEF BusInv, KnownInv
  <2>5b. \A d \in Event : FanFits(fan[d])'
      BY <1>1, <2>5a DEF FanFits
  <2>6. KnownInv'
      BY <1>1, <1>2, <2>2, <2>5a, <2>5b DEF Alert, BusInv, KnownInv
  <2>7. DrainsInv'
      BY <1>1, <1>2 DEF Alert, BusInv, DrainsInv
  <2> QED
      BY <1>1, <2>6, <2>7 DEF BusInv
<1>3. CASE Start
  <2>1. tasks # <<>> /\ Head(tasks) \in Event /\ Tail(tasks) \in Seq(Event)
      BY <1>3 DEF Start, BusInv, KnownInv
  <2>2. /\ Deliver(Head(tasks), clients)
        /\ tasks' = Tail(tasks) /\ UNCHANGED <<alerts, wsClosed>>
      BY <1>3 DEF Start
  <2>3. /\ clients' \in Seq(Registered) /\ cancelled' \subseteq Registered
        /\ fan' = [d \in Event |-> fan'[d]] /\ FanFits(fan'[Head(tasks)])
        /\ \A d \in Event : d # Head(tasks) => fan'[d] = fan[d]
      BY <2>1, <2>2, DeliverKeeps DEF BusInv, KnownInv
  <2>4. KnownInv'
    <3>1. \A d \in Event : FanFits(fan'[d])
        BY <2>3 DEF BusInv, KnownInv
    <3>2. \A d \in Event : FanFits(fan[d])'
        BY <1>1, <3>1 DEF FanFits
    <3> QED
        BY <1>1, <2>1, <2>2, <2>3, <3>2 DEF BusInv, KnownInv
  <2>5. DrainsInv'
      BY <1>1, <2>2 DEF BusInv, DrainsInv
  <2> QED
      BY <1>1, <2>4, <2>5 DEF BusInv
<1>4. ASSUME NEW e \in Event, CloseVictim(e)
      PROVE  BusInv'
  <2>1. /\ fan[e].pc = "dropping" /\ drain[Head(fan[e].todo)] = "done"
        /\ wsClosed' = wsClosed \cup {Head(fan[e].todo)}
        /\ fan' = [fan EXCEPT ![e].pc = "closing"]
        /\ UNCHANGED <<alerts, tasks, clients, cancelled>>
      BY <1>4 DEF CloseVictim
  <2>2. PICK f : f = [pc |-> "closing", todo |-> fan[e].todo]
      OBVIOUS
  <2>2a. [fan[e] EXCEPT !.pc = "closing"] = f /\ FanFits(f)
      BY <2>1, <2>2 DEF BusInv, KnownInv, FanFits
  <2>3. fan' = [fan EXCEPT ![e] = f]
      BY <2>1, <2>2a
  <2>3a. fan' = [d \in Event |-> fan'[d]] /\ \A d \in Event : FanFits(fan'[d])
      BY <2>2a, <2>3 DEF BusInv, KnownInv
  <2>3b. \A d \in Event : FanFits(fan[d])'
      BY <1>1, <2>3a DEF FanFits
  <2>4. KnownInv'
      BY <1>1, <2>1, <2>3a, <2>3b DEF BusInv, KnownInv
  <2>5. DrainsInv'
      BY <1>1, <2>1 DEF BusInv, DrainsInv
  <2> QED
      BY <2>4, <2>5 DEF BusInv
<1>5. ASSUME NEW e \in Event, Resume(e)
      PROVE  BusInv'
  <2>1. /\ fan[e].pc = "closing" /\ Deliver(e, Tail(fan[e].todo))
        /\ UNCHANGED <<alerts, tasks, wsClosed>>
      BY <1>5 DEF Resume
  <2>1a. fan[e].todo \in Seq(Registered) /\ fan[e].todo # <<>>
      BY <2>1 DEF BusInv, KnownInv, FanFits
  <2>2. Tail(fan[e].todo) \in Seq(Registered)
      BY <2>1a
  <2>3. /\ clients' \in Seq(Registered) /\ cancelled' \subseteq Registered
        /\ fan' = [d \in Event |-> fan'[d]] /\ FanFits(fan'[e])
        /\ \A d \in Event : d # e => fan'[d] = fan[d]
      BY <2>1, <2>2, DeliverKeeps DEF BusInv
  <2>4. KnownInv'
    <3>1. \A d \in Event : FanFits(fan'[d])
        BY <2>3 DEF BusInv, KnownInv
    <3>2. \A d \in Event : FanFits(fan[d])'
        BY <1>1, <3>1 DEF FanFits
    <3> QED
        BY <1>1, <2>1, <2>3, <3>2 DEF BusInv, KnownInv
  <2>5. DrainsInv'
      BY <1>1, <2>1 DEF BusInv, DrainsInv
  <2> QED
      BY <2>4, <2>5 DEF BusInv
<1> QED
    BY <1>1, <1>2, <1>3, <1>4, <1>5

(***************************************************************************)
(* The steps of a client's route: it only ever goes on.                    *)
(***************************************************************************)
LEMMA RouteKeeps ==
    ASSUME BusInv, NEW c \in Clients,
           \/ Register(c) \/ Disconnect(c)
           \/ \E channels \in Filters : Subscribe(c, channels)
    PROVE  BusInv' /\ UNCHANGED <<sending, sent>>
<1>1. Registered \subseteq Registered'
      /\ conn' \in [Clients -> {"new", "open", "gone"}]
      /\ UNCHANGED <<sending, sent, alerts, tasks, fan, wsClosed>>
    BY DEF Register, Disconnect, Subscribe, Registered, BusInv, KnownInv, clientVars
<1>2. \A t \in Seq(Registered) : t \in Seq(Registered')
    BY <1>1
<1>3. clients' \in Seq(Registered') /\ cancelled' \subseteq Registered'
  <2>1. CASE Register(c)
    <3>1. c \in Registered'
        BY <2>1 DEF Register, Registered, BusInv, KnownInv
    <3>2. clients' = Append(clients, c) /\ cancelled' = cancelled
        BY <2>1 DEF Register
    <3> QED
        BY <1>1, <1>2, <3>1, <3>2 DEF BusInv, KnownInv
  <2>2. CASE Disconnect(c)
    <3>1. clients' \in Seq(Registered)
        BY <2>2, RemovedStaysTyped DEF Disconnect, BusInv, KnownInv
    <3>2. c \in Registered /\ cancelled' \subseteq cancelled \cup {c}
        BY <2>2 DEF Disconnect, Registered
    <3> QED
        BY <1>1, <1>2, <3>1, <3>2 DEF BusInv, KnownInv
  <2>3. CASE \E channels \in Filters : Subscribe(c, channels)
      BY <1>1, <1>2, <2>3 DEF Subscribe, BusInv, KnownInv
  <2> QED
      BY <2>1, <2>2, <2>3
<1>3a. \A e \in Event : FanFits(fan[e])'
    BY <1>1, <1>2 DEF BusInv, KnownInv, FanFits
<1>4. KnownInv'
    BY <1>1, <1>2, <1>3, <1>3a DEF BusInv, KnownInv
<1>5. DrainsInv'
  <2>1. CASE Register(c)
      BY <1>1, <2>1 DEF Register, BusInv, DrainsInv, KnownInv
  <2>2. CASE Disconnect(c)
      BY <1>1, <2>2 DEF Disconnect, BusInv, DrainsInv, KnownInv
  <2>3. CASE \E channels \in Filters : Subscribe(c, channels)
      BY <1>1, <2>3 DEF Subscribe, BusInv, DrainsInv
  <2> QED
      BY <2>1, <2>2, <2>3
<1> QED
    BY <1>1, <1>4, <1>5 DEF BusInv

(***************************************************************************)
(* The steps of a drain task, which ends before its socket is closed.      *)
(***************************************************************************)
LEMMA DrainKeeps ==
    ASSUME BusInv, NEW c \in Clients,
           \/ DrainTakes(c) \/ SendReturns(c) \/ SendFails(c) \/ DrainClosed(c)
           \/ DrainCancelled(c)
    PROVE  /\ BusInv'
           /\ \A d \in Clients : d \in wsClosed =>
                sending'[d] = sending[d] /\ sent'[d] = sent[d]
<1>1. KnownInv'
  <2>1. UNCHANGED <<conn, clients, cancelled, tasks, alerts, fan>>
      BY DEF DrainTakes, SendReturns, SendFails, DrainClosed, DrainCancelled
  <2> QED
      BY <2>1 DEF BusInv, KnownInv, FanFits, Registered
<1>2. conn[c] # "new" /\ drain[c] # "done"
  <2>1. drain[c] \in {"get", "send", "close"} \/ (c \in cancelled /\ drain[c] # "done")
      BY DEF DrainTakes, SendReturns, SendFails, DrainClosed, DrainCancelled
  <2> QED
      BY <2>1 DEF BusInv, KnownInv, DrainsInv, Registered
<1>3. c \notin wsClosed
    BY <1>2 DEF BusInv, DrainsInv
<1>4. CASE DrainTakes(c)
    BY <1>1, <1>2, <1>3, <1>4 DEF DrainTakes, BusInv, DrainsInv
<1>5. CASE SendReturns(c)
    BY <1>1, <1>2, <1>3, <1>5 DEF SendReturns, BusInv, DrainsInv
<1>6. CASE SendFails(c)
    BY <1>1, <1>2, <1>3, <1>6 DEF SendFails, BusInv, DrainsInv
<1>7. CASE DrainClosed(c)
    BY <1>1, <1>2, <1>3, <1>7 DEF DrainClosed, BusInv, DrainsInv
<1>8. CASE DrainCancelled(c)
    BY <1>1, <1>2, <1>3, <1>8 DEF DrainCancelled, BusInv, DrainsInv
<1> QED
    BY <1>4, <1>5, <1>6, <1>7, <1>8

(***************************************************************************)
(* BusInv is there at the start and with every step of the bus.            *)
(***************************************************************************)
LEMMA BusInitially ==
    ASSUME BusInit
    PROVE  BusInv
<1>1. KnownInv
  <2>1. NoFan = [pc |-> "none", todo |-> <<>>] /\ <<>> \in Seq(Registered)
      BY DEF NoFan
  <2>2. FanFits(NoFan)
      BY <2>1 DEF FanFits
  <2>3. fan = [e \in Event |-> NoFan] /\ <<>> \in Seq(Event) /\ 0 \in 0..MaxEvents
      BY BroadcastAssumption DEF BusInit
  <2> QED
      BY <2>1, <2>2, <2>3 DEF BusInit, Of, KnownInv
<1>2. DrainsInv
    BY DEF BusInit, Of, DrainsInv
<1> QED
    BY <1>1, <1>2 DEF BusInv

LEMMA BusKept ==
    ASSUME BusInv, [BusNext]_busVars
    PROVE  /\ BusInv'
           /\ \A c \in Clients : c \in wsClosed =>
                sending'[c] = sending[c] /\ sent'[c] = sent[c]
<1>1. CASE UNCHANGED busVars
  <2>1. /\ UNCHANGED <<conn, clients, cancelled, tasks, alerts, fan>>
        /\ UNCHANGED <<drain, sending, sent, wsClosed>>
      BY <1>1 DEF busVars
  <2>2. KnownInv'
      BY <2>1 DEF BusInv, KnownInv, FanFits, Registered
  <2>3. DrainsInv'
      BY <2>1 DEF BusInv, DrainsInv
  <2> QED
      BY <2>1, <2>2, <2>3 DEF BusInv
<1>2. CASE Alert \/ Start \/ \E e \in Event : CloseVictim(e) \/ Resume(e)
    BY <1>2, FanOutKeeps
<1>3. ASSUME NEW c \in Clients,
             \/ Register(c) \/ Disconnect(c)
             \/ \E channels \in Filters : Subscribe(c, channels)
      PROVE  /\ BusInv'
             /\ \A d \in Clients : d \in wsClosed =>
                    sending'[d] = sending[d] /\ sent'[d] = sent[d]
    BY <1>3, RouteKeeps
<1>4. ASSUME NEW c \in Clients,
             \/ DrainTakes(c) \/ SendReturns(c) \/ SendFails(c) \/ DrainClosed(c)
             \/ DrainCancelled(c)
      PROVE  /\ BusInv'
             /\ \A d \in Clients : d \in wsClosed =>
                    sending'[d] = sending[d] /\ sent'[d] = sent[d]
    BY <1>4, DrainKeeps
<1> QED
    BY <1>1, <1>2, <1>3, <1>4 DEF BusNext

(***************************************************************************)
(* Nothing is sent on a socket that the broadcaster has closed, for any    *)
(* number of clients and events.                                           *)
(***************************************************************************)
THEOREM ClosedIsLeftAlone == BusSpec => NothingAfterClose
<1> DEFINE LeftAlone == \A c \in Clients : c \in wsClosed =>
                            sending'[c] = sending[c] /\ sent'[c] = sent[c]
<1>1. BusInit => BusInv
    BY BusInitially
<1>2. BusInv /\ [BusNext]_busVars => BusInv' /\ [LeftAlone]_busVars
    BY BusKept
<1> QED
    BY <1>1, <1>2, PTL DEF BusSpec, NothingAfterClose
-----------------------------------------------------------------------------
(* The order in which the events reach a client. *)

\* With l for the late events: s was sent, m is being sent, q waits.
Before(x, y, l) == x < y \/ (y \in l /\ x # y)
Holds(s, m, q) ==
    {s[i] : i \in 1..Len(s)} \cup ({m} \ {0}) \cup {q[i] : i \in 1..Len(q)}

Line(s, m, q, l) ==
    /\ \A i, j \in 1..Len(s) : i < j => Before(s[i], s[j], l)
    /\ \A i, j \in 1..Len(q) : i < j => Before(q[i], q[j], l)
    /\ \A i \in 1..Len(s), j \in 1..Len(q) : Before(s[i], q[j], l)
    /\ m # 0 => \A i \in 1..Len(s) : Before(s[i], m, l)
    /\ m # 0 => \A j \in 1..Len(q) : Before(m, q[j], l)

Once(s) == \A i, j \in 1..Len(s) : i # j => s[i] # s[j]

Got(c) == Holds(sent[c], sending[c], queue[c])
InLine(c) == Line(sent[c], sending[c], queue[c], late)

\* Each client's events are in line, the one it is being sent in the middle,
LineInv ==
    /\ filter \in [Clients -> SUBSET Channels]
    /\ queue \in [Clients -> Seq(Event)] /\ sent \in [Clients -> Seq(Event)]
    /\ sending \in [Clients -> {0} \cup Event]
    /\ dropped \subseteq Clients /\ wsClosed \subseteq Clients
    /\ \A c \in Clients :
        /\ Len(queue[c]) <= MaxQueue
        /\ drain[c] = "send" <=> sending[c] # 0
        /\ InLine(c)

Started == alerts - Len(tasks)

Waits(f) == f.pc \in {"dropping", "closing"}

\* and the fan-out tasks start in the order of their events; one that waits
\* for a close has been late ever since, and has not come to the rest.
StartsInv ==
    /\ Len(tasks) <= alerts /\ \A i \in 1..Len(tasks) : tasks[i] = Started + i
    /\ late \subseteq Event
    /\ \A c \in Clients : \A x \in Got(c) : x <= Started
    /\ Once(clients)
    /\ \A e \in Event : Waits(fan[e]) =>
        /\ e <= Started /\ e \in late /\ Once(fan[e].todo)
        /\ \A k \in 2..Len(fan[e].todo) : e \notin Got(fan[e].todo[k])

StreamInv == BusInv /\ LineInv /\ StartsInv

(***************************************************************************)
(* A sequence that holds everything once still does without one of them.   *)
(***************************************************************************)
LEMMA RemovedStaysOnce ==
    ASSUME NEW S, NEW s \in Seq(S), NEW e, Once(s)
    PROVE  RemoveFirst(s, e) \in Seq(S) /\ Once(RemoveFirst(s, e))
<1>1. CASE \E i \in 1..Len(s) : s[i] = e
  <2> DEFINE r == RemoveFirst(s, e)
  <2>1. PICK k \in 1..Len(s) :
             /\ r \in Seq(S) /\ Len(r) = Len(s) - 1
             /\ \A i \in 1..Len(r) : r[i] = IF i < k THEN s[i] ELSE s[i + 1]
      BY <1>1, RemovedOne
  <2> HIDE DEF r
  <2>2. Once(r)
    <3> SUFFICES ASSUME NEW i \in 1..Len(r), NEW j \in 1..Len(r), i # j
                 PROVE  r[i] # r[j]
        BY DEF Once
    <3> DEFINE at(n) == IF n < k THEN n ELSE n + 1
    <3>1. /\ Len(s) \in Nat /\ at(i) \in 1..Len(s) /\ at(j) \in 1..Len(s)
          /\ at(i) # at(j)
        BY <2>1
    <3>2. r[i] = s[at(i)] /\ r[j] = s[at(j)]
        BY <2>1
    <3> HIDE DEF at
    <3> QED
        BY <3>1, <3>2 DEF Once
  <2> QED
      BY <2>1, <2>2 DEF r
<1>2. CASE ~(\E i \in 1..Len(s) : s[i] = e)
    BY <1>2 DEF RemoveFirst
<1> QED
    BY <1>1, <1>2

(***************************************************************************)
(* What is in line stays so as more events come late; an event put after   *)
(* those that a client has got is in line with them; and so are the events *)
(* as they go from the queue to the socket, or are lost on the way.        *)
(***************************************************************************)
LEMMA HoldsEvents ==
    ASSUME NEW s \in Seq(Event), NEW m \in {0} \cup Event, NEW q \in Seq(Event)
    PROVE  Holds(s, m, q) \subseteq Event
BY DEF Holds

LEMMA LateKeepsLine ==
    ASSUME NEW s, NEW m, NEW q, NEW l, NEW k, l \subseteq k, Line(s, m, q, l)
    PROVE  Line(s, m, q, k)
<1>1. \A x, y : Before(x, y, l) => Before(x, y, k)
    BY DEF Before
<1> QED
    BY <1>1 DEF Line

LEMMA PutKeepsLine ==
    ASSUME NEW s \in Seq(Event), NEW m \in {0} \cup Event, NEW q \in Seq(Event), NEW l,
           NEW e \in Event, Line(s, m, q, l),
           \A x \in Holds(s, m, q) : Before(x, e, l)
    PROVE  /\ Line(s, m, Append(q, e), l)
           /\ Holds(s, m, Append(q, e)) \subseteq Holds(s, m, q) \cup {e}
<1> DEFINE r == Append(q, e)
<1>1. /\ Len(r) = Len(q) + 1 /\ Len(q) \in Nat /\ r[Len(q) + 1] = e
      /\ \A i \in 1..Len(q) : r[i] = q[i]
    OBVIOUS
<1> HIDE DEF r
<1>2. /\ \A i \in 1..Len(q) : Before(q[i], e, l)
      /\ \A i \in 1..Len(s) : Before(s[i], e, l)
      /\ m # 0 => Before(m, e, l)
    BY DEF Holds
<1>3. \A j \in 1..Len(r) : j \in 1..Len(q) \/ j = Len(q) + 1
    BY <1>1
<1>4. ASSUME NEW i \in 1..Len(r), NEW j \in 1..Len(r), i < j
      PROVE  Before(r[i], r[j], l)
  <2>1. i \in 1..Len(q)
      BY <1>1, <1>4
  <2> QED
      BY <1>1, <1>2, <1>3, <1>4, <2>1 DEF Line
<1>5. \A i \in 1..Len(s), j \in 1..Len(r) : Before(s[i], r[j], l)
    BY <1>1, <1>2, <1>3 DEF Line
<1>6. m # 0 => \A j \in 1..Len(r) : Before(m, r[j], l)
    BY <1>1, <1>2, <1>3 DEF Line
<1>7. Line(s, m, r, l)
    BY <1>4, <1>5, <1>6 DEF Line
<1>8. ASSUME NEW x \in Holds(s, m, r)
      PROVE  x \in Holds(s, m, q) \cup {e}
  <2>1. CASE x \in {r[i] : i \in 1..Len(r)}
    <3>1. PICK i \in 1..Len(r) : x = r[i]
        BY <2>1
    <3>2. x = e \/ (i \in 1..Len(q) /\ x = q[i])
        BY <1>1, <1>3, <3>1
    <3> QED
        BY <3>2 DEF Holds
  <2>2. CASE x \notin {r[i] : i \in 1..Len(r)}
      BY <1>8, <2>2 DEF Holds
  <2> QED
      BY <2>1, <2>2
<1> QED
    BY <1>7, <1>8 DEF r

LEMMA TakeKeepsLine ==
    ASSUME NEW s \in Seq(Event), NEW q \in Seq(Event), NEW l, q # <<>>, Line(s, 0, q, l)
    PROVE  /\ Line(s, Head(q), Tail(q), l) /\ Head(q) \in Event /\ Tail(q) \in Seq(Event)
           /\ Holds(s, Head(q), Tail(q)) \subseteq Holds(s, 0, q)
           /\ Len(Tail(q)) <= Len(q)
<1> DEFINE r == Tail(q)
           h == Head(q)
<1>1. /\ Len(r) = Len(q) - 1 /\ Len(q) \in Nat \ {0} /\ h = q[1] /\ h \in Event
      /\ r \in Seq(Event) /\ \A i \in 1..Len(r) : r[i] = q[i + 1]
    OBVIOUS
<1> HIDE DEF r, h
<1>2. \A i \in 1..Len(r) : i + 1 \in 1..Len(q) /\ 1 < i + 1
    BY <1>1
<1>3. 1 \in 1..Len(q) /\ Len(r) <= Len(q)
    BY <1>1
<1>4. \A i, j \in 1..Len(r) : i < j => Before(r[i], r[j], l)
    BY <1>1, <1>2 DEF Line
<1>5. \A i \in 1..Len(s), j \in 1..Len(r) : Before(s[i], r[j], l)
    BY <1>1, <1>2 DEF Line
<1>6. \A i \in 1..Len(s) : Before(s[i], h, l)
    BY <1>1, <1>3 DEF Line
<1>7. \A j \in 1..Len(r) : Before(h, r[j], l)
    BY <1>1, <1>2, <1>3 DEF Line
<1>8. Line(s, h, r, l)
    BY <1>4, <1>5, <1>6, <1>7 DEF Line
<1>9. ASSUME NEW x \in Holds(s, h, r)
      PROVE  x \in Holds(s, 0, q)
  <2>1. CASE x \in {r[i] : i \in 1..Len(r)}
    <3>1. PICK i \in 1..Len(r) : x = r[i]
        BY <2>1
    <3>2. x = q[i + 1] /\ i + 1 \in 1..Len(q)
        BY <1>1, <1>2, <3>1
    <3> QED
        BY <3>2 DEF Holds
  <2>2. CASE x = h
      BY <1>1, <1>3, <2>2 DEF Holds
  <2>3. CASE x \in {s[i] : i \in 1..Len(s)}
      BY <2>3 DEF Holds
  <2> QED
      BY <1>9, <2>1, <2>2, <2>3 DEF Holds
<1> QED
    BY <1>1, <1>3, <1>8, <1>9 DEF r, h

LEMMA SentKeepsLine ==
    ASSUME NEW s \in Seq(Event), NEW m \in Event, NEW q \in Seq(Event), NEW l,
           Line(s, m, q, l)
    PROVE  /\ Line(Append(s, m), 0, q, l) /\ Append(s, m) \in Seq(Event)
           /\ Holds(Append(s, m), 0, q) \subseteq Holds(s, m, q)
<1> DEFINE r == Append(s, m)
<1>0. m # 0
    BY DEF Event
<1>1. /\ Len(r) = Len(s) + 1 /\ Len(s) \in Nat /\ r[Len(s) + 1] = m
      /\ r \in Seq(Event) /\ \A i \in 1..Len(s) : r[i] = s[i]
    OBVIOUS
<1> HIDE DEF r
<1>3. \A j \in 1..Len(r) : j \in 1..Len(s) \/ j = Len(s) + 1
    BY <1>1
<1>4. ASSUME NEW i \in 1..Len(r), NEW j \in 1..Len(r), i < j
      PROVE  Before(r[i], r[j], l)
  <2>1. i \in 1..Len(s)
      BY <1>1, <1>4
  <2> QED
      BY <1>0, <1>1, <1>3, <1>4, <2>1 DEF Line
<1>5. \A i \in 1..Len(r), j \in 1..Len(q) : Before(r[i], q[j], l)
    BY <1>0, <1>1, <1>3 DEF Line
<1>6. \A i, j \in 1..Len(q) : i < j => Before(q[i], q[j], l)
    BY DEF Line
<1>7. Line(r, 0, q, l)
    BY <1>4, <1>5, <1>6 DEF Line
<1>8. Holds(r, 0, q) \subseteq Holds(s, m, q)
    BY <1>0, <1>1, <1>3 DEF Holds
<1> QED
    BY <1>1, <1>7, <1>8 DEF r

LEMMA LossKeepsLine ==
    ASSUME NEW s, NEW m, NEW q, NEW l, Line(s, m, q, l)
    PROVE  Line(s, 0, q, l) /\ Holds(s, 0, q) \subseteq Holds(s, m, q)
BY DEF Line, Holds

(***************************************************************************)
(* In line means in order, one after the other.                            *)
(***************************************************************************)
LEMMA LineIsOrdered ==
    ASSUME NEW s \in Seq(Event), NEW m \in {0} \cup Event, NEW q \in Seq(Event), NEW l,
           Line(s, m, q, l),
           NEW got, got = s \o (IF m = 0 THEN <<>> ELSE <<m>>) \o q,
           NEW i \in DOMAIN got, NEW j \in DOMAIN got, i < j
    PROVE  Before(got[i], got[j], l)
<1> DEFINE n == IF m = 0 THEN 0 ELSE 1
<1>1. /\ Len(s) \in Nat /\ Len(q) \in Nat /\ DOMAIN got = 1..(Len(s) + n + Len(q))
      /\ n \in 0..1
  <2>1. CASE m = 0
      BY <2>1
  <2>2. CASE m # 0
      BY <2>2
  <2> QED
      BY <2>1, <2>2
<1>2. /\ \A a \in 1..Len(s) : got[a] = s[a]
      /\ \A a \in (Len(s) + n + 1)..(Len(s) + n + Len(q)) : got[a] = q[a - (Len(s) + n)]
      /\ n = 1 => got[Len(s) + 1] = m /\ m # 0
  <2>1. CASE m = 0
      BY <2>1
  <2>2. CASE m # 0
      BY <2>2
  <2> QED
      BY <2>1, <2>2
<1> HIDE DEF n
<1>3. \A a \in DOMAIN got : \/ a \in 1..Len(s)
                            \/ n = 1 /\ a = Len(s) + 1
                            \/ a \in (Len(s) + n + 1)..(Len(s) + n + Len(q))
    BY <1>1
<1>4. \A a \in (Len(s) + n + 1)..(Len(s) + n + Len(q)) : a - (Len(s) + n) \in 1..Len(q)
    BY <1>1
<1>5. CASE i \in 1..Len(s)
    BY <1>2, <1>3, <1>4, <1>5 DEF Line
<1>6. CASE n = 1 /\ i = Len(s) + 1
  <2>1. j \in (Len(s) + n + 1)..(Len(s) + n + Len(q))
      BY <1>1, <1>6
  <2> QED
      BY <1>2, <1>4, <1>6, <2>1 DEF Line
<1>7. CASE i \in (Len(s) + n + 1)..(Len(s) + n + Len(q))
  <2>1. j \in (Len(s) + n + 1)..(Len(s) + n + Len(q))
      BY <1>1, <1>7
  <2>2. i - (Len(s) + n) < j - (Len(s) + n)
      BY <1>1
  <2> QED
      BY <1>2, <1>4, <1>7, <2>1, <2>2 DEF Line
<1> QED
    BY <1>3, <1>5, <1>6, <1>7

(***************************************************************************)
(* Of the clients it was given, a turn of a fan-out task puts the event to *)
(* some whose queue has room, and has not come to those it leaves.         *)
(***************************************************************************)
LEMMA DeliverPuts ==
    ASSUME BusInv, LineInv, late \subseteq Event, Once(clients),
           NEW e \in Event, NEW todo \in Seq(Registered), Once(todo), Deliver(e, todo)
    PROVE  /\ late \subseteq late' /\ late' \subseteq late \cup {e}
           /\ dropped' \subseteq Clients /\ Once(clients')
           /\ queue' = [c \in Clients |-> queue'[c]]
           /\ \A c \in Clients :
                \/ queue'[c] = queue[c]
                \/ /\ queue'[c] = Append(queue[c], e) /\ Len(queue[c]) < MaxQueue
                   /\ \E k \in 1..Len(todo) : c = todo[k]
           /\ Waits(fan'[e]) =>
                /\ e \in late' /\ Once(fan'[e].todo)
                /\ \A k \in 2..Len(fan'[e].todo) :
                    /\ queue'[fan'[e].todo[k]] = queue[fan'[e].todo[k]]
                    /\ \E j \in 1..Len(todo) : fan'[e].todo[k] = todo[j]
<1> DEFINE blocked == {i \in DOMAIN todo : Wants(todo[i], e) /\ Full(todo[i])}
           stop == IF blocked = {} THEN Len(todo) + 1 ELSE Min(blocked)
           rest == SubSeq(todo, stop, Len(todo))
           served == {todo[i] : i \in {j \in 1..(stop - 1) : Wants(todo[j], e)}}
<1>1. /\ queue' = [c \in Clients |-> IF c \in served THEN Append(queue[c], e)
                                      ELSE queue[c]]
      /\ fan' = [fan EXCEPT ![e] = IF blocked = {} THEN NoFan
                    ELSE [pc |-> "dropping", todo |-> rest]]
      /\ IF blocked = {}
         THEN UNCHANGED <<clients, cancelled, dropped, late>>
         ELSE /\ dropped' = dropped \cup {todo[stop]}
              /\ clients' = RemoveFirst(clients, todo[stop])
              /\ late' = late \cup {e}
    BY DEF Deliver
<1>2. /\ blocked \subseteq 1..Len(todo) /\ Len(todo) \in Nat
      /\ \A i \in 1..Len(todo) : todo[i] \in Registered
      /\ Registered \subseteq Clients /\ blocked \subseteq Nat
    BY DEF Registered
<1>3. /\ stop \in 1..(Len(todo) + 1)
      /\ blocked # {} => stop \in 1..Len(todo)
      /\ \A i \in 1..(stop - 1) : i \notin blocked
  <2>1. CASE blocked = {}
      BY <1>2, <2>1
  <2>2. CASE blocked # {}
    <3>0. stop = Min(blocked)
        BY <2>2
    <3> HIDE DEF blocked, stop
    <3>1. stop \in blocked /\ \A n \in blocked : stop <= n
        BY <1>2, <2>2, <3>0, LeastOfSome
    <3> QED
        BY <1>2, <3>1
  <2> QED
      BY <2>1, <2>2
<1>4. \A c \in served : /\ \E k \in 1..(stop - 1) : c = todo[k] /\ k \in 1..Len(todo)
                        /\ Len(queue[c]) < MaxQueue
  <2> SUFFICES ASSUME NEW c \in served
               PROVE  /\ \E k \in 1..(stop - 1) : c = todo[k] /\ k \in 1..Len(todo)
                      /\ Len(queue[c]) < MaxQueue
      OBVIOUS
  <2>1. PICK k \in 1..(stop - 1) : c = todo[k] /\ Wants(todo[k], e)
      OBVIOUS
  <2>2. k \in 1..Len(todo) /\ k \notin blocked
      BY <1>2, <1>3, <2>1
  <2>3. ~Full(todo[k]) /\ c \in Clients
      BY <1>2, <2>1, <2>2
  <2>4. queue[c] \in Seq(Event)
      BY <2>3 DEF LineInv
  <2>5. Len(queue[c]) < MaxQueue
      BY <2>1, <2>3, <2>4, BroadcastAssumption DEF Full
  <2> QED
      BY <2>1, <2>2, <2>5
<1>5. CASE blocked = {}
  <2>1. fan'[e] = NoFan /\ UNCHANGED <<clients, dropped, late>>
      BY <1>1, <1>5 DEF BusInv, KnownInv
  <2>2. ~Waits(fan'[e])
      BY <2>1 DEF Waits, NoFan
  <2> HIDE DEF blocked, stop, served
  <2> QED
      BY <1>1, <1>4, <2>1, <2>2 DEF LineInv
<1>6. CASE blocked # {}
  <2>1. /\ dropped' = dropped \cup {todo[stop]}
        /\ clients' = RemoveFirst(clients, todo[stop]) /\ late' = late \cup {e}
        /\ fan'[e] = [pc |-> "dropping", todo |-> rest]
      BY <1>1, <1>6 DEF BusInv, KnownInv
  <2>2. todo[stop] \in Clients
      BY <1>2, <1>3, <1>6
  <2>3. Once(clients')
      BY <2>1, RemovedStaysOnce DEF BusInv, KnownInv
  <2> HIDE DEF blocked, stop
  <2>4. /\ Len(rest) = Len(todo) - stop + 1
        /\ \A k \in 1..Len(rest) : rest[k] = todo[k + stop - 1]
      BY <1>3, <1>6
  <2> HIDE DEF rest
  <2>5. \A k \in 1..Len(rest) : k + stop - 1 \in stop..Len(todo) /\ k + stop - 1 \in 1..Len(todo)
      BY <1>2, <1>3, <2>4
  <2>6. Once(rest)
    <3> SUFFICES ASSUME NEW i \in 1..Len(rest), NEW j \in 1..Len(rest), i # j
                 PROVE  rest[i] # rest[j]
        BY DEF Once
    <3>1. i + stop - 1 # j + stop - 1
        BY <1>3
    <3> QED
        BY <2>4, <2>5, <3>1 DEF Once
  <2>7. ASSUME NEW k \in 2..Len(rest)
        PROVE  /\ queue'[rest[k]] = queue[rest[k]]
               /\ \E j \in 1..Len(todo) : rest[k] = todo[j]
    <3>1. k \in 1..Len(rest)
        BY <1>2, <1>3, <2>4
    <3>2. rest[k] = todo[k + stop - 1] /\ k + stop - 1 \in 1..Len(todo)
        BY <2>4, <2>5, <3>1
    <3>3. rest[k] \notin served
      <4> SUFFICES ASSUME rest[k] \in served
                   PROVE  FALSE
          OBVIOUS
      <4>1. PICK i \in 1..(stop - 1) : rest[k] = todo[i] /\ i \in 1..Len(todo)
          BY <1>4
      <4>2. i # k + stop - 1
          BY <1>3, <2>5, <3>1
      <4> QED
          BY <3>2, <4>1, <4>2 DEF Once
    <3>4. rest[k] \in Clients
        BY <1>2, <3>2
    <3> QED
        BY <1>1, <3>2, <3>3, <3>4
  <2>8. \A c \in Clients :
                \/ queue'[c] = queue[c]
                \/ /\ queue'[c] = Append(queue[c], e) /\ Len(queue[c]) < MaxQueue
                   /\ \E k \in 1..Len(todo) : c = todo[k]
    <3> HIDE DEF served
    <3> QED
        BY <1>1, <1>4
  <2>9. queue' = [c \in Clients |-> queue'[c]]
      BY <1>1
  <2> HIDE DEF served
  <2>10. fan'[e].todo = rest /\ late \subseteq late' /\ e \in late' /\ late' \subseteq late \cup {e}
      BY <2>1
  <2>11. dropped' \subseteq Clients
      BY <2>1, <2>2 DEF LineInv
  <2> QED
      BY <2>3, <2>6, <2>7, <2>8, <2>9, <2>10, <2>11
<1> QED
    BY <1>5, <1>6

(***************************************************************************)
(* A turn of a fan-out task whose event no client among those it was given *)
(* has got keeps the lines and the order of the tasks.                     *)
(***************************************************************************)
LEMMA TurnKeepsLines ==
    ASSUME StreamInv, NEW e \in Event, NEW todo \in Seq(Registered), Once(todo),
           Deliver(e, todo), UNCHANGED <<alerts, clientVars, drain, wsClosed>>,
           \A d \in Event : d # e => fan'[d] = fan[d],
           Len(tasks') <= alerts,
           \A i \in 1..Len(tasks') : tasks'[i] = Started' + i,
           Started \in Int, Started' \in Int, Started <= Started', e <= Started',
           \A k \in 1..Len(todo) : \A x \in Got(todo[k]) :
                x < e \/ (e \in late /\ x # e)
    PROVE  LineInv' /\ StartsInv'
<1>1. /\ late \subseteq late' /\ late' \subseteq late \cup {e}
      /\ dropped' \subseteq Clients /\ Once(clients')
      /\ queue' = [c \in Clients |-> queue'[c]]
      /\ \A c \in Clients :
           \/ queue'[c] = queue[c]
           \/ /\ queue'[c] = Append(queue[c], e) /\ Len(queue[c]) < MaxQueue
              /\ \E k \in 1..Len(todo) : c = todo[k]
      /\ Waits(fan'[e]) =>
           /\ e \in late' /\ Once(fan'[e].todo)
           /\ \A k \in 2..Len(fan'[e].todo) :
               /\ queue'[fan'[e].todo[k]] = queue[fan'[e].todo[k]]
               /\ \E j \in 1..Len(todo) : fan'[e].todo[k] = todo[j]
    BY DeliverPuts DEF StreamInv, StartsInv
<1>2. UNCHANGED <<alerts, conn, filter, sending, sent, drain, wsClosed>>
    BY DEF clientVars
<1>3. ASSUME NEW c \in Clients
      PROVE  /\ queue'[c] \in Seq(Event) /\ Len(queue'[c]) <= MaxQueue
             /\ Line(sent[c], sending[c], queue'[c], late')
             /\ Holds(sent[c], sending[c], queue'[c]) \subseteq Got(c) \cup {e}
  <2>1. /\ queue[c] \in Seq(Event) /\ sent[c] \in Seq(Event)
        /\ sending[c] \in {0} \cup Event
        /\ Len(queue[c]) <= MaxQueue /\ InLine(c)
      BY DEF StreamInv, LineInv
  <2>2. Line(sent[c], sending[c], queue[c], late')
      BY <1>1, <2>1, LateKeepsLine DEF InLine
  <2>3. CASE queue'[c] = queue[c]
      BY <2>1, <2>2, <2>3 DEF Got
  <2>4. CASE /\ queue'[c] = Append(queue[c], e) /\ Len(queue[c]) < MaxQueue
             /\ \E k \in 1..Len(todo) : c = todo[k]
    <3>1. \A x \in Holds(sent[c], sending[c], queue[c]) : Before(x, e, late')
        BY <1>1, <2>4 DEF Before, Got
    <3>2. /\ Line(sent[c], sending[c], Append(queue[c], e), late')
          /\ Holds(sent[c], sending[c], Append(queue[c], e))
                \subseteq Holds(sent[c], sending[c], queue[c]) \cup {e}
        BY <2>1, <2>2, <3>1, PutKeepsLine
    <3>3. /\ Len(queue'[c]) = Len(queue[c]) + 1 /\ queue'[c] \in Seq(Event)
          /\ \A i \in 1..Len(queue[c]) : queue'[c][i] = queue[c][i]
          /\ queue'[c][Len(queue[c]) + 1] = e /\ Len(queue[c]) \in Nat
        BY <2>1, <2>4
    <3>5. Holds(sent[c], sending[c], queue'[c]) \subseteq Got(c) \cup {e}
        BY <2>4, <3>2 DEF Got
    <3>6. Len(queue'[c]) <= MaxQueue
        BY <2>4, <3>3, BroadcastAssumption
    <3> QED
        BY <2>4, <3>2, <3>3, <3>5, <3>6
  <2> QED
      BY <1>1, <2>3, <2>4
<1>4. LineInv'
  <2>1. queue' \in [Clients -> Seq(Event)]
      BY <1>1, <1>3
  <2>2. \A c \in Clients : InLine(c)'
      BY <1>2, <1>3 DEF InLine
  <2> QED
      BY <1>1, <1>2, <1>3, <2>1, <2>2 DEF StreamInv, LineInv
<1>5. \A c \in Clients : Got(c)' \subseteq Got(c) \cup {e}
    BY <1>2, <1>3 DEF Got
<1>6. \A c \in Clients : \A x \in Got(c)' : x <= Started'
  <2> SUFFICES ASSUME NEW c \in Clients, NEW x \in Got(c)'
               PROVE  x <= Started'
      OBVIOUS
  <2>1. CASE x = e
      BY <2>1
  <2>2. CASE x \in Got(c)
    <3>1. x <= Started /\ x \in Nat
      <4>1. /\ queue[c] \in Seq(Event) /\ sent[c] \in Seq(Event)
            /\ sending[c] \in {0} \cup Event
          BY DEF StreamInv, LineInv
      <4>2. x \in Event /\ Event \subseteq Nat
          BY <2>2, <4>1, HoldsEvents DEF Got, Event
      <4> QED
          BY <2>2, <4>2 DEF StreamInv, StartsInv
    <3> QED
        BY <3>1
  <2> QED
      BY <1>5, <2>1, <2>2
<1>7. \A d \in Event : fan[d].todo \in Seq(Clients)
    BY DEF StreamInv, BusInv, KnownInv, FanFits, Registered
<1>8. ASSUME NEW d \in Event, Waits(fan'[d])
      PROVE  /\ d <= Started' /\ d \in late' /\ Once(fan'[d].todo)
             /\ \A k \in 2..Len(fan'[d].todo) :
                  d \notin Holds(sent[fan'[d].todo[k]], sending[fan'[d].todo[k]],
                                 queue'[fan'[d].todo[k]])
  <2>1. CASE d = e
    <3> SUFFICES ASSUME NEW k \in 2..Len(fan'[e].todo), NEW c, c = fan'[e].todo[k]
                 PROVE  e \notin Holds(sent[c], sending[c], queue'[c])
        BY <1>1, <1>8, <2>1
    <3>1. PICK j \in 1..Len(todo) : c = todo[j]
        BY <1>1, <1>8, <2>1
    <3>2. \A x \in Got(c) : x < e \/ x # e
        BY <3>1
    <3>3. e \notin Got(c)
        BY <3>2 DEF Event
    <3>4. queue'[c] = queue[c]
        BY <1>1, <1>8, <2>1
    <3> QED
        BY <3>3, <3>4 DEF Got
  <2>2. CASE d # e
    <3>1. /\ fan'[d] = fan[d] /\ d <= Started /\ d \in late /\ Once(fan[d].todo)
          /\ \A k \in 2..Len(fan[d].todo) : d \notin Got(fan[d].todo[k])
        BY <1>8, <2>2 DEF StreamInv, StartsInv
    <3>2. d <= Started'
      <4>1. d \in Int
          BY DEF Event
      <4> QED
          BY <3>1, <4>1
    <3>3. ASSUME NEW k \in 2..Len(fan[d].todo), NEW c, c = fan[d].todo[k]
          PROVE  d \notin Holds(sent[c], sending[c], queue'[c])
      <4>1. c \in Clients
          BY <1>7, <3>3
      <4> QED
          BY <1>3, <2>2, <3>1, <3>3, <4>1
    <3> QED
        BY <1>1, <3>1, <3>2, <3>3
  <2> QED
      BY <2>1, <2>2
<1>9. (\A d \in Event : Waits(fan[d]) =>
        /\ d <= Started /\ d \in late /\ Once(fan[d].todo)
        /\ \A k \in 2..Len(fan[d].todo) : d \notin Got(fan[d].todo[k]))'
    BY <1>2, <1>8 DEF Got, Waits
<1>10. late' \subseteq Event /\ Once(clients)'
    BY <1>1 DEF StreamInv, StartsInv, Once
<1> QED
    BY <1>2, <1>4, <1>6, <1>9, <1>10 DEF StartsInv

(***************************************************************************)
(* Steps that put nothing into a queue: what a client has got only becomes *)
(* less, and the fan-out tasks stay.                                       *)
(***************************************************************************)
LEMMA QuietKeepsStarts ==
    ASSUME StartsInv, \A d \in Event : fan[d].todo \in Seq(Clients),
           UNCHANGED <<alerts, tasks, late>>, Once(clients)',
           \A c \in Clients : Got(c)' \subseteq Got(c),
           \A d \in Event : Waits(fan'[d]) => Waits(fan[d]) /\ fan'[d].todo = fan[d].todo
    PROVE  StartsInv'
<1>1. Started' = Started
    BY DEF Started
<1>2. ASSUME NEW d \in Event, Waits(fan'[d]), NEW k \in 2..Len(fan'[d].todo),
             NEW c, c = fan'[d].todo[k]
      PROVE  d \notin Got(c)'
  <2>1. c \in Clients /\ d \notin Got(c)
      BY <1>2 DEF StartsInv
  <2> QED
      BY <2>1
<1>3. (\A d \in Event : Waits(fan[d]) =>
        /\ d <= Started /\ d \in late /\ Once(fan[d].todo)
        /\ \A k \in 2..Len(fan[d].todo) : d \notin Got(fan[d].todo[k]))'
  <2> SUFFICES ASSUME NEW d \in Event, Waits(fan'[d])
               PROVE  /\ d <= Started' /\ d \in late' /\ Once(fan'[d].todo)
                      /\ \A k \in 2..Len(fan'[d].todo) :
                            d \notin Holds(sent'[fan'[d].todo[k]], sending'[fan'[d].todo[k]],
                                           queue'[fan'[d].todo[k]])
      BY DEF Got, Waits, Once
  <2>1. d <= Started' /\ d \in late' /\ Once(fan'[d].todo)
      BY <1>1 DEF StartsInv
  <2> QED
      BY <1>2, <2>1 DEF Got
<1>4. \A c \in Clients : \A x \in Got(c)' : x <= Started'
    BY <1>1 DEF StartsInv
<1> QED
    BY <1>1, <1>3, <1>4 DEF StartsInv

(***************************************************************************)
(* What the fan-out does to the lines.                                     *)
(***************************************************************************)
LEMMA FansKeepLines ==
    ASSUME StreamInv, Alert \/ Start \/ \E e \in Event : CloseVictim(e) \/ Resume(e)
    PROVE  LineInv' /\ StartsInv'
<1>0. /\ tasks \in Seq(Event) /\ Len(tasks) \in Nat /\ alerts \in Nat
      /\ fan = [d \in Event |-> fan[d]]
      /\ \A d \in Event : fan[d].todo \in Seq(Registered) /\ fan[d].todo \in Seq(Clients)
    <2>1. /\ tasks \in Seq(Event) /\ alerts \in 0..MaxEvents
          /\ fan = [d \in Event |-> fan[d]]
          /\ \A d \in Event : fan[d].todo \in Seq(Registered)
        BY DEF StreamInv, BusInv, KnownInv, FanFits
    <2> QED
        BY <2>1 DEF Registered
<1>1. Started \in Int /\ Started = alerts - Len(tasks) /\ Len(tasks) <= alerts
      /\ \A i \in 1..Len(tasks) : tasks[i] = Started + i
    BY <1>0 DEF StreamInv, StartsInv, Started
<1>2. CASE Alert
  <2>1. /\ alerts' = alerts + 1 /\ tasks' = Append(tasks, alerts + 1)
        /\ fan' = [fan EXCEPT ![alerts + 1].pc = "scheduled"]
        /\ UNCHANGED <<clients, conn, filter, sending, sent, queue, drain, dropped,
                       wsClosed, late>>
      BY <1>2 DEF Alert, clientVars
  <2>2. /\ Len(tasks') = Len(tasks) + 1
        /\ \A i \in 1..Len(tasks) : tasks'[i] = tasks[i]
        /\ tasks'[Len(tasks) + 1] = alerts + 1
      BY <1>0, <2>1
  <2>3. Started' = Started
      BY <1>0, <2>1, <2>2 DEF Started
  <2>4. \A i \in 1..Len(tasks') : tasks'[i] = Started + i
    <3> SUFFICES ASSUME NEW i \in 1..Len(tasks')
                 PROVE  tasks'[i] = Started + i
        OBVIOUS
    <3>1. CASE i = Len(tasks) + 1
        BY <1>0, <1>1, <2>2, <3>1
    <3>2. CASE i \in 1..Len(tasks)
        BY <1>1, <2>2, <3>2
    <3> QED
        BY <1>0, <2>2, <3>1, <3>2
  <2>5. \A d \in Event : Waits(fan'[d]) => fan'[d] = fan[d]
    <3> SUFFICES ASSUME NEW d \in Event, Waits(fan'[d])
                 PROVE  fan'[d] = fan[d]
        OBVIOUS
    <3>1. CASE d = alerts + 1
      <4>1. fan'[d] = [fan[d] EXCEPT !.pc = "scheduled"]
          BY <1>0, <2>1, <3>1
      <4>2. FanFits(fan[d])
          BY DEF StreamInv, BusInv, KnownInv
      <4> QED
          BY <4>1, <4>2 DEF Waits, FanFits
    <3>2. CASE d # alerts + 1
        BY <1>0, <2>1, <3>2
    <3> QED
        BY <3>1, <3>2
  <2>6. LineInv'
      BY <2>1 DEF StreamInv, LineInv, InLine
  <2>7. \A d \in Event : Waits(fan'[d]) =>
            /\ d <= Started' /\ d \in late' /\ Once(fan'[d].todo)
            /\ \A k \in 2..Len(fan'[d].todo) : d \notin Got(fan'[d].todo[k])
      BY <2>1, <2>3, <2>5 DEF StreamInv, StartsInv
  <2>8. (\A d \in Event : Waits(fan[d]) =>
            /\ d <= Started /\ d \in late /\ Once(fan[d].todo)
            /\ \A k \in 2..Len(fan[d].todo) : d \notin Got(fan[d].todo[k]))'
      BY <2>1, <2>7 DEF Got, Waits, Once
  <2>9. \A c \in Clients : \A x \in Got(c)' : x <= Started'
      BY <2>1, <2>3 DEF StreamInv, StartsInv, Got
  <2>10. Len(tasks') <= alerts' /\ late' \subseteq Event /\ Once(clients)'
      BY <1>0, <1>1, <2>1, <2>2 DEF StreamInv, StartsInv, Once
  <2> QED
      BY <2>3, <2>4, <2>6, <2>8, <2>9, <2>10 DEF StartsInv
<1>3. CASE Start
  <2>1. /\ tasks # <<>> /\ tasks' = Tail(tasks) /\ Deliver(Head(tasks), clients)
        /\ UNCHANGED <<alerts, clientVars, drain, wsClosed>>
      BY <1>3 DEF Start
  <2>2. /\ Len(tasks') = Len(tasks) - 1 /\ Head(tasks) = tasks[1] /\ Head(tasks) \in Event
        /\ \A i \in 1..Len(tasks') : tasks'[i] = tasks[i + 1]
        /\ 1 \in 1..Len(tasks)
      BY <1>0, <2>1
  <2>3. Started' = Started + 1 /\ Head(tasks) = Started + 1
      BY <1>0, <1>1, <2>1, <2>2 DEF Started
  <2>4. \A i \in 1..Len(tasks') : tasks'[i] = Started' + i
    <3> SUFFICES ASSUME NEW i \in 1..Len(tasks')
                 PROVE  tasks'[i] = Started' + i
        OBVIOUS
    <3>1. i + 1 \in 1..Len(tasks) /\ tasks[i + 1] = Started + (i + 1)
        BY <1>0, <1>1, <2>2
    <3> QED
        BY <1>1, <2>2, <2>3, <3>1
  <2>5. clients \in Seq(Registered) /\ Registered \subseteq Clients /\ Once(clients)
      BY DEF StreamInv, BusInv, KnownInv, Registered, StartsInv
  <2>6. ASSUME NEW k \in 1..Len(clients), NEW x \in Got(clients[k])
        PROVE  x < Head(tasks)
    <3>1. clients[k] \in Clients
        BY <2>5
    <3>2. x <= Started
        BY <3>1 DEF StreamInv, StartsInv
    <3>3. /\ queue[clients[k]] \in Seq(Event) /\ sent[clients[k]] \in Seq(Event)
          /\ sending[clients[k]] \in {0} \cup Event
        BY <3>1 DEF StreamInv, LineInv
    <3>4. x \in Event /\ Event \subseteq Int
        BY <3>3, HoldsEvents DEF Got, Event
    <3> QED
        BY <1>1, <2>3, <3>2, <3>4
  <2>7. \A d \in Event : d # Head(tasks) => fan'[d] = fan[d]
      BY <2>1, <2>2, <2>5, DeliverKeeps DEF StreamInv, BusInv
  <2>8. /\ Len(tasks') <= alerts /\ Started' \in Int /\ Started <= Started'
        /\ Head(tasks) <= Started'
      BY <1>0, <1>1, <2>2, <2>3
  <2> QED
      BY <1>1, <2>1, <2>2, <2>4, <2>5, <2>6, <2>7, <2>8, TurnKeepsLines
<1>4. ASSUME NEW e \in Event, CloseVictim(e)
      PROVE  LineInv' /\ StartsInv'
  <2>1. /\ fan[e].pc = "dropping" /\ fan' = [fan EXCEPT ![e].pc = "closing"]
        /\ wsClosed' = wsClosed \cup {Head(fan[e].todo)}
        /\ UNCHANGED <<alerts, tasks, clients, conn, filter, sending, sent, queue,
                       drain, dropped, late>>
      BY <1>4 DEF CloseVictim, clientVars
  <2>2. /\ FanFits(fan[e]) /\ fan[e].todo # <<>> /\ fan[e].todo \in Seq(Clients)
      BY <1>0, <2>1 DEF StreamInv, BusInv, KnownInv, FanFits
  <2>3. Head(fan[e].todo) \in Clients
      BY <2>2
  <2>4. fan'[e] = [fan[e] EXCEPT !.pc = "closing"] /\ \A d \in Event : d # e => fan'[d] = fan[d]
      BY <1>0, <2>1
  <2>5. fan'[e].todo = fan[e].todo /\ Waits(fan[e])
      BY <2>1, <2>2, <2>4 DEF FanFits, Waits
  <2>6. LineInv'
      BY <2>1, <2>3 DEF StreamInv, LineInv, InLine
  <2>7. \A d \in Event : Waits(fan'[d]) => Waits(fan[d]) /\ fan'[d].todo = fan[d].todo
      BY <2>4, <2>5
  <2>8. Once(clients)' /\ \A c \in Clients : Got(c)' \subseteq Got(c)
      BY <2>1 DEF StreamInv, StartsInv, Once, Got
  <2> QED
      BY <1>0, <2>1, <2>6, <2>7, <2>8, QuietKeepsStarts DEF StreamInv
<1>5. ASSUME NEW e \in Event, Resume(e)
      PROVE  LineInv' /\ StartsInv'
  <2>1. /\ fan[e].pc = "closing" /\ Deliver(e, Tail(fan[e].todo))
        /\ UNCHANGED <<alerts, tasks, clientVars, drain, wsClosed>>
      BY <1>5 DEF Resume
  <2>2. /\ e <= Started /\ e \in late /\ Once(fan[e].todo)
        /\ \A k \in 2..Len(fan[e].todo) : e \notin Got(fan[e].todo[k])
      BY <2>1 DEF StreamInv, StartsInv, Waits
  <2>3. fan[e].todo # <<>>
      BY <2>1 DEF StreamInv, BusInv, KnownInv, FanFits
  <2> DEFINE rest == Tail(fan[e].todo)
  <2>4. /\ rest \in Seq(Registered) /\ Len(rest) = Len(fan[e].todo) - 1
        /\ \A k \in 1..Len(rest) : rest[k] = fan[e].todo[k + 1]
      BY <1>0, <2>3
  <2>4a. Deliver(e, rest)
      BY <2>1
  <2> HIDE DEF rest
  <2>5. \A k \in 1..Len(rest) : k + 1 \in 2..Len(fan[e].todo) /\ k + 1 \in 1..Len(fan[e].todo)
    <3>1. Len(fan[e].todo) \in Nat
        BY <1>0
    <3> QED
        BY <2>4, <3>1
  <2>6. Once(rest)
    <3> SUFFICES ASSUME NEW i \in 1..Len(rest), NEW j \in 1..Len(rest), i # j
                 PROVE  rest[i] # rest[j]
        BY DEF Once
    <3>1. i + 1 # j + 1
        OBVIOUS
    <3> QED
        BY <2>2, <2>4, <2>5, <3>1 DEF Once
  <2>7. \A k \in 1..Len(rest) : \A x \in Got(rest[k]) : e \in late /\ x # e
      BY <2>2, <2>4, <2>5
  <2>8. \A d \in Event : d # e => fan'[d] = fan[d]
      BY <2>4, <2>4a, DeliverKeeps DEF StreamInv, BusInv
  <2>9. Started' = Started
      BY <2>1 DEF Started
  <2>10. /\ \A i \in 1..Len(tasks') : tasks'[i] = Started' + i
         /\ Len(tasks') <= alerts /\ Started <= Started'
      BY <1>1, <2>1, <2>9
  <2> QED
      BY <1>1, <2>1, <2>2, <2>4, <2>4a, <2>6, <2>7, <2>8, <2>9, <2>10, TurnKeepsLines
<1> QED
    BY <1>2, <1>3, <1>4, <1>5

(***************************************************************************)
(* What the routes and the drain tasks do to the lines.                    *)
(***************************************************************************)
LEMMA RoutesKeepLines ==
    ASSUME StreamInv, NEW c \in Clients,
           \/ Register(c) \/ Disconnect(c)
           \/ \E channels \in Filters : Subscribe(c, channels)
    PROVE  LineInv' /\ StartsInv'
<1>1. /\ UNCHANGED <<alerts, tasks, fan, queue, sending, sent, dropped, wsClosed, late>>
      /\ filter' \in [Clients -> SUBSET Channels]
  <2>1. filter \in [Clients -> SUBSET Channels]
      BY DEF StreamInv, LineInv
  <2> QED
      BY <2>1, BroadcastAssumption DEF Register, Disconnect, Subscribe
<1>2. clients \in Seq(Registered) /\ Once(clients)
    BY DEF StreamInv, BusInv, KnownInv, StartsInv
<1>3. Once(clients')
  <2>1. CASE Register(c)
    <3>1. clients' = Append(clients, c) /\ c \notin Registered
        BY <2>1 DEF Register, Registered
    <3>2. /\ Len(clients') = Len(clients) + 1 /\ clients'[Len(clients) + 1] = c
          /\ \A i \in 1..Len(clients) : clients'[i] = clients[i] /\ clients[i] # c
          /\ Len(clients) \in Nat
        BY <1>2, <3>1
    <3>3. \A i \in 1..Len(clients') : i \in 1..Len(clients) \/ i = Len(clients) + 1
        BY <3>2
    <3> QED
        BY <1>2, <3>2, <3>3 DEF Once
  <2>2. CASE Disconnect(c)
      BY <1>2, <2>2, RemovedStaysOnce DEF Disconnect
  <2>3. CASE \E channels \in Filters : Subscribe(c, channels)
      BY <1>2, <2>3 DEF Subscribe
  <2> QED
      BY <2>1, <2>2, <2>3
<1>4. \A d \in Clients : (drain'[d] = "send" <=> drain[d] = "send")
  <2>1. CASE Register(c)
    <3>1. drain' = [drain EXCEPT ![c] = "get"] /\ conn[c] = "new"
        BY <2>1 DEF Register
    <3> QED
        BY <3>1 DEF StreamInv, BusInv, DrainsInv
  <2>2. CASE Disconnect(c) \/ \E channels \in Filters : Subscribe(c, channels)
      BY <2>2 DEF Disconnect, Subscribe
  <2> QED
      BY <2>1, <2>2
<1>5. LineInv'
    BY <1>1, <1>4 DEF StreamInv, LineInv, InLine
<1>6. \A d \in Event : fan[d].todo \in Seq(Clients)
    BY DEF StreamInv, BusInv, KnownInv, FanFits, Registered
<1>7. Once(clients)' /\ \A d \in Clients : Got(d)' \subseteq Got(d)
    BY <1>1, <1>3 DEF Got, Once
<1> QED
    BY <1>1, <1>5, <1>6, <1>7, QuietKeepsStarts DEF StreamInv

LEMMA DrainsKeepLines ==
    ASSUME StreamInv, NEW c \in Clients,
           \/ DrainTakes(c) \/ SendReturns(c) \/ SendFails(c) \/ DrainClosed(c)
           \/ DrainCancelled(c)
    PROVE  LineInv' /\ StartsInv'
<1>1. UNCHANGED <<alerts, tasks, fan, clients, filter, late>>
    BY DEF DrainTakes, SendReturns, SendFails, DrainClosed, DrainCancelled
<1>2. /\ queue \in [Clients -> Seq(Event)] /\ sent \in [Clients -> Seq(Event)]
      /\ sending \in [Clients -> {0} \cup Event]
      /\ DOMAIN drain = Clients
      /\ Len(queue[c]) <= MaxQueue /\ Line(sent[c], sending[c], queue[c], late)
      /\ drain[c] = "send" <=> sending[c] # 0
    BY DEF StreamInv, LineInv, InLine, BusInv, DrainsInv
<1>3. /\ dropped' \subseteq Clients /\ wsClosed' \subseteq Clients
    BY DEF DrainTakes, SendReturns, SendFails, DrainClosed, DrainCancelled, StreamInv, LineInv
<1>4. /\ queue' \in [Clients -> Seq(Event)] /\ sent' \in [Clients -> Seq(Event)]
      /\ sending' \in [Clients -> {0} \cup Event]
      /\ \A d \in Clients : d # c => /\ queue'[d] = queue[d] /\ sent'[d] = sent[d]
                                     /\ sending'[d] = sending[d] /\ drain'[d] = drain[d]
      /\ Len(queue'[c]) <= MaxQueue
      /\ drain'[c] = "send" <=> sending'[c] # 0
      /\ Line(sent'[c], sending'[c], queue'[c], late)
      /\ Holds(sent'[c], sending'[c], queue'[c]) \subseteq Got(c)
  <2>1. CASE DrainTakes(c)
    <3>1. /\ drain[c] = "get" /\ queue[c] # <<>>
          /\ sending' = [sending EXCEPT ![c] = Head(queue[c])]
          /\ queue' = [queue EXCEPT ![c] = Tail(queue[c])]
          /\ drain' = [drain EXCEPT ![c] = "send"] /\ sent' = sent
        BY <2>1 DEF DrainTakes
    <3>2. sending[c] = 0 /\ queue[c] \in Seq(Event) /\ sent[c] \in Seq(Event)
        BY <1>2, <3>1
    <3>3. /\ Line(sent[c], Head(queue[c]), Tail(queue[c]), late)
          /\ Head(queue[c]) \in Event /\ Tail(queue[c]) \in Seq(Event)
          /\ Holds(sent[c], Head(queue[c]), Tail(queue[c])) \subseteq Holds(sent[c], 0, queue[c])
          /\ Len(Tail(queue[c])) <= Len(queue[c])
        BY <1>2, <3>1, <3>2, TakeKeepsLine
    <3>4. Head(queue[c]) # 0
        BY <3>3 DEF Event
    <3>5. PICK h : h = Head(queue[c])
        OBVIOUS
    <3>6. PICK r : r = Tail(queue[c])
        OBVIOUS
    <3>7. Len(r) <= MaxQueue /\ r \in Seq(Event) /\ h \in Event /\ h # 0
      <4>1. Len(r) \in Nat /\ Len(queue[c]) \in Nat /\ MaxQueue \in Nat
          BY <3>2, <3>3, <3>6, BroadcastAssumption
      <4> QED
          BY <1>2, <3>3, <3>4, <3>5, <3>6, <4>1
    <3>8. /\ sending' = [sending EXCEPT ![c] = h] /\ queue' = [queue EXCEPT ![c] = r]
          /\ Line(sent[c], h, r, late) /\ Holds(sent[c], h, r) \subseteq Got(c)
        BY <3>1, <3>2, <3>3, <3>5, <3>6 DEF Got
    <3> QED
        BY <1>2, <3>1, <3>7, <3>8
  <2>2. CASE SendReturns(c)
    <3>1. /\ drain[c] = "send" /\ sent' = [sent EXCEPT ![c] = Append(sent[c], sending[c])]
          /\ sending' = [sending EXCEPT ![c] = 0] /\ queue' = queue
          /\ drain' = [drain EXCEPT ![c] = "get"]
        BY <2>2 DEF SendReturns
    <3>2. sending[c] \in Event /\ sent[c] \in Seq(Event) /\ queue[c] \in Seq(Event)
        BY <1>2, <3>1
    <3>3. PICK r : r = Append(sent[c], sending[c])
        OBVIOUS
    <3>4. /\ Line(r, 0, queue[c], late) /\ r \in Seq(Event)
          /\ Holds(r, 0, queue[c]) \subseteq Got(c)
        BY <1>2, <3>2, <3>3, SentKeepsLine DEF Got
    <3>5. sent' = [sent EXCEPT ![c] = r]
        BY <3>1, <3>3
    <3> QED
        BY <1>2, <3>1, <3>4, <3>5
  <2>3. CASE SendFails(c) \/ DrainCancelled(c)
    <3>1. /\ sent' = sent /\ sending' = [sending EXCEPT ![c] = 0] /\ queue' = queue
          /\ drain' = [drain EXCEPT ![c] = "close"] \/ drain' = [drain EXCEPT ![c] = "done"]
        BY <2>3 DEF SendFails, DrainCancelled
    <3>2. Line(sent[c], 0, queue[c], late) /\ Holds(sent[c], 0, queue[c]) \subseteq Got(c)
        BY <1>2, LossKeepsLine DEF Got
    <3> QED
        BY <1>2, <3>1, <3>2
  <2>4. CASE DrainClosed(c)
    <3>1. /\ drain[c] = "close" /\ UNCHANGED <<sent, sending, queue>>
          /\ drain' = [drain EXCEPT ![c] = "done"]
        BY <2>4 DEF DrainClosed
    <3> QED
        BY <1>2, <3>1 DEF Got
  <2> QED
      BY <2>1, <2>2, <2>3, <2>4
<1>5. LineInv'
    BY <1>1, <1>3, <1>4 DEF StreamInv, LineInv, InLine
<1>6. \A d \in Event : fan[d].todo \in Seq(Clients)
    BY DEF StreamInv, BusInv, KnownInv, FanFits, Registered
<1>7. \A d \in Clients : Got(d)' \subseteq Got(d)
    BY <1>4 DEF Got
<1>8. Once(clients)'
    BY <1>1 DEF StreamInv, StartsInv, Once
<1> QED
    BY <1>1, <1>5, <1>6, <1>7, <1>8, QuietKeepsStarts DEF StreamInv

(***************************************************************************)
(* A client gets the events in the order in which they were alerted, but   *)
(* for those whose fan-out was late, none of them twice, and its queue is  *)
(* never longer than it may be: for any number of clients and events.      *)
(***************************************************************************)
THEOREM StreamInOrder == BusSpec => []OrderedStream
<1>1. ASSUME BusInit
      PROVE  StreamInv
  <2>1. BusInv
      BY <1>1, BusInitially
  <2>2. Line(<<>>, 0, <<>>, {}) /\ Holds(<<>>, 0, <<>>) = {} /\ Once(<<>>)
      BY DEF Line, Holds, Once
  <2>3. LineInv
    <3>1. 0 <= MaxQueue /\ Len(<<>>) = 0
        BY BroadcastAssumption
    <3>2. \A c \in Clients : queue[c] = <<>> /\ sent[c] = <<>> /\ sending[c] = 0 /\ drain[c] = "none"
        BY <1>1 DEF BusInit, Of
    <3>3. \A c \in Clients : InLine(c)
        BY <1>1, <2>2, <3>2 DEF BusInit, InLine
    <3>4. /\ filter \in [Clients -> SUBSET Channels]
          /\ queue \in [Clients -> Seq(Event)] /\ sent \in [Clients -> Seq(Event)]
          /\ sending \in [Clients -> {0} \cup Event]
          /\ dropped \subseteq Clients /\ wsClosed \subseteq Clients
        BY <1>1 DEF BusInit, Of
    <3> QED
        BY <3>1, <3>2, <3>3, <3>4 DEF LineInv
  <2>4. StartsInv
    <3>1. tasks = <<>> /\ Len(tasks) = 0 /\ alerts = 0 /\ clients = <<>> /\ late = {}
        BY <1>1 DEF BusInit
    <3>2. \A c \in Clients : Got(c) = {}
        BY <1>1, <2>2 DEF BusInit, Of, Got
    <3>3. \A e \in Event : ~Waits(fan[e])
        BY <1>1 DEF BusInit, NoFan, Waits
    <3> QED
        BY <2>2, <3>1, <3>2, <3>3 DEF StartsInv
  <2> QED
      BY <2>1, <2>3, <2>4 DEF StreamInv
<1>2. ASSUME StreamInv, [BusNext]_busVars
      PROVE  StreamInv'
  <2>1. BusInv'
      BY <1>2, BusKept DEF StreamInv
  <2>2. LineInv' /\ StartsInv'
    <3>1. CASE UNCHANGED busVars
      <4>1. UNCHANGED <<alerts, tasks, fan, clients, conn, filter, queue, drain, sending,
                        cancelled, dropped, sent, wsClosed, late>>
          BY <3>1 DEF busVars
      <4>2. LineInv'
          BY <1>2, <4>1 DEF StreamInv, LineInv, InLine
      <4>3. Once(clients)' /\ \A c \in Clients : Got(c)' \subseteq Got(c)
          BY <1>2, <4>1 DEF StreamInv, StartsInv, Once, Got
      <4>4. \A d \in Event : fan[d].todo \in Seq(Clients)
          BY <1>2 DEF StreamInv, BusInv, KnownInv, FanFits, Registered
      <4> QED
          BY <1>2, <4>1, <4>2, <4>3, <4>4, QuietKeepsStarts DEF StreamInv
    <3>2. CASE Alert \/ Start \/ \E e \in Event : CloseVictim(e) \/ Resume(e)
        BY <1>2, <3>2, FansKeepLines
    <3>3. ASSUME NEW c \in Clients,
                 \/ Register(c) \/ Disconnect(c)
                 \/ \E channels \in Filters : Subscribe(c, channels)
          PROVE  LineInv' /\ StartsInv'
        BY <1>2, <3>3, RoutesKeepLines
    <3>4. ASSUME NEW c \in Clients,
                 \/ DrainTakes(c) \/ SendReturns(c) \/ SendFails(c) \/ DrainClosed(c)
                 \/ DrainCancelled(c)
          PROVE  LineInv' /\ StartsInv'
        BY <1>2, <3>4, DrainsKeepLines
    <3> QED
        BY <1>2, <3>1, <3>2, <3>3, <3>4 DEF BusNext
  <2> QED
      BY <2>1, <2>2 DEF StreamInv
<1>3. ASSUME StreamInv
      PROVE  OrderedStream
  <2>1. BusTypeOK
    <3>1. /\ tasks \in Seq(Event) /\ alerts \in 0..MaxEvents
          /\ conn \in [Clients -> {"new", "open", "gone"}]
          /\ cancelled \subseteq Clients
          /\ drain \in [Clients -> {"none", "get", "send", "close", "done"}]
          /\ clients \in Seq(Clients)
        BY <1>3 DEF StreamInv, BusInv, KnownInv, DrainsInv, Registered
    <3>2. fan \in [Event -> [pc : {"none", "scheduled", "dropping", "closing"},
                             todo : Seq(Clients)]]
      <4>1. /\ fan = [e \in Event |-> fan[e]] /\ Seq(Registered) \subseteq Seq(Clients)
            /\ \A e \in Event : FanFits(fan[e])
          BY <1>3 DEF StreamInv, BusInv, KnownInv, Registered
      <4>2. \A e \in Event : fan[e] \in [pc : {"none", "scheduled", "dropping", "closing"},
                                        todo : Seq(Clients)]
          BY <4>1 DEF FanFits
      <4> QED
          BY <4>1, <4>2
    <3>3. /\ filter \in [Clients -> SUBSET Channels]
          /\ queue \in [Clients -> Seq(Event)] /\ sent \in [Clients -> Seq(Event)]
          /\ sending \in [Clients -> {0} \cup Event]
          /\ dropped \subseteq Clients /\ wsClosed \subseteq Clients /\ late \subseteq Event
          /\ \A c \in Clients : Len(queue[c]) <= MaxQueue
        BY <1>3 DEF StreamInv, LineInv, StartsInv
    <3> QED
        BY <3>1, <3>2, <3>3 DEF BusTypeOK
  <2>2. EventsInOrder
    <3> SUFFICES ASSUME NEW c \in Clients, NEW got,
                        got = sent[c] \o (IF sending[c] = 0 THEN <<>> ELSE <<sending[c]>>)
                                      \o queue[c],
                        NEW i \in DOMAIN got, NEW j \in DOMAIN got, i < j
                 PROVE  got[i] < got[j] \/ (got[j] \in late /\ got[i] # got[j])
        BY DEF EventsInOrder
    <3>1. /\ sent[c] \in Seq(Event) /\ queue[c] \in Seq(Event)
          /\ sending[c] \in {0} \cup Event
          /\ Line(sent[c], sending[c], queue[c], late)
        BY <1>3 DEF StreamInv, LineInv, InLine
    <3>2. Before(got[i], got[j], late)
        BY <3>1, LineIsOrdered
    <3> QED
        BY <3>2 DEF Before
  <2> QED
      BY <2>1, <2>2 DEF OrderedStream
<1> QED
    BY <1>1, <1>2, <1>3, PTL DEF BusSpec
=============================================================================
