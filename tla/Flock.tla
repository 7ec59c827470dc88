------------------------------- MODULE Flock -------------------------------
(***************************************************************************)
(* Record locks, os/flock.c: the list of locks of each file, which is kept *)
(* in order of where the locks begin; the chain sleeplcks of requests that *)
(* wait, which is what deadlock is looked for in; and the records of both, *)
(* of which there are t_flckrec.                                           *)
(*                                                                         *)
(* A process in reclock() keeps the processor until it sleeps on the lock  *)
(* that blocks it (kmem_zalloc() is called with KM_NOSLEEP), so a step is  *)
(* all that is done between two sleeps.                                    *)
(***************************************************************************)
EXTENDS Integers, Sequences, FiniteSets, SequencesExt, TLC

CONSTANTS
  Proc,         \* processes, which sleep when they must wait
  Remote,       \* owners for whom a lock manager asks (RCMDLCK): nobody sleeps
  File,         \* vnodes
  MAXEND,       \* the last byte of a file
  t_flckrec,    \* tune.t_flckrec, the most records in use
  Requests,     \* for each owner what it may ask for
  MemoryShort,  \* TRUE if kmem_zalloc(KM_NOSLEEP) may find no memory
  NULL

Owner == Proc \union Remote
Byte == 0 .. MAXEND
LockType == {"F_RDLCK", "F_WRLCK"}

(* A call of reclock(): the file, the struct flock (l_end is what the code  *)
(* makes of l_len), and the bits SETFLCK and SLPFLCK of cmd.                *)
Request == [file: File, owner: Owner, type: LockType \union {"F_UNLCK"},
            start: Byte, end: Byte, setflck: BOOLEAN, slpflck: BOOLEAN]

ASSUME FlockAssumption ==
  /\ MAXEND \in Nat /\ t_flckrec \in Nat
  /\ MemoryShort \in BOOLEAN
  /\ Proc \intersect Remote = {} /\ NULL \notin Owner \union Nat
  /\ Requests \in [Owner -> SUBSET Request]
  /\ \A o \in Owner : \A r \in Requests[o] : r.owner = o /\ r.start <= r.end

VARIABLES
  filock,       \* the lock at each address, or NULL
  v_filocks,    \* the list of each file, of addresses
  sleeplcks,    \* the chain of waiting requests, newest first
  reccnt,       \* flckinfo.reccnt
  pr,           \* where each process is
  answer,       \* the last request to change locks and its error: only a record
  circling      \* deadflck() goes round for ever

locks == <<filock, v_filocks, answer>>
vars == <<filock, v_filocks, sleeplcks, reccnt, pr, answer, circling>>

Address == 1 .. t_flckrec
Lock == [owner: Owner, type: LockType, start: Byte, end: Byte, wakeflg: BOOLEAN]
Idle == [pc |-> "idle", req |-> NULL, on |-> NULL]

(* reclock() changes one file; what it works on is a record of the locks,   *)
(* the list, the count, the allocations that will succeed yet, of which     *)
(* locks the sleepers have been woken, and the error.                       *)
Work(f, cnt, mem) ==
  [fl |-> filock, list |-> v_filocks[f], cnt |-> cnt, mem |-> mem, woken |-> {}, err |-> "ok"]

(* How many allocations find memory. reclock() makes at most two.           *)
Memory == IF MemoryShort THEN 0 .. 2 ELSE {2}

Overlap(x, y) == x.start <= y.end /\ y.start <= x.end

(* What keeps a request from being granted.                                 *)
Conflict(f, req) ==
  /\ f.owner # req.owner
  /\ Overlap(f, req)
  /\ "F_WRLCK" \in {f.type, req.type}

-----------------------------------------------------------------------------
(* The list of a file.                                                      *)

Position(list, a) == IF a = NULL THEN 0 ELSE CHOOSE i \in DOMAIN list : list[i] = a
Previous(list, a) ==
  LET i == Position(list, a) IN IF i = 1 THEN NULL ELSE list[i - 1]

(* The macro WAKEUP.                                                        *)
Wakeup(w, a) ==
  IF w.fl[a].wakeflg
  THEN [w EXCEPT !.fl[a].wakeflg = FALSE, !.woken = @ \union {a}]
  ELSE w

(* A free record, which may be one that others slept on before.             *)
FreeAddress(fl) == CHOOSE a \in Address :
  fl[a] = NULL /\ \A b \in Address : fl[b] = NULL => a <= b

NoRecord(w) == w.cnt >= t_flckrec \/ w.mem = 0

(* insflck() of a lock behind `after'; at the head if that is NULL.         *)
insflck(w, x, after) ==
  LET a == FreeAddress(w.fl)
      l == [owner |-> x.owner, type |-> x.type, start |-> x.start, end |-> x.end,
            wakeflg |-> FALSE]
  IN  [w EXCEPT !.fl[a] = l, !.cnt = @ + 1, !.mem = @ - 1,
                !.list = InsertAt(@, Position(@, after) + 1, a)]

delflck(w, a) ==
  LET v == Wakeup(w, a)
  IN  [v EXCEPT !.fl[a] = NULL, !.cnt = @ - 1, !.list = Remove(@, a)]

\* Mutated form: insertion right after the lock itself.
LastBeforeHere(w, a, x) == a

(* The last lock of the run that begins at a of locks that start before x.  *)
LastBefore(w, a, x) ==
  LET i == Position(w.list, a)
      run == {j \in i .. Len(w.list) :
                j = i \/ \A k \in i .. j : w.fl[w.list[k]].start < x}
  IN  w.list[CHOOSE j \in run : \A k \in run : k <= j]

-----------------------------------------------------------------------------
(* flckadj(). It goes over the locks of the owner from insrtp on, with w    *)
(* extended by ld, the (un)lock, which may grow; ins, where to insert it;   *)
(* over, when the scan ends; ret, when flckadj() returns at once, and err.  *)

(* A lock of the same type: nothing is to be done within it; if it overlays *)
(* or adjoins ld it is joined to it.                                        *)
Coalesce(w, a) ==
  LET f == w.fl[a]
      ld == w.ld
  IN  IF ld.end < f.start - 1 THEN [w EXCEPT !.over = TRUE]
      ELSE IF ld.start > f.end + 1 THEN [w EXCEPT !.ins = a]
      ELSE IF f.start <= ld.start /\ ld.end <= f.end
           THEN [w EXCEPT !.over = TRUE, !.ret = TRUE]
      ELSE [delflck(w, a) EXCEPT
              !.ld.start = IF f.start < @ THEN f.start ELSE @,
              !.ld.end = IF f.end > @ THEN f.end ELSE @,
              !.ins = IF f.start <= ld.start THEN Previous(w.list, a) ELSE @,
              !.over = ld.end <= f.end]

\* Mutated form: nobody is woken.
ShortenedQuiet(w, a) == [w EXCEPT !.fl[a].end = w.ld.start - 1]

(* Only the piece before ld is left.                                        *)
Shortened(w, a) == [Wakeup(w, a) EXCEPT !.fl[a].end = w.ld.start - 1]

\* Mutated form: it is forgotten.
TailLost(w, a) == w

(* The piece after ld is a new lock.                                        *)
TailOfLock(w, a) ==
  insflck(w, [w.fl[a] EXCEPT !.start = w.ld.end + 1], LastBefore(w, a, w.ld.end + 1))

(* A lock of another type (or ld unlocks): the part that ld overlays goes.  *)
(* The piece after ld is made first; the piece before it keeps the record.  *)
Release(w, a) ==
  LET f == w.fl[a]
      ld == w.ld
      inside == ld.end < f.end
      v == IF inside THEN TailOfLock(w, a) ELSE w
  IN  IF ld.end < f.start THEN [w EXCEPT !.over = TRUE]
      ELSE IF ld.start > f.end
           THEN [w EXCEPT !.ins = IF ld.start = f.end + 1 THEN @ ELSE a]
      ELSE IF inside /\ NoRecord(w)
           THEN [w EXCEPT !.over = TRUE, !.ret = TRUE, !.err = "ENOLCK"]
      ELSE IF f.start < ld.start
           THEN [Shortened(v, a) EXCEPT !.ins = a, !.over = inside]
      ELSE [delflck(v, a) EXCEPT
              !.ins = IF ld.start = f.start THEN Previous(w.list, a) ELSE @,
              !.over = inside]

AdjustBy(w, a) ==
  IF w.over \/ w.fl[a].owner # w.ld.owner THEN w
  ELSE IF w.fl[a].type = w.ld.type THEN Coalesce(w, a) ELSE Release(w, a)

flckadj(work, insrtp, req) ==
  LET from == IF insrtp = NULL THEN 1 ELSE Position(work.list, insrtp)
      w0 == [ld |-> req, ins |-> insrtp, over |-> FALSE, ret |-> FALSE] @@ work
      w == FoldLeft(AdjustBy, w0, SubSeq(work.list, from, Len(work.list)))
  IN  IF w.ret \/ req.type = "F_UNLCK" THEN w
      ELSE IF NoRecord(w) THEN [w EXCEPT !.err = "ENOLCK"]
      ELSE insflck(w, w.ld, IF w.ins = NULL THEN NULL
                            ELSE LastBefore(w, w.ins, w.ld.start))

-----------------------------------------------------------------------------
(* blocked(): the first lock in the list that conflicts, or NULL, and where *)
(* flckadj() is to begin: the last lock that starts before the request, but *)
(* no later than the first one of the same owner that touches it.           *)

BlockingLock(req) ==
  LET list == v_filocks[req.file]
      found == {i \in DOMAIN list : Conflict(filock[list[i]], req)}
  IN  IF found = {} THEN NULL
      ELSE list[CHOOSE i \in found : \A j \in found : i <= j]

InsertionPoint(req) ==
  LET list == v_filocks[req.file]
      touches(i) == filock[list[i]].owner = req.owner /\ req.start - 1 <= filock[list[i]].end
      before == {i \in DOMAIN list :
                   /\ \A j \in 1 .. i : filock[list[j]].start < req.start
                   /\ \A j \in 1 .. i - 1 : ~touches(j)}
  IN  IF before = {} THEN NULL
      ELSE list[CHOOSE i \in before : \A j \in before : j <= i]

(* deadflck(): who is met by going from an owner to the one that the first  *)
(* of its entries in sl says it waits for, and so on.                       *)
WaitsFor(sl, o) ==
  LET mine == {i \in DOMAIN sl : sl[i].owner = o}
  IN  IF mine = {} THEN NULL ELSE sl[CHOOSE i \in mine : \A j \in mine : i <= j].blk

Pursuit(sl, o) ==
  LET met[n \in 0 .. Cardinality(Owner)] ==
        IF n = 0 THEN o
        ELSE IF met[n - 1] = NULL THEN NULL ELSE WaitsFor(sl, met[n - 1])
  IN  {met[n] : n \in DOMAIN met}

\* Mutated form: only the owner of the lock is asked for.
deadflckFirst(sl, o, asker) == o = asker

deadflck(sl, o, asker) == asker \in Pursuit(sl, o)
(* It has come back to where it was, and goes round for ever.               *)
Circles(sl, o, asker) == {asker, NULL} \intersect Pursuit(sl, o) = {}

Entry(req, blk) ==
  [owner |-> req.owner, type |-> req.type, start |-> req.start, end |-> req.end, blk |-> blk]

(* What cleanslp leaves of the chain. Neither it nor the look for an entry  *)
(* that is there already compares the vnode.                                *)
Cleaned(ld) == SelectSeq(sleeplcks, LAMBDA e :
  ~(e.owner = ld.owner /\ e.start >= ld.start /\ e.end <= ld.end))

-----------------------------------------------------------------------------
Init ==
  /\ filock = [a \in Address |-> NULL]
  /\ v_filocks = [f \in File |-> <<>>]
  /\ sleeplcks = <<>>
  /\ reccnt = 0
  /\ pr = [p \in Proc |-> Idle]
  /\ answer = NULL
  /\ circling = FALSE

Awake(addresses) == [p \in Proc |->
  IF pr[p].pc = "asleep" /\ pr[p].on \in addresses
  THEN [pr[p] EXCEPT !.pc = "woken", !.on = NULL] ELSE pr[p]]

(* What a request has made of the locks of its file.                        *)
Adjusted(req, w) ==
  /\ filock' = w.fl
  /\ v_filocks' = [v_filocks EXCEPT ![req.file] = w.list]
  /\ answer' = [req |-> req, err |-> w.err]

(* One turn of the loop of reclock() for a process, with sl and cnt what is *)
(* left of the chain and of the count.                                      *)
Attempt(p, req, sl, cnt) ==
  \E mem \in Memory :
    LET found == BlockingLock(req)
        blk == filock[found].owner
        w == flckadj(Work(req.file, cnt, mem), InsertionPoint(req), req)
        sleeps == found # NULL /\ req.slpflck
    IN  \/ /\ found = NULL /\ req.setflck
           /\ Adjusted(req, w)
           /\ pr' = [Awake(w.woken) EXCEPT ![p] = Idle]
           /\ sleeplcks' = sl /\ reccnt' = w.cnt
           /\ UNCHANGED circling
        \/ \* nothing to set; EAGAIN; EDEADLK; ENOLCK
           /\ \/ ~sleeps /\ ~(found = NULL /\ req.setflck)
              \/ sleeps /\ deadflck(sl, blk, p)
              \/ sleeps /\ ~Circles(sl, blk, p) /\ (cnt >= t_flckrec \/ mem = 0)
           /\ pr' = [pr EXCEPT ![p] = Idle]
           /\ sleeplcks' = sl /\ reccnt' = cnt
           /\ UNCHANGED <<locks, circling>>
        \/ /\ sleeps /\ ~deadflck(sl, blk, p) /\ ~Circles(sl, blk, p)
           /\ cnt < t_flckrec /\ mem > 0
           /\ filock' = [filock EXCEPT ![found].wakeflg = TRUE]
           /\ pr' = [pr EXCEPT ![p] = [pc |-> "asleep", req |-> req, on |-> found]]
           /\ sleeplcks' = <<Entry(req, blk)>> \o sl
           /\ reccnt' = cnt + 1
           /\ UNCHANGED <<v_filocks, answer, circling>>
        \/ /\ sleeps /\ Circles(sl, blk, p)
           /\ circling' = TRUE
           /\ pr' = [pr EXCEPT ![p] = Idle]
           /\ sleeplcks' = sl /\ reccnt' = cnt
           /\ UNCHANGED locks

(* F_SETLK, F_SETLKW; chklock(), which does not set.                        *)
LockRequest(p) ==
  /\ ~circling /\ pr[p].pc = "idle"
  /\ \E req \in Requests[p] :
       req.type # "F_UNLCK" /\ Attempt(p, req, sleeplcks, reccnt)

(* sleep(found, PCATCH | (PZERO+1)) may be ended by a signal; a signal may  *)
(* also come to a process that has been woken.                              *)
Signal(p) ==
  /\ ~circling /\ pr[p].pc \in {"asleep", "woken"}
  /\ pr' = [pr EXCEPT ![p].pc = "signalled", ![p].on = NULL]
  /\ UNCHANGED <<locks, sleeplcks, reccnt, circling>>

(* What follows SLEEP(); VOP_RWLOCK() may have delayed it.                  *)
\* Mutated form: the entry stays.
OwnEntryLeft(p) == sleeplcks

OwnEntryRemoved(p) == SelectSeq(sleeplcks, LAMBDA e : e.owner # p)
Resume(p) ==
  /\ ~circling
  /\ \/ /\ pr[p].pc = "woken"
        /\ Attempt(p, pr[p].req, OwnEntryRemoved(p), reccnt - 1)
     \/ /\ pr[p].pc = "signalled"
        /\ pr' = [pr EXCEPT ![p] = Idle]
        /\ sleeplcks' = OwnEntryRemoved(p) /\ reccnt' = reccnt - 1
        /\ UNCHANGED <<locks, circling>>

(* F_UNLCK, by a process or by the lock manager (F_RSETLK).                 *)
Unlock(o) ==
  /\ ~circling
  /\ o \in Proc => pr[o].pc = "idle"
  /\ \E req \in {r \in Requests[o] : r.type = "F_UNLCK"}, mem \in Memory :
       LET list == v_filocks[req.file]
           head == IF list = <<>> THEN NULL ELSE list[1]
           w == flckadj(Work(req.file, reccnt, mem), head, req)
           sl == IF o \in Remote THEN Cleaned(req) ELSE sleeplcks
       IN  /\ Adjusted(req, w)
           /\ pr' = Awake(w.woken)
           /\ sleeplcks' = sl
           /\ reccnt' = w.cnt - (Len(sleeplcks) - Len(sl))
           /\ UNCHANGED circling

(* F_RSETLK, F_RSETLKW: a request that cannot be granted is entered in the  *)
(* chain, if it is not in it, and EINTR returned; the manager asks again.   *)
RemoteRequest(r) ==
  /\ ~circling
  /\ \E req \in {x \in Requests[r] : x.type # "F_UNLCK"}, mem \in Memory :
       LET found == BlockingLock(req)
           e == Entry(req, filock[found].owner)
           w == flckadj(Work(req.file, reccnt, mem), InsertionPoint(req), req)
           sl == IF req.slpflck THEN Cleaned(w.ld) ELSE sleeplcks
       IN  \/ /\ found = NULL
              /\ Adjusted(req, w)
              /\ pr' = Awake(w.woken)
              /\ sleeplcks' = sl
              /\ reccnt' = w.cnt - (Len(sleeplcks) - Len(sl))
              /\ UNCHANGED circling
           \/ /\ found # NULL /\ req.slpflck
              /\ ~deadflck(sleeplcks, e.blk, r) /\ ~Circles(sleeplcks, e.blk, r)
              /\ ~Contains(sleeplcks, e) /\ reccnt < t_flckrec /\ mem > 0
              /\ sleeplcks' = <<e>> \o sleeplcks
              /\ reccnt' = reccnt + 1
              /\ UNCHANGED <<locks, pr, circling>>
           \/ /\ found # NULL /\ req.slpflck
              /\ Circles(sleeplcks, e.blk, r)
              /\ circling' = TRUE
              /\ UNCHANGED <<locks, sleeplcks, reccnt, pr>>

OfOwner(o, f) == SelectSeq(v_filocks[f], LAMBDA a : filock[a].owner = o)

Everything(o, f) == [file |-> f, owner |-> o, type |-> "F_UNLCK", start |-> 0,
                     end |-> MAXEND, setflck |-> TRUE, slpflck |-> FALSE]

(* cleanlocks(), at every close() of the file by a process, and when the    *)
(* system of a remote owner goes.                                           *)
cleanlocks(o, f) ==
  /\ ~circling
  /\ o \in Proc => pr[o].pc = "idle"
  /\ LET w == FoldLeft(delflck, Work(f, reccnt, 0), OfOwner(o, f))
     IN  /\ Adjusted(Everything(o, f), w)
         /\ pr' = Awake(w.woken)
         /\ reccnt' = w.cnt
         /\ UNCHANGED <<sleeplcks, circling>>

Next ==
  \/ \E p \in Proc : LockRequest(p) \/ Signal(p) \/ Resume(p)
  \/ \E r \in Remote : RemoteRequest(r)
  \/ \E o \in Owner : Unlock(o) \/ \E f \in File : cleanlocks(o, f)

Spec == Init /\ [][Next]_vars

-----------------------------------------------------------------------------
(* What every variable may be.                                              *)
TypeOK ==
  /\ filock \in [Address -> Lock \union {NULL}]
  /\ \A f \in File : v_filocks[f] \in Seq(Address)
  /\ \A i \in DOMAIN sleeplcks : sleeplcks[i] \in
       [owner: Owner, type: LockType, start: Byte, end: Byte, blk: Owner]
  /\ reccnt \in 0 .. t_flckrec
  /\ \A p \in Proc : pr[p] = Idle \/ pr[p].pc \in {"asleep", "woken", "signalled"}
  /\ answer \in {NULL} \union [req: Request, err: {"ok", "ENOLCK"}]
  /\ circling \in BOOLEAN

(* The count that limits new locks (insflck(), against t_flckrec) is that   *)
(* of the records in lists and in the chain, each in one place: none leaks  *)
(* when a request fails halfway, is interrupted or is cleaned up. A process *)
(* has one record in the chain from when it sleeps until it runs again.     *)
RecordsCounted ==
  LET inUse == {a \in Address : filock[a] # NULL}
  IN  /\ reccnt = Cardinality(inUse) + Len(sleeplcks)
      /\ \A f \in File : IsInjective(v_filocks[f])
      /\ inUse = UNION {ToSet(v_filocks[f]) : f \in File}
      /\ \A f, g \in File : f # g => ToSet(v_filocks[f]) \intersect ToSet(v_filocks[g]) = {}
      /\ \A p \in Proc : Len(SelectSeq(sleeplcks, LAMBDA e : e.owner = p))
                          = IF pr[p].pc = "idle" THEN 0 ELSE 1

(* Records have their types and each is in its place (struct filock).       *)
RecordsOK == TypeOK /\ RecordsCounted

(* What flckadj() and blocked() assume of the list and must preserve: it is *)
(* in order; the locks of one owner are apart, and those of the same type   *)
(* do not even adjoin; those of different owners are compatible.            *)
ListsInOrder == \A f \in File :
  \A i, j \in DOMAIN v_filocks[f] : i < j =>
    LET x == filock[v_filocks[f][i]]
        y == filock[v_filocks[f][j]]
    IN  /\ x.start <= y.start
        /\ x.owner = y.owner => x.end < y.start /\ (x.type = y.type => x.end + 1 < y.start)
        /\ ~Conflict(x, y)

(* The macro WAKEUP is used wherever a lock goes or shrinks: a process that *)
(* sleeps does so on a lock that still is in the list of its file, still    *)
(* conflicts with its request, and is marked to wake it.                    *)
NoLostWakeup == \A p \in Proc : pr[p].pc = "asleep" =>
  LET a == pr[p].on
  IN  /\ a \in ToSet(v_filocks[pr[p].req.file])
      /\ filock[a].wakeflg
      /\ Conflict(filock[a], pr[p].req)

(* What deadflck() is for: no processes sleep on locks of each other, in    *)
(* whichever order the locks were taken, waited for and released.           *)
NoDeadlock == \A S \in SUBSET Proc : S # {} =>
  \E p \in S : pr[p].pc = "asleep" => filock[pr[p].on].owner \notin S

(* deadflck() ends: the chain never leads back into itself.                 *)
SearchEnds == ~circling

(* Deadlock is refused and the search for it always has an answer, with     *)
(* requests of remote owners and of interrupted sleepers in the chain.      *)
DeadlockRefused == NoDeadlock /\ SearchEnds
=============================================================================
